\* A rollout with stale status, timeouts, lost responses and recreation: it is
\* reported when it is complete, and completes once faults end.
CONSTANTS
    Slots = {s1, s2}
    MaxManifest = 3
    Selector <- MCSelector
    MaxFaults = 2
    MaxDeletes = 1
SPECIFICATION FairSpec
INVARIANT TypeOK
PROPERTIES RolledOutWhenOk ImplementsRollout EventuallyRolledOut
