\* Every kind of object, with other writers between the calls of a task.
CONSTANTS
    Manifests = {1, 2, 3, 4}
    Body <- MCBody
    RoleRef <- MCRoleRef
    Meta <- MCMeta
    Keys = {"own", "plain", "other"}
    Prefixed = {"own"}
    SpeltOut = {2, 3}
    Kinds <- AllKinds
    MaxChanges = 4
    MaxFaults = 1
SPECIFICATION FairSpec
INVARIANT TypeOK
PROPERTIES OthersMetadataKept GivenKept AppliedWhenOk EventuallyApplied
