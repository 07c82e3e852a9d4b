\* What a successful wait ensures, and that the operand follows its manifest once
\* that settles.
CONSTANTS
    Slots = {s1, s2}
    MaxManifest = 3
    Visible <- MCVisible
    MaxFaults = 1
    MaxDeletes = 1
SPECIFICATION FairSpec
INVARIANT TypeOK
PROPERTIES NoOutdatedPodUnlessReverted EventuallySettled
