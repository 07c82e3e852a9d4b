\* A wait that ends before the prometheus-operator has handled the manifest.
CONSTANTS
    Slots = {s1, s2}
    MaxManifest = 2
    Visible <- MCVisible
    MaxFaults = 0
    MaxDeletes = 0
SPECIFICATION FairSpec
PROPERTY RolledOutBeforeDone
