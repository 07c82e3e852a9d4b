\* Certificates that are replaced while their users copy them.
CONSTANTS
    Tasks <- RotationTasks
    Configs <- UserWorkloadOnly
    Present <- RotationCluster
    Changing = {}
    Deletable = {}
    MaxChanges = 2
    MaxDeletions = 0
    MaxFaults = 1
SPECIFICATION Spec
INVARIANTS CopiesAreCurrent
PROPERTY RotationHonoured
