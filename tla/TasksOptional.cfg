\* User workload monitoring enabled and disabled, with failing calls.
CONSTANTS
    Tasks <- UserWorkloadTasks
    Configs <- OnAndOff
    Present <- UserWorkloadCluster
    Changing = {}
    Deletable = {"ThanosQuerierRoute"}
    MaxChanges = 0
    MaxDeletions = 1
    MaxFaults = 1
SPECIFICATION Spec
INVARIANTS Restartable DisabledIsGone
