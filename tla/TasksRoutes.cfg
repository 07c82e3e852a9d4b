\* A route that tasks read before it is there.
CONSTANTS
    Tasks <- RouteTasks
    Configs <- UserWorkloadOnly
    Present <- RouteCluster
    Changing = {}
    Deletable = {}
    MaxChanges = 0
    MaxDeletions = 0
    MaxFaults = 0
SPECIFICATION FairSpec
PROPERTY EventuallyComplete
