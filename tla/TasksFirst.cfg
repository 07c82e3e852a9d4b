\* The first sync of a cluster: tasks that wait for one another.
CONSTANTS
    Tasks <- WaitingTasks
    Configs <- EtcdOnly
    Present <- NewCluster
    Changing = {}
    Deletable = {}
    MaxChanges = 0
    MaxDeletions = 0
    MaxFaults = 0
SPECIFICATION Spec
INVARIANTS TypeOK NoCircularWait PasswordAccepted
