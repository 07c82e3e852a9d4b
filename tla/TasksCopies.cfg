\* Certificates and bundles that change while they are copied.
CONSTANTS
    Tasks <- CopyingTasks
    Configs <- OnAndOff
    Present <- CopyingCluster
    Changing = {"TelemeterTrustedCABundle", "prometheus-adapter-tls"}
    Deletable = {}
    MaxChanges = 1
    MaxDeletions = 0
    MaxFaults = 0
SPECIFICATION Spec
INVARIANTS Restartable CopiesAreCurrent DisabledIsGone
