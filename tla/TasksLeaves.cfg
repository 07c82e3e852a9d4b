\* Objects that others delete.
CONSTANTS
    Tasks <- LeafTasks
    Configs <- BaseOnly
    Present <- Inputs
    Changing = {}
    Deletable = {"NodeExporterServiceAccount", "KubeStateMetricsService", "PrometheusOperatorCertsCABundle"}
    MaxChanges = 0
    MaxDeletions = 1
    MaxFaults = 0
SPECIFICATION FairSpec
PROPERTY EventuallyComplete
