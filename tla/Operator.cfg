\* Failing calls, inputs that change around and during a sync, and a process
\* that ends anywhere and comes back as another version.
CONSTANTS
    Key = key
    Config = config
    UserWorkload = uwmConfig
    kubeletCA = kubeletCA
    etcdCA = etcdCA
    Sources = {config, uwmConfig, kubeletCA, etcdCA}
    Triggers = {config, uwmConfig, kubeletCA}
    UpdateOnly = {kubeletCA}
    Loads = {etcdCA}
    Required = {kubeletCA}
    Contents <- MCContents
    Installed <- MCInstalled
    Tasks <- MCTasks
    Reads <- MCReads
    Causes <- MCCauses
    Versions = {"4.8", "4.9"}
    MaxWrites = 1
    MaxFaults = 1
    MaxRestarts = 1

SPECIFICATION FairSpec
INVARIANTS TypeOK OneSyncAtATime NoLostUpdate AvailableXorDegraded
PROPERTIES RolloutBeforeReport ImplementsRollout Converges
