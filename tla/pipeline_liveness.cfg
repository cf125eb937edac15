CONSTANTS
    a1 = a1
    a2 = a2
    Seed = Seed
    Apps <- MCApps1
    ClusterScoped <- MCNoCluster
    Kind = "ClusterMaster"
    Replicas = 1
    CtxKinds = {"new", "installed"}
    AuxLen = 1
    Size <- MCSize1
    DiskSpace = {7}
    UInt64 = 8
    MaxConcurrentAppDownloads = 1
    MaxRetry = 2
    IOFaults = {}
    TimeoutEnabled = FALSE
SPECIFICATION Spec
PROPERTY EntryEventuallyReturns
PROPERTY EveryAppDeployed
CHECK_DEADLOCK FALSE
PROPERTY DownloadDrainCompletes
