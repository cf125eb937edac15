CONSTANTS
    a1 = a1
    a2 = a2
    Seed = Seed
    Apps <- MCApps2
    ClusterScoped <- MCNoCluster
    Kind = "ClusterMaster"
    Replicas = 1
    CtxKinds = {"new"}
    AuxLen = 0
    Size <- MCSize2
    DiskSpace = {7}
    UInt64 = 8
    MaxConcurrentAppDownloads = 1
    MaxRetry = 2
    IOFaults = {}
    TimeoutEnabled = FALSE
SPECIFICATION Spec
PROPERTY EntryEventuallyReturns
CHECK_DEADLOCK FALSE
