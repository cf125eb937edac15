CONSTANTS
    a1 = a1
    a2 = a2
    Seed = Seed
    Apps <- MCApps1
    ClusterScoped <- MCNoCluster
    Kind = "Standalone"
    Replicas = 2
    CtxKinds = {"new", "updated"}
    AuxLen = 2
    Size <- MCSize1
    DiskSpace = {7}
    UInt64 = 8
    MaxConcurrentAppDownloads = 1
    MaxRetry = 1
    IOFaults = {"statfs", "mkdir", "download", "podexec"}
    TimeoutEnabled = FALSE
SPECIFICATION Spec
INVARIANT CopyOnlyAfterDownload
CHECK_DEADLOCK FALSE
