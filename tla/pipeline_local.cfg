\* ClusterMaster (one replica), one local-scope and one cluster-scope app,
\* every I/O step may fail, the yield timer may expire.  3 bytes of disk admit
\* a1 (size 2) and then a2 into the remaining byte by the uint64 wrap, or meet
\* a2 (size 3) first with an exact fit, so the requeue branch is reached.
CONSTANTS
    a1 = a1
    a2 = a2
    Seed = Seed
    Apps <- MCApps2
    ClusterScoped <- MCCluster2
    Kind = "ClusterMaster"
    Replicas = 1
    CtxKinds = {"new", "installed"}
    AuxLen = 1
    Size <- MCSize2
    DiskSpace = {3}
    UInt64 = 8
    MaxConcurrentAppDownloads = 1
    MaxRetry = 2
    IOFaults = {"statfs", "mkdir", "download", "podexec"}
    TimeoutEnabled = TRUE
SPECIFICATION Spec
INVARIANT TypeOK
INVARIANT CopyOnlyAfterDownload
 
CHECK_DEADLOCK FALSE
