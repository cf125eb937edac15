\* Two reconciles (two CRs, or MaxConcurrentReconciles > 1) enter the
\* scheduler at once; getAvailableDiskSpace always succeeds.
CONSTANTS
    r1 = r1
    r2 = r2
    Entries <- MCEntries2
    DiskErrorPossible = FALSE
SPECIFICATION Spec
INVARIANT NoPanic
CHECK_DEADLOCK FALSE
