CONSTANTS
    Op = {1}
    Incident = {i1}
    TargetOf <- SameTarget
    Slot = {k1, k2}
    MaxBatch = 2
    MayReload = FALSE
    MayReject = TRUE
    Others = TRUE
    i1 = i1
    k1 = k1
    k2 = k2
SPECIFICATION FairSpec
CHECK_DEADLOCK FALSE
INVARIANT TypeOK
PROPERTIES SyncingReleased NothingStaysSyncing
