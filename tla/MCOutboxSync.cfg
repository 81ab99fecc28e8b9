CONSTANTS
    Op = {1, 2}
    Incident = {i1}
    TargetOf <- SameTarget
    Slot = {k1, k2}
    MaxBatch = 2
    MayReload = TRUE
    MayReject = TRUE
    Others = FALSE
    i1 = i1
    k1 = k1
    k2 = k2
SPECIFICATION Spec
CHECK_DEADLOCK FALSE
SYMMETRY SlotSymmetry
INVARIANT NoOperationLost
PROPERTY NothingElseStrands
