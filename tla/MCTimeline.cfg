\* A leg, its consignment and the incident that delays it.
SPECIFICATION Spec
CONSTANTS
    l1 = l1  c1 = c1  i1 = i1
    Leg = {l1}
    Consignment = {c1}
    Incident = {i1}
    Manifest <- OnLeg
    Reference <- Disrupted
    MaxRequests = 2
    MaxTime = 4
INVARIANTS
    EachRecordOnce
    OperationsShownWhole
CHECK_DEADLOCK FALSE
