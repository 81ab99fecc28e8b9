CONSTANTS
    Incident = {i1}
    Target = {location, lot, leg}
    Kind <- KindOf
    Wanted <- WantedOf
    Session = {s1, s2}
    Severity = {"MEDIUM", "HIGH", "CRITICAL"}
    Metadata = {plain, annotated}
    Requested = {"ACKNOWLEDGED", "CLOSED"}
    OperatorStatus = {"AVAILABLE", "ARRIVED"}
    MaxReferences = 2
    MaxStock = 1
    MaxRequests = 3
    MaxReplans = 2
    plain = plain
    annotated = annotated
    i1 = i1
    s1 = s1
    s2 = s2
    location = location
    asset = asset
    lot = lot
    consignment = consignment
    leg = leg
SPECIFICATION Spec
CHECK_DEADLOCK FALSE
SYMMETRY Symmetry
INVARIANTS TypeOK StampedStatus AppliedIsTruthful ReplanRestsOnPropagation
PROPERTIES NoSecondEscalation ClosedIsFinal
