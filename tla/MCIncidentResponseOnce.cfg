CONSTANTS
    Incident = {i1}
    Target = {location, asset, lot, consignment, leg}
    Kind <- KindOf
    Wanted <- WantedOf
    Session = {s1}
    Severity = {"MEDIUM", "HIGH", "CRITICAL"}
    Metadata = {plain}
    Requested = {"ACKNOWLEDGED", "CLOSED"}
    OperatorStatus = {"AVAILABLE", "ARRIVED"}
    MaxReferences = 1
    MaxStock = 1
    MaxRequests = 4
    MaxReplans = 2
    plain = plain
    annotated = annotated
    i1 = i1
    s1 = s1
    s2 = s2
    location = location
    asset = asset
    lot = lot
    consignment = consignment
    leg = leg
SPECIFICATION Spec
CHECK_DEADLOCK FALSE
INVARIANT DelayedOnce
