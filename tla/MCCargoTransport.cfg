CONSTANTS
    Session = {s1, s2}
    Leg = {l1}
    Consignment = {c1}
    Day = {1, 3}
    LegOpening = {"READY"}
    CargoOpening = {"IN_TRANSIT"}
    LegTarget = {"DEPARTED"}
    CargoTarget = {"LOST"}
    s1 = s1
    s2 = s2
    l1 = l1
    c1 = c1
SPECIFICATION Spec
CHECK_DEADLOCK FALSE
SYMMETRY Symmetry
INVARIANT RiskIsCurrent
PROPERTIES SettledCargoIsFinal DelayReachesManifest
