CONSTANTS
    Session = {s1, s2}
    Order = {o1, o2, o3}
    Location = {"base", "field"}
    Opening <- InUse
    Target = {"AVAILABLE", "RETIRED", "field"}
    s1 = s1
    s2 = s2
    o1 = o1
    o2 = o2
    o3 = o3
SPECIFICATION Spec
CHECK_DEADLOCK FALSE
SYMMETRY Symmetry
INVARIANTS TypeOK CompletedWasDone OverlapBounded NoOverlapUnlessStale
PROPERTY EndsAreFinal
