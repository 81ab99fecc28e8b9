CONSTANTS
    Session = {s1, s2}
    Amount = {1, 2}
    Opening <- TwoLots
    Target = {"AVAILABLE"}
    MaxTotal = 2
    s1 = s1
    s2 = s2
SPECIFICATION Spec
CHECK_DEADLOCK FALSE
INVARIANT ReservationsCovered
