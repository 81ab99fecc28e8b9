CONSTANTS
    Person = {"p1", "p2", "p3"}
    Team = {"t1", "t2", "t3"}
    Mission = {"m1", "m2"}
    Expedition = {"e1", "e2"}
    Window = {"w1", "w2"}
    Place = {"ridge"}
    Asset = {"a1", "a2"}
    Cargo = {"c1"}
    Lot = {"l1", "l2"}
    Document = {"d1"}
    Leg = {"g1"}
    Constraint = {"DEADLINE", "RESOURCES", "SLOT", "STAFF", "ETA", "SERVICE", "FUEL", "ACCESS", "PERMIT", "CAPACITY", "RUNWAY", "RETIRED", "NOVEL"}
    ConstraintRow <- Constraints
    SupplyRows <- Supplies
    Stocked <- Stock
    Dependencies <- Tables
    Seeded <- Seeds
    Addition <- Additions
    Ask <- Asks
    Session = {s1, s2}
    Scope <- Scopes
    MaxChanges = 2
    s1 = s1
    s2 = s2
SPECIFICATION Spec
CHECK_DEADLOCK FALSE
SYMMETRY Symmetry
INVARIANTS SameExpedition LatestEventIsTheStatus SafetyVerdictOfAMoment ReviewBounded ImpactIsTheBall
PROPERTY StatusesMoveLawfully
