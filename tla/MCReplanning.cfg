\* Two operators and two competing recommendations of one replan.
SPECIFICATION HistorySpec
CONSTANTS
    p1 = p1
    r1 = r1  r2 = r2
    s1 = s1  s2 = s2
    Replan = {p1}
    Rec = {r1, r2}
    Session = {s1, s2}
    ReplanOf <- OneReplan
    ActionOf <- TwoActions
    MaxDecisions = 2
    MaxApplies = 3
SYMMETRY SessionSymmetry
INVARIANTS
    TypeOK
    HumanBoundary
    StatesRestOnDecisions
    ImplementedWasExecuted
    ReplanRestsOnRecommendation
    ExecutionsBounded
    ExecutionsWithinApprovals
    LatestDecisionShown
PROPERTY ImplementsBoundary
CHECK_DEADLOCK FALSE
