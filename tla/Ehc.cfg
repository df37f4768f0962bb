SPECIFICATION Spec
CONSTANTS
    State <- MCState
    Op <- MCOp
    InitialState = "start"
    Goal = {"goal"}
    Applicable <- MCApplicable
    Result <- MCResult
    Cost <- MCCost
    CostType = "PLUSONE"
    IsUnitCost = FALSE
    Bound = 6
    Solvable <- MCSolvable
    Dist <- MCDist
    Rank <- MCRank
    Heuristics <- AllUnreliable
    NoState = "no_state"
    NoOp = "no_operator"
INVARIANTS
    RealCostsAreExact
    FailureIsExhaustive
    PlanWithinBound
