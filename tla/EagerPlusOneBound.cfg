SPECIFICATION Spec
CONSTANTS
    State <- PState
    Op <- POp
    InitialState = "start"
    Goal = {"goal"}
    Applicable <- PApplicable
    Result <- PResult
    Cost <- PCost
    CostType = "PLUSONE"
    IsUnitCost = FALSE
    Bound = 4
    Solvable <- PState
    Dist <- PDist
    Rank <- PRank
    Heuristics <- PHeuristics
    Queue = "greedy"
    Weight = 2
    ReopenClosed = TRUE
    Prune <- PApplicable
    NumPorProbes = 2
    NoState = "no_state"
    NoOp = "no_operator"
INVARIANTS
    PlanWithinBound
