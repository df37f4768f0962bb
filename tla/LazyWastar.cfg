SPECIFICATION Spec
CONSTANTS
    State <- MCState
    Op <- MCOp
    InitialState = "start"
    Goal = {"goal"}
    Applicable <- MCApplicable
    Result <- MCResult
    Cost <- MCCost
    CostType = "NORMAL"
    IsUnitCost = FALSE
    Bound = 5
    Solvable <- MCSolvable
    Dist <- MCDist
    Rank <- MCRank
    Heuristics <- AllInformed
    NoState = "no_state"
    NoOp = "no_operator"
    Queue = "wastar"
    Weight = 2
INVARIANTS
    EdgesAreKept
    PlanWithinBound
    FailedIsUnsolvable
