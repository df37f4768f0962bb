SPECIFICATION Spec
CONSTANTS
    State <- MCState
    Op <- MCOp
    InitialState = "start"
    Goal = {"goal"}
    Applicable <- MCApplicable
    Result <- MCResult
    Cost <- MCCost
    CostType = "NORMAL"
    IsUnitCost = FALSE
    Bound = 5
    Solvable <- MCSolvable
    Dist <- MCDist
    Rank <- MCRank
    Heuristics <- AllMisleading
    Queue = "greedy"
    Weight = 2
    ReopenClosed = FALSE
    Prune <- MCPrune
    NumPorProbes = 2
    NoState = "no_state"
    NoOp = "no_operator"
INVARIANTS
    ParentsAreEdges
    PlanWithinBound
