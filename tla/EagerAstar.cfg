SPECIFICATION Spec
CONSTANTS
    State <- MCState
    Op <- MCOp
    InitialState = "start"
    Goal = {"goal"}
    Applicable <- MCApplicable
    Result <- MCResult
    Cost <- MCCost
    CostType = "NORMAL"
    IsUnitCost = FALSE
    Bound = 6
    Solvable <- MCSolvable
    Dist <- MCDist
    Rank <- MCRank
    Heuristics <- AllAdmissible
    Queue = "astar"
    Weight = 2
    ReopenClosed = TRUE
    Prune <- MCPrune
    NumPorProbes = 2
    NoState = "no_state"
    NoOp = "no_operator"
INVARIANTS
    NoParentCycle
    ClosedNodesAreExpanded
    SolvedIsOptimal
    FailedIsUnsolvable
PROPERTIES
    ImplementsLabelCorrecting
    Terminates
