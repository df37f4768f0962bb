SPECIFICATION Spec
CONSTANTS
    State <- MCState
    Op <- MCOp
    InitialState = 2
    Goal = {10}
    Applicable <- MCApplicable
    Result <- MCResult
    Cost <- MCCost
    CostType = "NORMAL"
    IsUnitCost = FALSE
    Bound = 4
    Solvable <- MCSolvable
    Dist <- MCDist
    Rank <- MCDist
    Heuristics <- MCHeuristics
    GeneratorLists <- MCGeneratorLists
    NoState = 0
    NoOp = "no_operator"
INVARIANTS
    ParentsLeadToOrbit
    PlanIsCheapest
    OperatorsAreFound
