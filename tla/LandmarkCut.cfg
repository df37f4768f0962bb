SPECIFICATION LandmarksSpec
CONSTANTS
    Var <- MCVar
    Domain <- MCDomain
    Op <- MCOp
    Cost <- MCCost
    Pre <- MCPre
    Effects <- MCEffects
    InitialState <- MCInitialState
    Goal <- MCGoal
    CostFunctions <- MCCostFunctions
    Garbage = {0}
    Infty = Infty
INVARIANTS
    HMaxIsExact
    CutIsLandmark
    EstimateIsBounded
