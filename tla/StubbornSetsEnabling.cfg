SPECIFICATION PruningSpec
CONSTANTS
    Var <- MCVar
    Domain <- MCDomain
    Op <- MCOp
    Cost <- MCCost
    Pre <- MCPre
    Effects <- MCEffects
    InitialState <- MCInitialState
    Goal <- MCGoal
    Variants = {"ec"}
    Infty = Infty
INVARIANT
    KeepsAPlan
