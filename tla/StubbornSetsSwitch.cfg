SPECIFICATION PruningSpec
CONSTANTS
    Var <- SWVar
    Domain <- SWDomain
    Op <- SWOp
    Cost <- SWCost
    Pre <- SWPre
    Effects <- SWEffects
    InitialState <- SWInitialState
    Goal <- SWGoal
    Variants = {"simple", "ec"}
    Infty = Infty
INVARIANT
    KeepsAPlan
