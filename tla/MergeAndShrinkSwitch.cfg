SPECIFICATION Spec
CONSTANTS
    Var <- SWVar
    Domain <- SWDomain
    Op <- SWOp
    Cost <- SWCost
    Pre <- SWPre
    Effects <- SWEffects
    InitialState <- SWInitialState
    Goal <- SWGoal
    Configurations <- MCConfigurations
    Pruned = Pruned
    Infty = Infty
INVARIANT
    PerfectIfFactored
