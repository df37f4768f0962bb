SPECIFICATION PruningSpec
CONSTANTS
    Var <- CEVar
    Domain <- CEDomain
    Op <- CEOp
    Cost <- CECost
    Pre <- CEPre
    Effects <- CEEffects
    InitialState <- CEInitialState
    Goal <- CEGoal
    Variants = {"simple"}
    Infty = Infty
INVARIANT
    KeepsAPlan
