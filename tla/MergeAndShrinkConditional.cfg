SPECIFICATION Spec
CONSTANTS
    Var <- CEVar
    Domain <- CEDomain
    Op <- CEOp
    Cost <- CECost
    Pre <- CEPre
    Effects <- CEEffects
    InitialState <- CEInitialState
    Goal <- CEGoal
    Configurations <- MCConfigurations
    Pruned = Pruned
    Infty = Infty
INVARIANTS
    Homomorphism
    HeuristicIsAdmissible
