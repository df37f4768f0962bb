SPECIFICATION Spec
CONSTANTS
    Var <- MCVar
    Domain <- MCDomain
    Op <- MCOp
    Cost <- MCCost
    Pre <- MCPre
    Effects <- MCEffects
    InitialState <- MCInitialState
    Goal <- MCGoal
    Configurations <- MCConfigurations
    Pruned = Pruned
    Infty = Infty
INVARIANTS
    Homomorphism
    DistancesAreCurrent
    HeuristicIsAdmissible
    HeuristicIsPerfect
    FixpointReached
