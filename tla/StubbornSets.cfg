SPECIFICATION PruningSpec
CONSTANTS
    Var <- MCVar
    Domain <- MCDomain
    Op <- MCOp
    Cost <- MCCost
    Pre <- MCPre
    Effects <- MCEffects
    InitialState <- MCInitialState
    Goal <- MCGoal
    Variants = {"simple", "ec"}
    Infty = Infty
CONSTRAINT
    EffectIsEnabled
INVARIANTS
    KeepsAPlan
    EveryPlanMeetsTheSet
    CommutesWithRest
