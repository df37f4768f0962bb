SPECIFICATION Spec
CONSTANTS
    Infinity = 3
    MaxPlans = 3
    InitiallyGoal = FALSE
    MayGiveUp = TRUE
    Tick = 2
    TimeLimit = 3
    MaxElapsed = 9
    GeneralCost = TRUE
    MaxCrashes = 1
    CrashWhileDeleting = FALSE
    Portfolios <- AllFinals
INVARIANTS
    NothingBogus
    FilesMatchRecord
    ExitIsJustified
    StopsInTime
PROPERTIES
    PlansKept
    Terminates
