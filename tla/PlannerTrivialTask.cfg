SPECIFICATION Spec
CONSTANTS
    Infinity = 3
    MaxPlans = 4
    NumEngines = 2
    SearchOptions <- SomeOptions
    InitiallyGoal = TRUE
    MayGiveUp = TRUE
PROPERTY
    Terminates
