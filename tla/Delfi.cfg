SPECIFICATION DelfiSpec
INVARIANTS
    SelectedForThisTask
    PlanIsOfThisTask
PROPERTIES
    DelfiTerminates
