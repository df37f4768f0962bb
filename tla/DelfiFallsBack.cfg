SPECIFICATION DelfiSpec
INVARIANTS
    FallsBack
