SPECIFICATION Spec
CONSTANTS
    StrategyIds = {s1}
    Managers = {m1, m2}
    CoarseClock = TRUE
    MayCrash = TRUE
    MaxLog = 4
    MaxTime = 4
INVARIANTS
    TypeOK
    RegisteredFirst
PROPERTY SettledDeprecation
CHECK_DEADLOCK FALSE
