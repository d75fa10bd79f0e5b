SPECIFICATION Spec
CONSTANTS
    StrategyIds = {s1}
    Managers = {m1, m2}
    CoarseClock = FALSE
    MayCrash = FALSE
    MaxLog = 4
    MaxTime = 6
PROPERTY DeprecatedIsFinal
CHECK_DEADLOCK FALSE
