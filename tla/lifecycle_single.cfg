SPECIFICATION FairSpec
CONSTANTS
    StrategyIds = {s1, s2}
    Managers = {m1}
    CoarseClock = FALSE
    MayCrash = TRUE
    MaxLog = 5
    MaxTime = 6
PROPERTIES
    ImplementsLifecycle
    DeprecationLands
CHECK_DEADLOCK FALSE
