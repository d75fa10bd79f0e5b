SPECIFICATION FairSpec
CONSTANTS
    Limit = 2
    Interval = 3
    HeadStart = 1
    MaxRecv = 5
    MaxArrival = 5
    MaxTime = 8
INVARIANTS
    RateLimited
    InOrder
PROPERTIES
    NoNeedlessDrop
    BufferDrains
CHECK_DEADLOCK FALSE
