SPECIFICATION FairSpec
CONSTANTS
    Equity = 1000
    MaxPositionPct = 10
    MaxLossPctPerTrade = 2
    MaxLossPctPerDay = 5
    MaxDrawdownPct = 15
    MaxCorrelation = 70
    MaxOrderSizePct = 5
    MaxSlippageBps = 10
    Runs = {r1, r2}
    Symbols = {s1}
    Contexts <- Live
    MayFail = TRUE
    MaxClock = 1
    MaxBoots = 1
INVARIANTS
    TypeOK
    TradesAreCleared
    TrailIsBacked
    AnsweredIsRecorded
PROPERTY FillsAreRecorded
CHECK_DEADLOCK FALSE
