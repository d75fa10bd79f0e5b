SPECIFICATION Spec
CONSTANTS
    Equity = 1000
    MaxPositionPct = 10
    MaxLossPctPerTrade = 2
    MaxLossPctPerDay = 5
    MaxDrawdownPct = 15
    MaxCorrelation = 70
    MaxOrderSizePct = 5
    MaxSlippageBps = 10
    Traders = {t1}
    Contexts <- QuietOnly
    MaxFills = 4
INVARIANT BookWithinPositionLimit
CHECK_DEADLOCK FALSE
