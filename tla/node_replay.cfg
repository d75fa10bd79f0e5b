SPECIFICATION NodeSpec
CONSTANTS
    b = b
    s = s
    b1 = b1
    b2 = b2
    s1 = s1
    t1 = t1
    t2 = t2
    t3 = t3
    ClientIds = {b}
    VenueIds = {b1}
    Trades = {t1}
    Quantity <- MCQuantity
    Side <- MCSide
    Owner <- MCOwner
    Fill <- MCFill
    Reports <- MCSilent
    Quantities = {}
    AllowOverfills = FALSE
    MaxTaken = 2
    Threshold = 1
    MaxRetries = 2
    Filtered = {}
    MaxCommands <- MCCommands
INVARIANT ReplaysAreSkipped
CHECK_DEADLOCK FALSE
