SPECIFICATION FairNodeSpec
CONSTANTS
    b = b
    s = s
    b1 = b1
    b2 = b2
    s1 = s1
    t1 = t1
    t2 = t2
    t3 = t3
    ClientIds = {b, s}
    VenueIds = {b1, b2, s1}
    Trades = {t1, t2, t3}
    Quantity <- MCQuantity
    Side <- MCSide
    Owner <- MCOwner
    Fill <- MCFill
    Reports <- MCReports
    Quantities = {8}
    AllowOverfills = FALSE
    MaxTaken = 2
    Threshold = 1
    MaxRetries = 2
    Filtered = {s}
    MaxCommands <- MCCommands
INVARIANTS
    TypeOK
    IndexesAgree
    PendingHasBase
    FilledOnce
    BookedOnce
    NetIsSum
    CyclesKept
PROPERTIES
    ClosedIsFinal
    OrderTakesFill
    InflightResolves
CHECK_DEADLOCK FALSE
