SPECIFICATION FairSpec
CONSTANTS
    Messages = {m1, m2}
    MaxAttempts = 2
    MaxConns = 3
INVARIANTS
    TypeOK
    SentOnce
    InOrder
    Replayed
    ActiveIsWhole
PROPERTIES
    DisconnectIsFinal
    DisconnectEnds
    ReconnectEnds
CHECK_DEADLOCK FALSE
