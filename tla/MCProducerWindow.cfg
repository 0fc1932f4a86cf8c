SPECIFICATION FairSpec
CONSTANTS
    p1 = p1
    p2 = p2
    m1 = m1
    m2 = m2
    Producers <- TwoProducers
    Messages <- OneMessage
    Bodies <- OneSize
    Props <- MCProps
    Limit = 2
    MaxInFlight = 2
INVARIANTS
    TypeOK
    WindowHolds
PROPERTY
    RoomIsGiven
CHECK_DEADLOCK FALSE
