SPECIFICATION FairSpec
CONSTANTS
    c1 = c1
    c2 = c2
    c3 = c3
    d1 = d1
    d2 = d2
    Consumers <- ThreeConsumers
    Destinations <- TwoDestinations
    dest <- SharedAndOwn
INVARIANTS
    TypeOK
    SubscribedWhileUsed
    InfoIsValid
PROPERTY
    CallsReturn
CHECK_DEADLOCK FALSE
