SPECIFICATION FairSpec
CONSTANTS
    u1 = u1
    u2 = u2
    Owner = Owner
    Users <- TwoUsers
    Preferred = 4
    Supported <- MCSupported
    BrokerVersions <- MCBrokerVersions
INVARIANTS
    TypeOK
    AgreedFormat
    NoUseOfDeleted
PROPERTY
    CloseReturns
CHECK_DEADLOCK FALSE
