SPECIFICATION FairSpec
CONSTANTS
    m1 = m1
    m2 = m2
    c1 = c1
    c2 = c2
    App = App
    Owner = Owner
    Dispatcher = Dispatcher
    Messages <- MCMessages
    Consumers <- TwoConsumers
    ConsumerOf <- OneEach
    Usages <- Intended
    TxCalls <- Both
    OwnerCalls <- StartAndStop
    MaxRedeliveries = 2
    CanBreak = TRUE
INVARIANTS
    TypeOK
    Accounted
PROPERTIES
    ImplementsTransactionalDelivery
    RolledBackReturns
CHECK_DEADLOCK FALSE
