SPECIFICATION FairSpec
CONSTANTS
    m1 = m1
    m2 = m2
    m3 = m3
    m4 = m4
    c1 = c1
    c2 = c2
    app = app
    Callers <- MCCallers
    Dispatcher = Dispatcher
    Messages <- MCMessages
    Consumers <- MCConsumers
    ConsumerOf <- MCConsumerOf
INVARIANTS
    TypeOK
    NoMissedWakeup
PROPERTIES
    ImplementsPausableQueue
    NobodyWaitsForEver
CHECK_DEADLOCK FALSE
