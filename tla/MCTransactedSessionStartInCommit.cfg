SPECIFICATION Spec
CONSTANTS
    m1 = m1
    m2 = m2
    c1 = c1
    c2 = c2
    App = App
    Owner = Owner
    Dispatcher = Dispatcher
    Messages <- MCMessages
    Consumers <- TwoConsumers
    ConsumerOf <- OneEach
    Usages <- Mixed
    TxCalls <- CommitOnly
    OwnerCalls <- StartOnly
    MaxRedeliveries = 3
    CanBreak = FALSE
PROPERTY
    CommitIsComplete
CHECK_DEADLOCK FALSE
