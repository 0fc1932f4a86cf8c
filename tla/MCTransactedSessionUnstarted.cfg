SPECIFICATION Spec
CONSTANTS
    m1 = m1
    m2 = m2
    c1 = c1
    c2 = c2
    App = App
    Owner = Owner
    Dispatcher = Dispatcher
    Messages <- MCMessages
    Consumers <- TwoConsumers
    ConsumerOf <- OneEach
    Usages <- Intended
    TxCalls <- CommitOnly
    OwnerCalls <- NoCalls
    MaxRedeliveries = 3
    CanBreak = FALSE
PROPERTY
    StoppedIsSilent
CHECK_DEADLOCK FALSE
