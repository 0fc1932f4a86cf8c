SPECIFICATION Spec
CONSTANTS
    c1 = c1
    c2 = c2
    App = App
    Owner = Owner
    Dispatcher = Dispatcher
    MaxMessage = 3
    Consumers <- TwoConsumers
    ConsumerOf <- InTurn
    Closing <- OneConsumer
    Receiving <- OneConsumer
    CanBreak = FALSE
INVARIANTS
    TypeOK
    Accounted
    CloseIsFinal
CHECK_DEADLOCK FALSE
