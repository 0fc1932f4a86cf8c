SPECIFICATION FairSpec
CONSTANTS
    c1 = c1
    c2 = c2
    App = App
    Owner = Owner
    Dispatcher = Dispatcher
    MaxMessage = 2
    Consumers <- OneConsumer
    ConsumerOf <- AllForOne
    Closing <- OneConsumer
    Receiving <- OneConsumer
    CanBreak = TRUE
PROPERTIES
    GivenInOrderAndAcknowledged
    NobodyWaitsForEver
CHECK_DEADLOCK FALSE
