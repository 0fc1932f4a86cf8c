SPECIFICATION FairSpec
CONSTANTS
    p1 = p1
    p2 = p2
    Producers <- MCProducers
    Sender = Sender
    MaxBacklog = 1
    MaxCommands = 2
INVARIANT
    TypeOK
PROPERTIES
    ImplementsFifoChannel
    NobodyWaitsForEver
