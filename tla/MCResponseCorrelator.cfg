SPECIFICATION FairSpec
CONSTANTS
    r1 = r1
    r2 = r2
    Requesters <- MCRequesters
    Timed <- MCTimed
    MaxCommandId = 2
INVARIANTS
    TypeOK
    FuturesAreKept
PROPERTIES
    ImplementsRequestReply
    CallsEnd
