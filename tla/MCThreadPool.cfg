SPECIFICATION FairSpec
CONSTANTS
    c1 = c1
    c2 = c2
    c3 = c3
    w1 = w1
    w2 = w2
    Clients <- ThreeClients
    Workers <- TwoWorkers
    maxThreads = 2
    blockSize = 1
    Word = 4
INVARIANTS
    TypeOK
    CountIsExact
    QuietShutdown
PROPERTY
    WorkIsDone
CHECK_DEADLOCK FALSE
