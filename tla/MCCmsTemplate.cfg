SPECIFICATION Spec
CONSTANTS
    auto = auto
    client = client
    AckModes <- MCModes
    Names = {"a"}
    Objects <- MCQueue
    Requests <- MCRequests
    MaxDepth = 2
    MaxSessions = 2
    MaxConnections = 2
    MaxAvailable = 1
SYMMETRY
    Symmetry
INVARIANTS
    TypeOK
    ResourcesHold
CHECK_DEADLOCK FALSE
