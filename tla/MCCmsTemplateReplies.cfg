SPECIFICATION Spec
CONSTANTS
    auto = auto
    client = client
    AckModes = {"auto"}
    Names = {"a"}
    Objects <- MCTemporary
    Requests <- MCReplies
    MaxDepth = 1
    MaxSessions = 1
    MaxConnections = 1
    MaxAvailable = 1
INVARIANT
    OwnDestination
CHECK_DEADLOCK FALSE
