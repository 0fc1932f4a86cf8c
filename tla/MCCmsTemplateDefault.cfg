SPECIFICATION Spec
CONSTANTS
    auto = auto
    client = client
    AckModes = {"auto"}
    Names = {"a"}
    Objects <- MCQueue
    Requests <- MCRequests
    MaxDepth = 1
    MaxSessions = 1
    MaxConnections = 1
    MaxAvailable = 1
PROPERTY
    DefaultIsKept
\* or instead:
\* INVARIANT
\*     ReturnedOnce
CHECK_DEADLOCK FALSE
