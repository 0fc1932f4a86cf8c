SPECIFICATION Spec
CONSTANTS
    Sessions <- TwoSessions
    Consuming <- TheSecond
    CanBreak = TRUE
INVARIANTS
    TypeOK
    ConnectionReaches
    NothingDeleted
CHECK_DEADLOCK FALSE
