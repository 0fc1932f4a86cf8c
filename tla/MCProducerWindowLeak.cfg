SPECIFICATION Spec
CONSTANTS
    p1 = p1
    p2 = p2
    m1 = m1
    m2 = m2
    Producers <- OneProducer
    Messages <- TwoMessages
    Bodies <- OneSize
    Props <- FirstProps
    Limit = 2
    MaxInFlight = 2
INVARIANT
    BlockedWithCause
\* or instead:
\* INVARIANT
\*     BlocksForSpace
CHECK_DEADLOCK FALSE
