SPECIFICATION Spec
CONSTANTS
    u1 = u1
    u2 = u2
    Owner = Owner
    Users <- TwoUsers
    Preferred = 4
    Supported <- MCSupported
    BrokerVersions <- MCBrokerVersions
PROPERTY
    ErrorIsKept
\* or instead:
\* INVARIANT
\*     ClosedIsStopped
CHECK_DEADLOCK FALSE
