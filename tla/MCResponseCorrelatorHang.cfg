SPECIFICATION FairSpec
CONSTANTS
    r1 = r1
    r2 = r2
    Requesters <- MCRequesters
    Timed <- MCTimed
    MaxCommandId = 2
PROPERTY
    NoHangAfterFailure
\* or instead:
\* INVARIANT
\*     AwaitsZero
