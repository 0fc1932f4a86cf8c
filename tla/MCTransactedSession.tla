------------------------- MODULE MCTransactedSession -------------------------
(* Two consumers with one message each, or one consumer with both. *)
EXTENDS TransactedSession

CONSTANTS m1, m2, c1, c2

MCMessages == {m1, m2}
TwoConsumers == {c1, c2}
OneEach == [m \in MCMessages |-> IF m = m1 THEN c1 ELSE c2]

Intended == {"onMessage", "receive"}
Mixed == {"mixed"}
CommitOnly == {"commit"}
RollbackOnly == {"rollback"}
Both == {"commit", "rollback"}
StartOnly == {"start"}
StartAndStop == {"start", "stop"}
NoCalls == {}
=============================================================================
