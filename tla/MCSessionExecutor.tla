-------------------------- MODULE MCSessionExecutor --------------------------
(* Four messages for two consumers. *)
EXTENDS SessionExecutor

CONSTANTS m1, m2, m3, m4, c1, c2, app

MCMessages == {m1, m2, m3, m4}
MCCallers == {app}
MCConsumers == {c1, c2}
MCConsumerOf == [m \in MCMessages |-> IF m = m3 THEN c2 ELSE c1]
=============================================================================
