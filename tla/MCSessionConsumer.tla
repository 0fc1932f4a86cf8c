-------------------------- MODULE MCSessionConsumer --------------------------
(* Two consumers, of which the first is closed and received from and gets   *)
(* the first and the third message; or one consumer that gets them all.     *)
EXTENDS SessionConsumer

CONSTANTS c1, c2

TwoConsumers == {c1, c2}
OneConsumer == {c1}
InTurn == [m \in Messages |-> IF m = 2 THEN c2 ELSE c1]
AllForOne == [m \in Messages |-> c1]
=============================================================================
