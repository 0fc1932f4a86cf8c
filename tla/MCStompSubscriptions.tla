------------------------ MODULE MCStompSubscriptions ------------------------
(* Two consumers that share a destination; a third that has its own.        *)
EXTENDS StompSubscriptions

CONSTANTS c1, c2, c3, d1, d2

ThreeConsumers == {c1, c2, c3}
TwoDestinations == {d1, d2}
SharedAndOwn == [c \in {c1, c2, c3} |-> IF c = c3 THEN d2 ELSE d1]
=============================================================================
