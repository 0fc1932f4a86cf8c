-------------------------- MODULE MCProducerWindow --------------------------
(* One producer that sets properties, as large as a content, and one that   *)
(* sets none; a window as large as two contents.                            *)
EXTENDS ProducerWindow

CONSTANTS p1, p2, m1, m2

TwoProducers == {p1, p2}
OneProducer == {p1}
TwoMessages == {m1, m2}
OneMessage == {m1}
OneSize == {1}
MCProps == [p \in {p1, p2} |-> IF p = p1 THEN {0, 1} ELSE {0}]
FirstProps == [p \in {p1} |-> {0, 1}]
=============================================================================
