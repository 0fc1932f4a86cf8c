------------------------- MODULE MCSessionLifecycle -------------------------
(* Two sessions: one is created, closed or deleted while the connection is  *)
(* busy with the other, in either order of their addresses.  The one that   *)
(* stop() comes to last has a consumer.                                     *)
EXTENDS SessionLifecycle

TwoSessions == {1, 2}
TheSecond == {2}
=============================================================================
