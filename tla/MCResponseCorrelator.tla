------------------------ MODULE MCResponseCorrelator ------------------------
(* Two requesters, one of them with a timeout, and two commands in all. *)
EXTENDS ResponseCorrelator

CONSTANTS r1, r2

MCRequesters == {r1, r2}
MCTimed == {r2}
=============================================================================
