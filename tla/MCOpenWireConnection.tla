------------------------ MODULE MCOpenWireConnection ------------------------
(* Two users; brokers that are older, as new as we are, and far newer than   *)
(* anything we have marshallers for, with a preferred version set too high.  *)
EXTENDS OpenWireConnection

CONSTANTS u1, u2

TwoUsers == {u1, u2}
MCSupported == {1, 2, 3}
MCBrokerVersions == {1, 3, 5}
=============================================================================
