------------------------ MODULE MCAsyncSendTransport ------------------------
(* Two producers that send two commands each through a queue of one. *)
EXTENDS AsyncSendTransport

CONSTANTS p1, p2

MCProducers == {p1, p2}
=============================================================================
