----------------------------- MODULE FifoChannel -----------------------------
(***************************************************************************)
(* What an asynchronous sender promises: commands come out in the order    *)
(* in which they were accepted, each at most once and with no gap: once a  *)
(* command has been lost, nothing that was accepted comes out any more.    *)
(* AsyncSendTransport.tla implements it.                                   *)
(***************************************************************************)
EXTENDS Naturals, Sequences

CONSTANTS Commands,   \* what can be sent
          Capacity    \* how many may be pending at once, 0 for no limit

VARIABLES pending,  \* accepted, not yet out
          out,      \* what has come out, oldest first
          stopped   \* a command has been lost

vars == <<pending, out, stopped>>

Init == pending = <<>> /\ out = <<>> /\ stopped = FALSE

Accept ==
    /\ Capacity # 0 => Len(pending) < Capacity
    /\ \E c \in Commands : pending' = Append(pending, c)
    /\ UNCHANGED <<out, stopped>>

Emit ==
    /\ pending # <<>>
    /\ ~stopped
    /\ out' = Append(out, Head(pending))
    /\ pending' = Tail(pending)
    /\ UNCHANGED stopped

\* The oldest pending command is lost, or all of them are.
Lose ==
    /\ pending # <<>>
    /\ pending' \in {Tail(pending), <<>>}
    /\ stopped' = TRUE
    /\ UNCHANGED out

Next == Accept \/ Emit \/ Lose

Spec == Init /\ [][Next]_vars
=============================================================================
