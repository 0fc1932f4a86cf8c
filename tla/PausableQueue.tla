---------------------------- MODULE PausableQueue ----------------------------
(***************************************************************************)
(* What a session expects of its executor: messages are handed out one at  *)
(* a time and in the order of the queue; a message may be put in or taken  *)
(* out without disturbing the order of the others; and once a pause has    *)
(* been granted nothing is handed out before the next resume.              *)
(* SessionExecutor.tla implements it.                                      *)
(***************************************************************************)
EXTENDS Naturals, Sequences, SequencesExt

CONSTANT Messages

VARIABLES pending,  \* messages not yet handed out
          current,  \* the one that is being handed out: <<>> or <<m>>
          paused    \* a pause has been granted and not been lifted

vars == <<pending, current, paused>>

Init == pending = <<>> /\ current = <<>> /\ paused = TRUE

Put ==
    /\ \E m \in Messages \ ToSet(pending), i \in 1..(Len(pending) + 1) :
         pending' = InsertAt(pending, i, m)
    /\ UNCHANGED <<current, paused>>

\* Messages are taken out; the others, at the positions in f, keep their
\* order.
TakeOut ==
    /\ \E n \in 0..Len(pending) : \E f \in [1..n -> DOMAIN pending] :
         /\ \A i, j \in 1..n : i < j => f[i] < f[j]
         /\ pending' = [i \in 1..n |-> pending[f[i]]]
    /\ UNCHANGED <<current, paused>>

HandOut ==
    /\ ~paused
    /\ current = <<>>
    /\ pending # <<>>
    /\ current' = <<Head(pending)>>
    /\ pending' = Tail(pending)
    /\ UNCHANGED paused

TakeBack ==
    /\ current # <<>>
    /\ current' = <<>>
    /\ UNCHANGED <<pending, paused>>

Pause ==
    /\ current = <<>>
    /\ paused' = TRUE
    /\ UNCHANGED <<pending, current>>

Resume ==
    /\ paused' = FALSE
    /\ UNCHANGED <<pending, current>>

Next == Put \/ TakeOut \/ HandOut \/ TakeBack \/ Pause \/ Resume

Spec == Init /\ [][Next]_vars
=============================================================================
