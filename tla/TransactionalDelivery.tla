------------------------ MODULE TransactionalDelivery ------------------------
(***************************************************************************)
(* What a transacted session promises for each message: all that a         *)
(* transaction was given is committed together or comes back together;     *)
(* what is committed does not come back; and nothing is discarded that the *)
(* current transaction has been given.  TransactedSession.tla implements   *)
(* it.                                                                     *)
(***************************************************************************)
CONSTANT Messages

VARIABLES waiting,    \* to be given to the application, or given again
          given,      \* given to it in the current transaction
          committed,  \* given to it in a transaction that was committed
          discarded   \* expired, or given back too often

vars == <<waiting, given, committed, discarded>>

Init == waiting = {} /\ given = {} /\ committed = {} /\ discarded = {}

Send ==
    /\ \E m \in Messages \ (waiting \cup given \cup committed \cup discarded) :
         waiting' = waiting \cup {m}
    /\ UNCHANGED <<given, committed, discarded>>

Give ==
    /\ \E m \in waiting :
         /\ waiting' = waiting \ {m}
         /\ given' = given \cup {m}
    /\ UNCHANGED <<committed, discarded>>

Commit ==
    /\ committed' = committed \cup given
    /\ given' = {}
    /\ UNCHANGED <<waiting, discarded>>

Rollback ==
    /\ waiting' = waiting \cup given
    /\ given' = {}
    /\ UNCHANGED <<committed, discarded>>

Discard ==
    /\ \E m \in waiting :
         /\ waiting' = waiting \ {m}
         /\ discarded' = discarded \cup {m}
    /\ UNCHANGED <<given, committed>>

Next == Send \/ Give \/ Commit \/ Rollback \/ Discard

Spec == Init /\ [][Next]_vars
=============================================================================
