---------------------------- MODULE RequestReply ----------------------------
(***************************************************************************)
(* What a request/response transport promises to the threads that call it, *)
(* without saying how: a call carries a command id nobody else uses; it    *)
(* ends at most once, either with the answer the broker gave to that very  *)
(* command, or with a failure, and an untimed call fails only once the     *)
(* transport is not up, or when its wait was disturbed by a wakeup that    *)
(* nobody meant for it.                                                    *)
(* ResponseCorrelator.tla implements it.                                   *)
(***************************************************************************)
EXTENDS Naturals

CONSTANTS Requesters,    \* the threads that call request()
          Timed,         \* those that call request(command, timeout)
          MaxCommandId   \* bound on the command ids used in one behaviour

VARIABLES calling,   \* calling[r]: the command id of r's call, 0 when none
          used,      \* the command ids handed out so far
          answered,  \* the commands the broker has answered
          phase,     \* "new" before start, then "up", in the end "down"
          disturbed, \* the threads whose wait has been disturbed
          outcome    \* outcome[r]: what r's last call returned

vars == <<calling, used, answered, phase, disturbed, outcome>>

CommandIds == 1..MaxCommandId

Init ==
    /\ calling = [r \in Requesters |-> 0]
    /\ used = {}
    /\ answered = {}
    /\ phase = "new"
    /\ disturbed = {}
    /\ outcome = [r \in Requesters |-> 0]

\* A call starts with an id that no command has carried before.
Call(r) ==
    /\ calling[r] = 0
    /\ \E id \in CommandIds \ used :
         /\ calling' = [calling EXCEPT ![r] = id]
         /\ used' = used \cup {id}
    /\ UNCHANGED <<answered, phase, disturbed, outcome>>

\* An id is also consumed by a command that expects no answer.
Consume ==
    /\ \E id \in CommandIds \ used : used' = used \cup {id}
    /\ UNCHANGED <<calling, answered, phase, disturbed, outcome>>

\* The broker answers a command at most once, and only one it was sent.
Answer ==
    /\ \E id \in used \ answered : answered' = answered \cup {id}
    /\ UNCHANGED <<calling, used, phase, disturbed, outcome>>

\* A call returns the broker's answer to its own command.
Return(r) ==
    /\ calling[r] \in answered
    /\ outcome' = [outcome EXCEPT ![r] = calling[r]]
    /\ calling' = [calling EXCEPT ![r] = 0]
    /\ disturbed' = disturbed \ {r}
    /\ UNCHANGED <<used, answered, phase>>

\* The wait of an untimed call is disturbed while it has no result.
Disturb(r) ==
    /\ calling[r] # 0
    /\ r \notin Timed
    /\ disturbed' = disturbed \cup {r}
    /\ UNCHANGED <<calling, used, answered, phase, outcome>>

\* A call fails: its time is up, the transport is not up, or its wait was
\* disturbed.
Fail(r) ==
    /\ calling[r] # 0
    /\ r \in Timed \cup disturbed \/ phase # "up"
    /\ outcome' = [outcome EXCEPT ![r] = 0]
    /\ calling' = [calling EXCEPT ![r] = 0]
    /\ disturbed' = disturbed \ {r}
    /\ UNCHANGED <<used, answered, phase>>

\* The transport is started once; once down it stays down.
ChangePhase ==
    /\ \/ phase = "new" /\ phase' \in {"up", "down"}
       \/ phase = "up" /\ phase' = "down"
    /\ UNCHANGED <<calling, used, answered, disturbed, outcome>>

Next ==
    \/ \E r \in Requesters : Call(r) \/ Disturb(r) \/ Return(r) \/ Fail(r)
    \/ Consume
    \/ Answer
    \/ ChangePhase

Spec == Init /\ [][Next]_vars
=============================================================================
