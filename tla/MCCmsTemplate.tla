--------------------------- MODULE MCCmsTemplate ---------------------------
(* The application executes in a session, and sends to the default         *)
(* destination, to a named one and to a queue it has an object of.         *)
EXTENDS CmsTemplate, TLC

CONSTANTS auto, client

MCModes == {auto, client}

\* The modes differ in nothing.
Symmetry == Permutations(MCModes)

MCQueue == {[kind |-> "queue", name |-> "a"]}
MCRequests ==
    {[kind |-> "session", target |-> [by |-> None]],
     [kind |-> "producer", target |-> [by |-> "default"]],
     [kind |-> "producer", target |-> [by |-> "name", name |-> "a"]],
     [kind |-> "producer", target |-> [by |-> "object", dest |-> CHOOSE d \in MCQueue : TRUE]]}

\* Replies to two requesters, each to the temporary queue of its own.
MCTemporary == {[kind |-> "temporary", name |-> "t1"], [kind |-> "temporary", name |-> "t2"]}
MCReplies == [kind : {"producer"}, target : [by : {"object"}, dest : MCTemporary]]
=============================================================================
