------------------------- MODULE AsyncSendTransport -------------------------
(***************************************************************************)
(* transport/filters/AsyncSendTransport.cpp: oneway puts a copy of the     *)
(* command in a bounded queue and a thread of the filter sends it on.      *)
(*                                                                         *)
(* Threads: the Producers, that call oneway and request; the Sender, that  *)
(* executes run(); the owner, that calls start and close.  msgQueue is a   *)
(* monitor: a synchronized block is one action, a thread in msgQueue.wait  *)
(* is in waitSet until a notifyAll takes it out (decaf Mutex keeps one     *)
(* event per waiter, so only a notify or a spurious wakeup ends a wait).   *)
(***************************************************************************)
EXTENDS Naturals, Sequences, SequencesExt

CONSTANTS Producers,
          Sender,        \* the identity of the filter's thread
          MaxBacklog,    \* AsyncSendTransport::maxBacklog, 0 for no limit
          MaxCommands    \* bound on the calls of oneway by one producer

ASSUME SenderAssumption == Sender \notin Producers
ASSUME MaxBacklogAssumption == MaxBacklog \in Nat
ASSUME MaxCommandsAssumption == MaxCommands \in Nat

VARIABLES
    closed,       \* AsyncSendTransport::closed
    asyncThread,  \* asyncThread # NULL
    msgQueue,     \* AsyncSendTransport::msgQueue
    waitSet,      \* threads in msgQueue.wait()
    sender,       \* position of the Sender in run()
    inHand,       \* the command it has taken and not yet sent: <<>> or <<c>>
    pc,           \* per producer: outside a call, or blocked in oneway
    issued,       \* per producer: calls of oneway so far
    owner,        \* position of the thread that calls start and close
    next,         \* the transport below: not started, started or closed
    broken,       \* it can no longer write
    sent,         \* history: what the Sender has handed to it
    lost          \* history: a command has been dropped

vars == <<closed, asyncThread, msgQueue, waitSet, sender, inHand, pc, issued,
          owner, next, broken, sent, lost>>

Commands == Producers \X (1..MaxCommands)

FlagsTypeOK ==
    /\ closed \in BOOLEAN
    /\ asyncThread \in BOOLEAN
    /\ owner \in {"idle", "startThread", "startNext", "stopThread",
                  "joining", "purging", "closeNext"}
    /\ next \in {"new", "started", "closed"}
    /\ broken \in BOOLEAN
    /\ lost \in BOOLEAN

ThreadsTypeOK ==
    /\ waitSet \subseteq Producers \cup {Sender}
    /\ sender \in {"dead", "looping", "locking", "waiting", "sending"}
    /\ pc \in [Producers -> {"idle", "blocked"}]
    /\ issued \in [Producers -> 0..MaxCommands]
    /\ \A p \in Producers : pc[p] = "blocked" => issued[p] < MaxCommands

QueueTypeOK ==
    /\ msgQueue \in Seq(Commands)
    /\ MaxBacklog # 0 => Len(msgQueue) <= MaxBacklog
    /\ inHand \in Seq(Commands)
    /\ Len(inHand) = IF sender = "sending" THEN 1 ELSE 0
    /\ sent \in Seq(Commands)

TypeOK == FlagsTypeOK /\ ThreadsTypeOK /\ QueueTypeOK

Init ==
    /\ closed = TRUE
    /\ asyncThread = FALSE
    /\ msgQueue = <<>>
    /\ waitSet = {}
    /\ sender = "dead"
    /\ inHand = <<>>
    /\ pc = [p \in Producers |-> "idle"]
    /\ issued = [p \in Producers |-> 0]
    /\ owner = "idle"
    /\ next = "new"
    /\ broken = FALSE
    /\ sent = <<>>
    /\ lost = FALSE

NotifyAll == waitSet' = {}

Full == MaxBacklog # 0 /\ Len(msgQueue) >= MaxBacklog

-----------------------------------------------------------------------------
(* The producers *)

\* Seeded fault: the waiting producer does not test the queue again.
FaultNoRecheck(p) ==
    /\ \/ pc[p] = "idle" /\ issued[p] < MaxCommands /\ ~Full
       \/ pc[p] = "blocked" /\ p \notin waitSet
    /\ issued' = [issued EXCEPT ![p] = @ + 1]
    /\ msgQueue' = Append(msgQueue, <<p, issued'[p]>>)
    /\ NotifyAll
    /\ pc' = [pc EXCEPT ![p] = "idle"]
    /\ UNCHANGED <<closed, asyncThread, sender, inHand, owner, next, broken,
                   sent, lost>>

\* Seeded fault: the push is not announced to the sender.
FaultSilentPush(p) ==
    /\ \/ pc[p] = "idle" /\ issued[p] < MaxCommands
       \/ pc[p] = "blocked" /\ p \notin waitSet
    /\ ~Full
    /\ issued' = [issued EXCEPT ![p] = @ + 1]
    /\ msgQueue' = Append(msgQueue, <<p, issued'[p]>>)
    /\ pc' = [pc EXCEPT ![p] = "idle"]
    /\ UNCHANGED <<closed, asyncThread, waitSet, sender, inHand, owner, next,
                   broken, sent, lost>>

\* oneway with room in the queue, at once or after a wait: the command is
\* queued, whether or not the transport is closed, and everybody is woken.
OnewayPush(p) ==
    /\ \/ pc[p] = "idle" /\ issued[p] < MaxCommands
       \/ pc[p] = "blocked" /\ p \notin waitSet
    /\ ~Full
    /\ issued' = [issued EXCEPT ![p] = @ + 1]
    /\ msgQueue' = Append(msgQueue, <<p, issued'[p]>>)
    /\ NotifyAll
    /\ pc' = [pc EXCEPT ![p] = "idle"]
    /\ UNCHANGED <<closed, asyncThread, sender, inHand, owner, next, broken,
                   sent, lost>>

\* oneway with a full queue: wait, and wait again after every wakeup that
\* finds it still full.
OnewayWait(p) ==
    /\ \/ pc[p] = "idle" /\ issued[p] < MaxCommands
       \/ pc[p] = "blocked" /\ p \notin waitSet
    /\ Full
    /\ waitSet' = waitSet \cup {p}
    /\ pc' = [pc EXCEPT ![p] = "blocked"]
    /\ UNCHANGED <<closed, asyncThread, msgQueue, sender, inHand, issued,
                   owner, next, broken, sent, lost>>

-----------------------------------------------------------------------------
(* The sender thread: run() *)

\* while( !closed )
SenderLoops ==
    /\ sender = "looping"
    /\ sender' = IF closed THEN "dead" ELSE "locking"
    /\ UNCHANGED <<closed, asyncThread, msgQueue, waitSet, inHand, pc, issued,
                   owner, next, broken, sent, lost>>

\* The sender holds the monitor when it has just entered it, or when it has
\* been notified in its wait.
SenderHasMonitor ==
    \/ sender = "locking"
    \/ sender = "waiting" /\ Sender \notin waitSet

\* An empty queue: wait for a command.
SenderWaits ==
    /\ SenderHasMonitor
    /\ ~closed
    /\ msgQueue = <<>>
    /\ sender' = "waiting"
    /\ waitSet' = waitSet \cup {Sender}
    /\ UNCHANGED <<closed, asyncThread, msgQueue, inHand, pc, issued, owner,
                   next, broken, sent, lost>>

\* A closed transport: return, whatever is in the queue.
SenderReturns ==
    /\ SenderHasMonitor
    /\ closed
    /\ sender' = "dead"
    /\ UNCHANGED <<closed, asyncThread, msgQueue, waitSet, inHand, pc, issued,
                   owner, next, broken, sent, lost>>

\* Seeded fault: the room made by the pop is not announced.
FaultSilentPop ==
    /\ SenderHasMonitor
    /\ ~closed
    /\ msgQueue # <<>>
    /\ inHand' = <<Head(msgQueue)>>
    /\ msgQueue' = Tail(msgQueue)
    /\ sender' = "sending"
    /\ UNCHANGED <<closed, asyncThread, waitSet, pc, issued, owner, next,
                   broken, sent, lost>>

\* Take the oldest command and announce the room it leaves.
SenderPops ==
    /\ SenderHasMonitor
    /\ ~closed
    /\ msgQueue # <<>>
    /\ inHand' = <<Head(msgQueue)>>
    /\ msgQueue' = Tail(msgQueue)
    /\ NotifyAll
    /\ sender' = "sending"
    /\ UNCHANGED <<closed, asyncThread, pc, issued, owner, next, broken, sent,
                   lost>>

\* next->oneway( command ) succeeds.
SenderSends ==
    /\ sender = "sending"
    /\ next = "started" /\ ~broken
    /\ sent' = sent \o inHand
    /\ inHand' = <<>>
    /\ sender' = "looping"
    /\ UNCHANGED <<closed, asyncThread, msgQueue, waitSet, pc, issued, owner,
                   next, broken, lost>>

\* Seeded fault: the exception is swallowed and the loop goes on.
FaultSenderGoesOn ==
    /\ sender = "sending"
    /\ inHand' = <<>>
    /\ lost' = TRUE
    /\ sender' = "looping"
    /\ UNCHANGED <<closed, asyncThread, msgQueue, waitSet, pc, issued, owner,
                   next, broken, sent>>

\* It throws: the exception is fired to the listener and run() ends, with the
\* command leaked and asyncThread still set.
SenderFails ==
    /\ sender = "sending"
    /\ next # "started" \/ broken
    /\ inHand' = <<>>
    /\ lost' = TRUE
    /\ sender' = "dead"
    /\ UNCHANGED <<closed, asyncThread, msgQueue, waitSet, pc, issued, owner,
                   next, broken, sent>>

-----------------------------------------------------------------------------
(* The owner: start and close *)

\* start() clears closed before anything else, even after a close.
Start ==
    /\ owner = "idle"
    /\ closed' = FALSE
    /\ owner' = "startThread"
    /\ UNCHANGED <<asyncThread, msgQueue, waitSet, sender, inHand, pc, issued,
                   next, broken, sent, lost>>

\* startThread(): a new thread, unless one was started and not stopped since.
StartThread ==
    /\ owner = "startThread"
    /\ asyncThread' = TRUE
    /\ sender' = IF asyncThread THEN sender ELSE "looping"
    /\ owner' = "startNext"
    /\ UNCHANGED <<closed, msgQueue, waitSet, inHand, pc, issued, next, broken,
                   sent, lost>>

\* next->start(): throws when next has been closed, and changes nothing then.
StartNext ==
    /\ owner = "startNext"
    /\ next' = IF next = "new" THEN "started" ELSE next
    /\ owner' = "idle"
    /\ UNCHANGED <<closed, asyncThread, msgQueue, waitSet, sender, inHand, pc,
                   issued, broken, sent, lost>>

\* close() sets closed with no lock held.
Close ==
    /\ owner = "idle"
    /\ closed' = TRUE
    /\ owner' = "stopThread"
    /\ UNCHANGED <<asyncThread, msgQueue, waitSet, sender, inHand, pc, issued,
                   next, broken, sent, lost>>

\* Seeded fault: the sender is joined without being woken.
FaultNoWakeup ==
    /\ owner = "stopThread"
    /\ owner' = IF asyncThread THEN "joining" ELSE "purging"
    /\ UNCHANGED <<closed, asyncThread, msgQueue, waitSet, sender, inHand, pc,
                   issued, next, broken, sent, lost>>

\* stopThread(): wake everybody that waits, then join.
StopThread ==
    /\ owner = "stopThread"
    /\ IF asyncThread
       THEN owner' = "joining" /\ NotifyAll
       ELSE owner' = "purging" /\ UNCHANGED waitSet
    /\ UNCHANGED <<closed, asyncThread, msgQueue, sender, inHand, pc, issued,
                   next, broken, sent, lost>>

JoinThread ==
    /\ owner = "joining"
    /\ sender = "dead"
    /\ asyncThread' = FALSE
    /\ owner' = "purging"
    /\ UNCHANGED <<closed, msgQueue, waitSet, sender, inHand, pc, issued, next,
                   broken, sent, lost>>

\* purgeMessages(): the queue is emptied and nobody is told.
PurgeMessages ==
    /\ owner = "purging"
    /\ msgQueue' = <<>>
    /\ lost' = (lost \/ msgQueue # <<>>)
    /\ owner' = "closeNext"
    /\ UNCHANGED <<closed, asyncThread, waitSet, sender, inHand, pc, issued,
                   next, broken, sent>>

CloseNext ==
    /\ owner = "closeNext"
    /\ next' = "closed"
    /\ owner' = "idle"
    /\ UNCHANGED <<closed, asyncThread, msgQueue, waitSet, sender, inHand, pc,
                   issued, broken, sent, lost>>

-----------------------------------------------------------------------------
(* The environment: external *)

ConnectionBreaks ==
    /\ ~broken
    /\ broken' = TRUE
    /\ UNCHANGED <<closed, asyncThread, msgQueue, waitSet, sender, inHand, pc,
                   issued, owner, next, sent, lost>>

\* A condition variable may wake a waiter that nobody has notified.
SpuriousWakeup ==
    /\ \E t \in waitSet : waitSet' = waitSet \ {t}
    /\ UNCHANGED <<closed, asyncThread, msgQueue, sender, inHand, pc, issued,
                   owner, next, broken, sent, lost>>

-----------------------------------------------------------------------------
SenderStep ==
    \/ SenderLoops \/ SenderWaits \/ SenderReturns \/ SenderPops
    \/ SenderSends \/ SenderFails

OwnerStep ==
    \/ Start \/ StartThread \/ StartNext
    \/ Close \/ StopThread \/ JoinThread \/ PurgeMessages \/ CloseNext

Next ==
    \/ \E p \in Producers : OnewayPush(p) \/ OnewayWait(p)
    \/ SenderStep
    \/ OwnerStep
    \/ ConnectionBreaks
    \/ SpuriousWakeup

Spec == Init /\ [][Next]_vars

\* Threads inside a call or inside run() keep running.  A producer has to
\* finish a oneway it has begun, the owner a start or a close.
Fairness ==
    /\ \A p \in Producers :
         WF_vars(pc[p] = "blocked" /\ (OnewayPush(p) \/ OnewayWait(p)))
    /\ WF_vars(SenderStep)
    /\ WF_vars(owner # "idle" /\ OwnerStep)

FairSpec == Spec /\ Fairness

-----------------------------------------------------------------------------
(* Properties *)

Pending == inHand \o msgQueue

Channel == INSTANCE FifoChannel WITH
    pending <- Pending,
    out <- sent,
    stopped <- lost,
    Capacity <- IF MaxBacklog = 0 THEN 0 ELSE MaxBacklog + 1

\* What the transport below is handed is what oneway accepted, in that order
\* and without a gap: close() and a failed write drop commands, but nothing
\* that was accepted is sent after one that was dropped.
ImplementsFifoChannel == Channel!Spec

\* start() and close() return: the sender that close() joins comes to its end
\* wherever close() finds it (the forced wakeup at 193-196).
OwnerReturns == owner # "idle" ~> owner = "idle"

\* A queued command is taken, as long as the sender lives and nobody closes:
\* no push is missed by a sender on its way into its wait.
QueuedIsTaken ==
    \A c \in Commands :
      (\E i \in 1..Len(msgQueue) : msgQueue[i] = c)
         ~> \/ \A i \in 1..Len(msgQueue) : msgQueue[i] # c
            \/ closed \/ sender = "dead"

\* A producer that waits at a full queue is woken, as long as the sender lives
\* and nobody closes.
RoomIsAnnounced ==
    \A p \in Producers :
      (p \in waitSet /\ Full) ~> (p \notin waitSet \/ closed \/ sender = "dead")

\* No wakeup between producers, sender and owner is lost.
NobodyWaitsForEver == OwnerReturns /\ QueuedIsTaken /\ RoomIsAnnounced

\* The callers are notified whenever there is room for one more command, the
\* purpose the comment at 149-150 gives for notifyAll: a blocked producer
\* does not stay blocked with room in the queue.
BlockedIsReleased ==
    \A p \in Producers :
      (pc[p] = "blocked" /\ ~Full) ~> (pc[p] = "idle" \/ Full)
=============================================================================
