--------------------------- MODULE SessionExecutor ---------------------------
(***************************************************************************)
(* core/ActiveMQSessionExecutor.cpp: the queue of a session and the thread *)
(* that takes whole batches from it and hands each message to its          *)
(* consumer.                                                               *)
(*                                                                         *)
(* Two locks.  mutex guards messageQueue, started and closed, and is what  *)
(* the thread waits on: a synchronized( &mutex ) block is one action.      *)
(* dispatchMutex is held by the thread from the moment it looks at started *)
(* until its batch is done (thread = "dispatching") and by stop().  Both   *)
(* are reentrant, so a listener can call stop() from inside a dispatch.    *)
(*                                                                         *)
(* Execute, ExecuteFirst, Start, Stop and Purge are used again by the      *)
(* modules of the session and of the consumer.                             *)
(***************************************************************************)
EXTENDS Naturals, Sequences, SequencesExt, FiniteSets

CONSTANTS Callers,      \* threads of the application and of the transport
          Dispatcher,   \* the executor's own thread
          Messages,
          Consumers,
          ConsumerOf    \* the consumer a message is for

ASSUME DispatcherAssumption == Dispatcher \notin Callers
ASSUME ConsumerOfAssumption == ConsumerOf \in [Messages -> Consumers]

VARIABLES
    started,       \* ActiveMQSessionExecutor::started
    closed,        \* ActiveMQSessionExecutor::closed
    messageQueue,  \* ActiveMQSessionExecutor::messageQueue
    thread,        \* position of the thread in run() and dispatchAll()
    dataList,      \* dispatchAll's local: the rest of the batch
    current,       \* the message inside dispatch(): <<>> or <<m>>
    closer,        \* progress of the destructor
    quiet          \* history: a caller's stop() has returned, no start() since

vars == <<started, closed, messageQueue, thread, dataList, current, closer,
          quiet>>

FlagsTypeOK == started \in BOOLEAN /\ closed \in BOOLEAN /\ quiet \in BOOLEAN

ThreadsTypeOK ==
    /\ thread \in {"none", "looping", "dispatching", "deciding", "waiting",
                   "dead"}
    /\ closer \in {"open", "joining", "clearing", "destroyed"}

QueueTypeOK ==
    /\ messageQueue \in Seq(Messages)
    /\ dataList \in Seq(Messages)
    /\ current \in {<<>>} \cup {<<m>> : m \in Messages}
    /\ thread # "dispatching" => dataList = <<>> /\ current = <<>>

TypeOK == FlagsTypeOK /\ ThreadsTypeOK /\ QueueTypeOK

Init ==
    /\ started = FALSE
    /\ closed = FALSE
    /\ messageQueue = <<>>
    /\ thread = "none"
    /\ dataList = <<>>
    /\ current = <<>>
    /\ closer = "open"
    /\ quiet = TRUE

\* mutex.notifyAll(): the thread is the only one that waits.
Notified == IF thread = "waiting" THEN "looping" ELSE thread

\* Every message the executor owns, in the order in which it hands them out.
Pending == dataList \o messageQueue

Owned == ToSet(current) \cup ToSet(Pending)

-----------------------------------------------------------------------------
(* What other threads call *)

\* Seeded fault: the push is not announced to the thread.
FaultSilentExecute(m) ==
    /\ closer # "destroyed"
    /\ messageQueue' = Append(messageQueue, m)
    /\ UNCHANGED <<started, closed, thread, dataList, current, closer, quiet>>

Execute(m) ==
    /\ closer # "destroyed"
    /\ messageQueue' = Append(messageQueue, m)
    /\ thread' = Notified
    /\ UNCHANGED <<started, closed, dataList, current, closer, quiet>>

ExecuteFirst(m) ==
    /\ closer # "destroyed"
    /\ messageQueue' = <<m>> \o messageQueue
    /\ thread' = Notified
    /\ UNCHANGED <<started, closed, dataList, current, closer, quiet>>

\* The elements of q at the positions in I, in their order.
Selected(q, I) ==
    {[i \in 1..Cardinality(I) |-> q[f[i]]] :
       f \in {f \in [1..Cardinality(I) -> I] :
               \A i, j \in 1..Cardinality(I) : i < j => f[i] < f[j]}}

\* purgeConsumerMessages looks at the queue only, never at a batch in flight.
Purge(c) ==
    /\ closer # "destroyed"
    /\ messageQueue' \in
         Selected(messageQueue,
                  {i \in DOMAIN messageQueue : ConsumerOf[messageQueue[i]] # c})
    /\ UNCHANGED <<started, closed, thread, dataList, current, closer, quiet>>

\* Seeded fault: start() relies on the thread to look at started again.
FaultSilentStart ==
    /\ closer # "destroyed"
    /\ IF closed \/ started
       THEN UNCHANGED <<started, thread, quiet>>
       ELSE /\ started' = TRUE
            /\ thread' = IF thread = "none" THEN "looping" ELSE thread
            /\ quiet' = FALSE
    /\ UNCHANGED <<closed, messageQueue, dataList, current, closer>>

\* start(): the thread is created at the first call.
Start ==
    /\ closer # "destroyed"
    /\ IF closed \/ started
       THEN UNCHANGED <<started, thread, quiet>>
       ELSE /\ started' = TRUE
            /\ thread' = IF thread = "none" THEN "looping" ELSE Notified
            /\ quiet' = FALSE
    /\ UNCHANGED <<closed, messageQueue, dataList, current, closer>>

\* Seeded fault: stop() does without dispatchMutex.
FaultStopUnlocked(t) ==
    /\ closer # "destroyed"
    /\ started' = (started /\ closed)
    /\ quiet' = (t # Dispatcher \/ quiet)
    /\ UNCHANGED <<closed, messageQueue, thread, dataList, current, closer>>

\* stop() waits for dispatchMutex: until the batch is done, unless it is the
\* thread itself that calls, from a listener.
Stop(t) ==
    /\ closer # "destroyed"
    /\ thread = "dispatching" => t = Dispatcher
    /\ started' = (started /\ closed)
    /\ quiet' = (t # Dispatcher \/ quiet)
    /\ UNCHANGED <<closed, messageQueue, thread, dataList, current, closer>>

-----------------------------------------------------------------------------
(* The destructor: close() joins the thread, then clear() frees the queue *)

\* Seeded fault: the thread is joined without being woken.
FaultSilentClose ==
    /\ closer = "open"
    /\ closed' = TRUE
    /\ closer' = "joining"
    /\ UNCHANGED <<started, messageQueue, thread, dataList, current, quiet>>

Close ==
    /\ closer = "open"
    /\ closed' = TRUE
    /\ thread' = Notified
    /\ closer' = "joining"
    /\ UNCHANGED <<started, messageQueue, dataList, current, quiet>>

Join ==
    /\ closer = "joining"
    /\ thread \in {"none", "dead"}
    /\ closer' = "clearing"
    /\ UNCHANGED <<started, closed, messageQueue, thread, dataList, current,
                   quiet>>

Clear ==
    /\ closer = "clearing"
    /\ messageQueue' = <<>>
    /\ closer' = "destroyed"
    /\ UNCHANGED <<started, closed, thread, dataList, current, quiet>>

-----------------------------------------------------------------------------
(* The thread: run() *)

\* dispatchAll() begins: nothing is taken when stopped or closed, else the
\* whole queue.
TakeBatch ==
    /\ thread = "looping"
    /\ IF ~started \/ closed
       THEN thread' = "deciding" /\ UNCHANGED <<dataList, messageQueue>>
       ELSE /\ thread' = "dispatching"
            /\ dataList' = messageQueue
            /\ messageQueue' = <<>>
    /\ UNCHANGED <<started, closed, current, closer, quiet>>

\* Seeded fault: what comes in meanwhile joins the batch.
FaultRefill ==
    /\ thread = "dispatching"
    /\ current = <<>>
    /\ Pending # <<>>
    /\ current' = <<Head(Pending)>>
    /\ dataList' = Tail(Pending)
    /\ messageQueue' = <<>>
    /\ UNCHANGED <<started, closed, thread, closer, quiet>>

\* dispatch( data ) is entered with the next message of the batch, whatever
\* has happened to started and closed meanwhile.
Dispatch ==
    /\ thread = "dispatching"
    /\ current = <<>>
    /\ dataList # <<>>
    /\ current' = <<Head(dataList)>>
    /\ dataList' = Tail(dataList)
    /\ UNCHANGED <<started, closed, messageQueue, thread, closer, quiet>>

\* It returns.
DispatchReturns ==
    /\ current # <<>>
    /\ current' = <<>>
    /\ UNCHANGED <<started, closed, messageQueue, thread, dataList, closer,
                   quiet>>

\* Seeded fault: a stop() by the listener ends the batch.
FaultLeaveBatch ==
    /\ thread = "dispatching"
    /\ current = <<>>
    /\ dataList = <<>> \/ ~started
    /\ thread' = "deciding"
    /\ UNCHANGED <<started, closed, messageQueue, dataList, current, closer,
                   quiet>>

\* The batch is done and dispatchMutex released.
EndBatch ==
    /\ thread = "dispatching"
    /\ current = <<>>
    /\ dataList = <<>>
    /\ thread' = "deciding"
    /\ UNCHANGED <<started, closed, messageQueue, dataList, current, closer,
                   quiet>>

\* run() looks at closed, then whether there is anything to do: it returns,
\* waits, or goes round.
Decide ==
    /\ thread = "deciding"
    /\ thread' = IF closed THEN "dead"
                 ELSE IF messageQueue = <<>> \/ ~started THEN "waiting"
                 ELSE "looping"
    /\ UNCHANGED <<started, closed, messageQueue, dataList, current, closer,
                   quiet>>

\* A condition variable may wake a waiter that nobody has notified: external.
SpuriousWakeup ==
    /\ thread = "waiting"
    /\ thread' = "looping"
    /\ UNCHANGED <<started, closed, messageQueue, dataList, current, closer,
                   quiet>>

-----------------------------------------------------------------------------
\* A message may be pushed while it is being dispatched: a rollback from
\* inside its listener puts its clone into the queue.
CallerStep ==
    \/ \E m \in Messages \ ToSet(Pending) : Execute(m) \/ ExecuteFirst(m)
    \/ \E c \in Consumers : Purge(c)
    \/ Start
    \/ \E t \in Callers : Stop(t)

\* What a listener may call from inside a dispatch is the same, its stop()
\* apart.
ListenerStops == current # <<>> /\ Stop(Dispatcher)

ThreadStep == TakeBatch \/ Dispatch \/ DispatchReturns \/ EndBatch \/ Decide

CloserStep == Join \/ Clear

Next ==
    \/ CallerStep
    \/ ListenerStops
    \/ Close \/ CloserStep
    \/ ThreadStep
    \/ SpuriousWakeup

Spec == Init /\ [][Next]_vars

\* The thread is scheduled, a listener returns, and a destructor that has
\* begun goes on.  Nothing obliges a caller to call.
FairSpec == Spec /\ WF_vars(ThreadStep) /\ WF_vars(CloserStep)

-----------------------------------------------------------------------------
(* Properties *)

\* Once a caller's stop() has returned, by whichever path, nothing is being
\* dispatched until somebody calls start(): what the comments at 141-144 and
\* 242-247 want dispatchMutex for.
StopIsQuiet == quiet => thread # "dispatching"

\* The thread never sleeps on work: not on a message it may dispatch, nor on
\* a close that waits for it.
NoMissedWakeup ==
    thread = "waiting" => ~closed /\ (messageQueue = <<>> \/ ~started)

\* Messages are handed out one at a time in the order of the queue, never
\* after a granted stop(); only a listener that stops its own session from
\* inside a batch is not granted a pause.
Queue == INSTANCE PausableQueue WITH pending <- Pending, paused <- quiet

ImplementsPausableQueue == Queue!Spec

\* A batch comes to its end however fast messages come in, even from its own
\* listeners: a stop() that waits for dispatchMutex gets a chance to take it.
BatchEnds == thread = "dispatching" ~> thread # "dispatching"

\* What is queued in a started session is taken by the thread.
QueuedIsTaken ==
    \A m \in Messages :
      (m \in ToSet(messageQueue))
        ~> (m \notin ToSet(messageQueue) \/ ~started \/ closed)

\* The destructor comes back from joining the thread, wherever it is.
CloseReturns == closer = "joining" ~> closer = "destroyed"

\* Nobody waits for ever: not a caller of stop(), not a message, not the
\* destructor.
NobodyWaitsForEver == BatchEnds /\ QueuedIsTaken /\ CloseReturns
=============================================================================
