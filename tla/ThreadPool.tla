----------------------------- MODULE ThreadPool -----------------------------
(***************************************************************************)
(* decaf's ThreadPool and its PooledThreads: clients queue tasks, workers  *)
(* take and run them, the pool grows by a block when it counts no free     *)
(* thread, and the destructor stops and joins all of them.                 *)
(*                                                                         *)
(* Two locks: the queue's, held by a client through queueTask, and         *)
(* poolLock, held where freeThreads and the pool change.  freeThreads is   *)
(* tested without poolLock by clients, the queue without its lock by       *)
(* onTaskStarted.  A task is named for the client that queues it.          *)
(***************************************************************************)
EXTENDS Integers, Sequences, FiniteSets, SequencesExt

CONSTANTS Clients, Workers,
          maxThreads, blockSize,
          Word           \* 2^w, w the width of size_t

ASSUME PoolAssumption ==
    /\ maxThreads \in Nat \ {0} /\ blockSize \in Nat \ {0}
    /\ IsFiniteSet(Workers) /\ Cardinality(Workers) = maxThreads
    /\ Word \in Nat /\ Word > maxThreads + 1

VARIABLES
    queue,        \* tasks nobody has taken
    freeThreads,
    client,       \* per client: position in queueTask
    at,           \* per PooledThread: position in run, "none" if not in the pool
    task,         \* per PooledThread: its task, or none
    stopped,      \* PooledThreads told to stop (done)
    dtor,         \* position of ~ThreadPool
    shutdown,
    thrown,       \* history: tasks that ended with an exception, modulo Word
    quiet,        \* history: ~ThreadPool has found no task queued or running
    undefined     \* history: the pool has changed under ~ThreadPool's iterator

poolVars == <<queue, freeThreads, shutdown>>
threadVars == <<client, at, task, stopped, dtor>>
historyVars == <<thrown, quiet, undefined>>
vars == <<poolVars, threadVars, historyVars>>

None == "none"
ASSUME NoneAssumption == None \notin Clients

pool == {w \in Workers : at[w] # "none"}
Busy(w) == \/ at[w] \in {"starting", "running"}
           \/ at[w] = "failing" /\ task[w] # None

PoolTypeOK ==
    /\ queue \in Seq(Clients) /\ IsInjective(queue)
    /\ freeThreads \in 0 .. Word - 1 /\ thrown \in 0 .. Word - 1
    /\ shutdown \in BOOLEAN /\ quiet \in BOOLEAN /\ undefined \in BOOLEAN

PositionsTypeOK ==
    /\ client \in [Clients -> {"idle", "allocating", "pushing"}]
    /\ at \in [Workers -> {"none", "dequeuing", "waiting", "taken", "starting",
                           "running", "failing", "dead"}]
    /\ stopped \subseteq pool
    /\ dtor \in {"none", "stopping", "notifying", "joining", "ended"}

TasksTypeOK ==
    /\ task \in [Workers -> Clients \cup {None}]
    /\ \A w \in Workers : at[w] \in {"starting", "running"} => task[w] # None
    /\ \A w, v \in Workers : task[w] = task[v] /\ task[w] # None => w = v

TypeOK == PoolTypeOK /\ PositionsTypeOK /\ TasksTypeOK

Init ==
    /\ queue = <<>>
    /\ freeThreads = 0
    /\ client = [c \in Clients |-> "idle"]
    /\ at = [w \in Workers |-> "none"]
    /\ task = [w \in Workers |-> None]
    /\ stopped = {}
    /\ dtor = "none"
    /\ shutdown = FALSE
    /\ thrown = 0
    /\ quiet = FALSE
    /\ undefined = FALSE

QueueLocked == \E c \in Clients : client[c] # "idle"
PoolLocked == \E w \in Workers : at[w] = "starting"

\* AllocateThreads on a pool whose threads are at positions old, of which
\* freeThreads counts free: the new threads are counted, then started.
Grown(old, count) ==
    LET unused == {w \in Workers : old[w] = "none"}
        number == IF count < Cardinality(unused) THEN count ELSE Cardinality(unused)
    IN  CHOOSE S \in SUBSET unused : Cardinality(S) = number

AllocateThreads(old, free, count) ==
    LET new == Grown(old, count) IN
    /\ at' = [w \in Workers |-> IF w \in new THEN "dequeuing" ELSE old[w]]
    /\ freeThreads' = (free + Cardinality(new)) % Word
    /\ undefined' = (undefined \/ (dtor # "none" /\ new # {}))

-----------------------------------------------------------------------------
(* Clients *)

\* queueTask takes the queue's lock and tests freeThreads.
QueueTask(c) ==
    /\ dtor = "none" /\ ~QueueLocked
    /\ c \notin Range(queue) /\ \A w \in Workers : task[w] # c
    /\ client' = [client EXCEPT ![c] = IF freeThreads = 0 THEN "allocating"
                                                          ELSE "pushing"]
    /\ UNCHANGED <<poolVars, at, task, stopped, dtor, historyVars>>

Allocate(c) ==
    /\ client[c] = "allocating" /\ ~PoolLocked
    /\ AllocateThreads(at, freeThreads, blockSize)
    /\ client' = [client EXCEPT ![c] = "pushing"]
    /\ UNCHANGED <<queue, shutdown, task, stopped, dtor, thrown, quiet>>

\* push, notify and unlock.  Any of the waiters may be the first of eventQ.
Push(c) ==
    /\ client[c] = "pushing"
    /\ queue' = Append(queue, c)
    /\ IF \E w \in Workers : at[w] = "waiting"
         THEN \E w \in Workers : /\ at[w] = "waiting"
                                 /\ at' = [at EXCEPT ![w] = "dequeuing"]
         ELSE UNCHANGED at
    /\ client' = [client EXCEPT ![c] = "idle"]
    /\ UNCHANGED <<freeThreads, shutdown, task, stopped, dtor, historyVars>>

reserve(size) ==
    /\ dtor = "none" /\ ~PoolLocked
    /\ size > Cardinality(pool) /\ Cardinality(pool) # maxThreads
    /\ AllocateThreads(at, freeThreads, size - Cardinality(pool))
    /\ UNCHANGED <<queue, shutdown, client, task, stopped, dtor, thrown, quiet>>

-----------------------------------------------------------------------------
(* PooledThread::run *)

Moves(w, position) == at' = [at EXCEPT ![w] = position]

\* Seeded fault: shutdown is tested once the queue is empty, not in the loop.
FaultWaits(w) ==
    /\ at[w] = "dequeuing" /\ ~QueueLocked /\ queue = <<>>
    /\ Moves(w, "waiting")
    /\ UNCHANGED <<poolVars, client, task, stopped, dtor, historyVars>>

\* deQueueTask, under the queue's lock: it waits, ...
Waits(w) ==
    /\ at[w] = "dequeuing" /\ ~QueueLocked
    /\ queue = <<>> /\ ~shutdown
    /\ Moves(w, "waiting")
    /\ UNCHANGED <<poolVars, client, task, stopped, dtor, historyVars>>

\* Seeded fault: the task is read from the queue and left in it.
FaultPeeks(w) ==
    /\ at[w] = "dequeuing" /\ ~QueueLocked
    /\ \/ shutdown /\ UNCHANGED task
       \/ ~shutdown /\ queue # <<>> /\ task' = [task EXCEPT ![w] = Head(queue)]
    /\ Moves(w, "taken")
    /\ UNCHANGED <<poolVars, client, stopped, dtor, historyVars>>

\* ... or takes the head of the queue, or at shutdown the null task.
Takes(w) ==
    /\ at[w] = "dequeuing" /\ ~QueueLocked
    /\ \/ /\ shutdown
          /\ UNCHANGED <<queue, task>>
       \/ /\ ~shutdown /\ queue # <<>>
          /\ queue' = Tail(queue)
          /\ task' = [task EXCEPT ![w] = Head(queue)]
    /\ Moves(w, "taken")
    /\ UNCHANGED <<freeThreads, shutdown, client, stopped, dtor, historyVars>>

\* done is set: the loop ends, and what was taken is dropped.
Quits(w) ==
    /\ at[w] = "taken" /\ w \in stopped
    /\ Moves(w, "dead")
    /\ task' = [task EXCEPT ![w] = None]
    /\ UNCHANGED <<poolVars, client, stopped, dtor, historyVars>>

NullTask(w) ==
    /\ at[w] = "taken" /\ w \notin stopped /\ task[w] = None
    /\ Moves(w, "failing")
    /\ UNCHANGED <<poolVars, client, task, stopped, dtor, historyVars>>

\* onTaskStarted takes poolLock and counts, ...
Starts(w) ==
    /\ at[w] = "taken" /\ w \notin stopped /\ task[w] # None /\ ~PoolLocked
    /\ freeThreads' = (freeThreads - 1) % Word
    /\ Moves(w, "starting")
    /\ UNCHANGED <<queue, shutdown, client, task, stopped, dtor, historyVars>>

\* ... and looks at the queue, without its lock.
Started(w) ==
    /\ at[w] = "starting"
    /\ AllocateThreads([at EXCEPT ![w] = "running"], freeThreads,
                       IF freeThreads = 0 /\ queue # <<>> THEN blockSize ELSE 0)
    /\ UNCHANGED <<queue, shutdown, client, task, stopped, dtor, thrown, quiet>>

\* Seeded fault: a task that ends does not free its thread.
FaultCompleted(w) ==
    /\ at[w] = "running" /\ ~PoolLocked
    /\ Moves(w, IF w \in stopped THEN "dead" ELSE "dequeuing")
    /\ task' = [task EXCEPT ![w] = None]
    /\ UNCHANGED <<poolVars, client, stopped, dtor, historyVars>>

\* The task ends: its listener is told, then onTaskCompleted.
Completed(w) ==
    /\ at[w] = "running" /\ ~PoolLocked
    /\ freeThreads' = (freeThreads + 1) % Word
    /\ Moves(w, IF w \in stopped THEN "dead" ELSE "dequeuing")
    /\ task' = [task EXCEPT ![w] = None]
    /\ UNCHANGED <<queue, shutdown, client, stopped, dtor, historyVars>>

TaskThrows(w) ==
    /\ at[w] = "running"
    /\ Moves(w, "failing")
    /\ UNCHANGED <<poolVars, client, task, stopped, dtor, historyVars>>

\* Seeded fault: the thread that ends is not replaced.
FaultNotReplaced(w) ==
    /\ at[w] = "failing" /\ ~PoolLocked
    /\ AllocateThreads([at EXCEPT ![w] = "none"], (freeThreads - 1) % Word, 0)
    /\ task' = [task EXCEPT ![w] = None]
    /\ stopped' = stopped \ {w}
    /\ thrown' = IF task[w] # None THEN (thrown + 1) % Word ELSE thrown
    /\ UNCHANGED <<queue, shutdown, client, dtor, quiet>>

\* onTaskException: the thread, already counted out when it had a task, is
\* counted out, erased and deleted; another takes its place.
Failed(w) ==
    /\ at[w] = "failing" /\ ~PoolLocked
    /\ AllocateThreads([at EXCEPT ![w] = "none"], (freeThreads - 1) % Word, 1)
    /\ task' = [task EXCEPT ![w] = None]
    /\ stopped' = stopped \ {w}
    /\ thrown' = IF task[w] # None THEN (thrown + 1) % Word ELSE thrown
    /\ UNCHANGED <<queue, shutdown, client, dtor, quiet>>

-----------------------------------------------------------------------------
(* ~ThreadPool *)

\* Seeded fault: the threads are not told to stop.
FaultStopsNone ==
    /\ dtor = "none" /\ ~QueueLocked
    /\ dtor' = "stopping"
    /\ quiet' = (queue = <<>> /\ \A w \in Workers : task[w] = None)
    /\ UNCHANGED <<poolVars, client, at, task, stopped, thrown, undefined>>

StopAll ==
    /\ dtor = "none" /\ ~QueueLocked
    /\ dtor' = "stopping"
    /\ stopped' = pool
    /\ quiet' = (queue = <<>> /\ \A w \in Workers : task[w] = None)
    /\ UNCHANGED <<poolVars, client, at, task, thrown, undefined>>

\* shutdown is set without the lock.
ShutDown ==
    /\ dtor = "stopping"
    /\ dtor' = "notifying"
    /\ shutdown' = TRUE
    /\ UNCHANGED <<queue, freeThreads, client, at, task, stopped, historyVars>>

NotifyAll ==
    /\ dtor = "notifying"
    /\ dtor' = "joining"
    /\ at' = [w \in Workers |-> IF at[w] = "waiting" THEN "dequeuing" ELSE at[w]]
    /\ UNCHANGED <<poolVars, client, task, stopped, historyVars>>

JoinAll ==
    /\ dtor = "joining"
    /\ \A w \in pool : at[w] = "dead"
    /\ dtor' = "ended"
    /\ UNCHANGED <<poolVars, client, at, task, stopped, historyVars>>

-----------------------------------------------------------------------------
Calling(c) == Allocate(c) \/ Push(c)
Running(w) ==
    \/ Waits(w) \/ Takes(w) \/ Quits(w) \/ NullTask(w)
    \/ Starts(w) \/ Started(w) \/ Completed(w) \/ TaskThrows(w) \/ Failed(w)
Destroying == ShutDown \/ NotifyAll \/ JoinAll

Next ==
    \/ \E c \in Clients : QueueTask(c) \/ Calling(c)
    \/ \E size \in 1 .. maxThreads : reserve(size)
    \/ \E w \in Workers : Running(w)
    \/ StopAll \/ Destroying

\* Every thread that can go on does, tasks end, and locks are given fairly.
Fairness ==
    /\ \A c \in Clients : SF_vars(Calling(c))
    /\ \A w \in Workers : SF_vars(Running(w))
    /\ WF_vars(Destroying)

Spec == Init /\ [][Next]_vars
FairSpec == Spec /\ Fairness

-----------------------------------------------------------------------------
\* freeThreads is the number of threads without a task but for the exceptions:
\* each leaves it one short, as such a thread is counted out by onTaskStarted
\* and by onTaskException.
CountIsExact ==
    freeThreads = (Cardinality({w \in pool : ~Busy(w)}) - thrown) % Word

\* A pool destroyed when all its work is done is not touched any more.
QuietShutdown == quiet => ~undefined

\* Every task queued is taken, though others end with exceptions, unless the
\* pool is destroyed; and a pool whose work is done is destroyed to the end.
WorkIsDone ==
    /\ \A c \in Clients : c \in Range(queue) ~> (c \notin Range(queue) \/ dtor # "none")
    /\ (dtor # "none" /\ quiet) ~> dtor = "ended"

\* What the comments of queueTask and onTaskStarted promise: no task is left
\* queued while all threads are busy and more may be created.
NobodyFreeGrows ==
    ~QueueLocked /\ queue # <<>> /\ dtor = "none" /\ thrown = 0
        /\ (\A w \in pool : at[w] = "running")
    => Cardinality(pool) = maxThreads

=============================================================================
