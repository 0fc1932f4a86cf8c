------------------------ MODULE SessionExecutorProofs ------------------------
(***************************************************************************)
(* Safety of the session executor for any callers, messages and consumers: *)
(* the invariants of SessionExecutor.tla follow from IInv, which every     *)
(* step preserves, and every step is a step, or a stutter, of              *)
(* PausableQueue.  The second half is about the transacted session that    *)
(* uses the executor.                                                      *)
(***************************************************************************)
EXTENDS SessionExecutor, FiniteSetTheorems, WellFoundedInduction,
        NaturalsInduction, TLAPS

\* The destructor has set closed before it joins the thread, and found it
\* gone before it frees the queue.
ClosingOrder ==
    /\ closer # "open" => closed
    /\ closer \in {"clearing", "destroyed"} => thread \in {"none", "dead"}

\* A granted stop() has cleared started, unless the executor was closed.
QuietIsStopped == quiet => ~started \/ closed

IInv == TypeOK /\ ClosingOrder /\ QuietIsStopped /\ StopIsQuiet /\ NoMissedWakeup
-----------------------------------------------------------------------------
\* What Selected returns is a sequence of elements of q, taken from different
\* positions; nothing is selected from nothing.
LEMMA SelectedIsSubsequence ==
    ASSUME NEW q, NEW T, q \in Seq(T), NEW I \in SUBSET DOMAIN q,
           NEW r \in Selected(q, I)
    PROVE  /\ r \in Seq(T) /\ Len(r) <= Len(q)
           /\ q = <<>> => r = <<>>
           /\ \E f \in [1..Len(r) -> I] :
                /\ \A i, j \in 1..Len(r) : i < j => f[i] < f[j]
                /\ \A i \in 1..Len(r) : r[i] = q[f[i]]
<1> DEFINE n == Cardinality(I)
<1>1. n \in 0..Len(q) /\ (I = {} => n = 0)
  <2>1. DOMAIN q = 1..Len(q) /\ Len(q) \in Nat
    OBVIOUS
  <2>2. IsFiniteSet(1..Len(q)) /\ Cardinality(1..Len(q)) = Len(q)
    <3>1. /\ IsFiniteSet(1..Len(q))
          /\ Cardinality(1..Len(q)) = IF 1 > Len(q) THEN 0 ELSE Len(q) - 1 + 1
      BY <2>1, FS_Interval
    <3> QED
      BY <2>1, <3>1
  <2>3. IsFiniteSet(I) /\ Cardinality(I) <= Len(q)
    BY <2>1, <2>2, FS_Subset
  <2> QED
    BY <2>3, FS_CardinalityType, FS_EmptySet
<1>2. PICK f \in [1..n -> I] :
        /\ \A i, j \in 1..n : i < j => f[i] < f[j]
        /\ r = [i \in 1..n |-> q[f[i]]]
  BY DEF Selected
<1> HIDE DEF n
<1>3. \A i \in 1..n : q[f[i]] \in T
  <2> SUFFICES ASSUME NEW i \in 1..n PROVE q[f[i]] \in T
    OBVIOUS
  <2>1. f[i] \in DOMAIN q
    BY <1>2
  <2> QED
    BY <2>1
<1>4. r \in Seq(T) /\ Len(r) = n
  BY <1>1, <1>2, <1>3
<1>5. q = <<>> => r = <<>>
  BY <1>1, <1>4
<1>6. Len(r) <= Len(q)
  BY <1>1, <1>4
<1> QED
  BY <1>2, <1>4, <1>5, <1>6

\* What Purge does to the queue.
LEMMA PurgedQueue ==
    ASSUME messageQueue \in Seq(Messages), NEW c \in Consumers, Purge(c)
    PROVE  /\ messageQueue' \in Seq(Messages)
           /\ messageQueue = <<>> => messageQueue' = <<>>
           /\ Len(messageQueue') <= Len(messageQueue)
           /\ \E f \in [1..Len(messageQueue') -> 1..Len(messageQueue)] :
                /\ \A i, j \in 1..Len(messageQueue') : i < j => f[i] < f[j]
                /\ \A i \in 1..Len(messageQueue') :
                     messageQueue'[i] = messageQueue[f[i]]
<1> DEFINE keep == {i \in DOMAIN messageQueue : ConsumerOf[messageQueue[i]] # c}
<1>1. messageQueue' \in Selected(messageQueue, keep)
  BY DEF Purge
<1>2. keep \in SUBSET DOMAIN messageQueue
  OBVIOUS
<1> HIDE DEF keep
<1>3. PICK f \in [1..Len(messageQueue') -> keep] :
        /\ \A i, j \in 1..Len(messageQueue') : i < j => f[i] < f[j]
        /\ \A i \in 1..Len(messageQueue') :
             messageQueue'[i] = messageQueue[f[i]]
  BY <1>1, <1>2, SelectedIsSubsequence
<1>4. f \in [1..Len(messageQueue') -> 1..Len(messageQueue)]
  BY <1>2, <1>3
<1> QED
  BY <1>1, <1>2, <1>3, <1>4, SelectedIsSubsequence
-----------------------------------------------------------------------------
\* A new executor is stopped and has no thread.
LEMMA InitEstablishes == Init => IInv
<1> SUFFICES ASSUME Init PROVE IInv
  OBVIOUS
<1> USE DEF Init
<1>1. FlagsTypeOK
  BY DEF FlagsTypeOK
<1>2. ThreadsTypeOK
  BY DEF ThreadsTypeOK
<1>3. QueueTypeOK
  BY DEF QueueTypeOK
<1>4. ClosingOrder /\ QuietIsStopped /\ StopIsQuiet /\ NoMissedWakeup
  BY DEF ClosingOrder, QuietIsStopped, StopIsQuiet, NoMissedWakeup
<1> QED
  BY <1>1, <1>2, <1>3, <1>4 DEF IInv, TypeOK

\* A push wakes the thread.
LEMMA PushPreserves ==
    ASSUME IInv, NEW m \in Messages, Execute(m) \/ ExecuteFirst(m)
    PROVE  IInv'
<1> USE DEF IInv, TypeOK, Execute, ExecuteFirst, Notified
<1>1. FlagsTypeOK'
  BY DEF FlagsTypeOK
<1>2. ThreadsTypeOK'
  BY DEF ThreadsTypeOK
<1>3. QueueTypeOK'
  <2>1. messageQueue' \in Seq(Messages)
    <3>1. messageQueue \in Seq(Messages) /\ <<m>> \in Seq(Messages)
      BY DEF QueueTypeOK
    <3>2. CASE Execute(m)
      BY <3>1, <3>2
    <3>3. CASE ExecuteFirst(m)
      BY <3>1, <3>3
    <3> QED
      BY <3>2, <3>3
  <2>2. dataList' = dataList /\ current' = current
    OBVIOUS
  <2>3. thread' # "dispatching" => thread # "dispatching"
    OBVIOUS
  <2> QED
    BY <2>1, <2>2, <2>3 DEF QueueTypeOK
<1>4. ClosingOrder'
  BY DEF ClosingOrder, ThreadsTypeOK
<1>5. QuietIsStopped'
  BY DEF QuietIsStopped, FlagsTypeOK
<1>6. StopIsQuiet'
  BY DEF StopIsQuiet, QuietIsStopped, FlagsTypeOK
<1>7. NoMissedWakeup'
  BY DEF NoMissedWakeup, FlagsTypeOK, QueueTypeOK
<1> QED
  BY <1>1, <1>2, <1>3, <1>4, <1>5, <1>6, <1>7

\* A purge only shortens the queue.
LEMMA PurgePreserves ==
    ASSUME IInv, NEW c \in Consumers, Purge(c)
    PROVE  IInv'
<1> USE DEF IInv, TypeOK, Purge
<1>1. FlagsTypeOK'
  BY DEF FlagsTypeOK
<1>2. ThreadsTypeOK'
  BY DEF ThreadsTypeOK
<1>3. QueueTypeOK'
  BY PurgedQueue DEF QueueTypeOK, ThreadsTypeOK
<1>4. ClosingOrder'
  BY DEF ClosingOrder, ThreadsTypeOK
<1>5. QuietIsStopped'
  BY DEF QuietIsStopped, FlagsTypeOK
<1>6. StopIsQuiet'
  BY DEF StopIsQuiet, QuietIsStopped, FlagsTypeOK
<1>7. NoMissedWakeup'
  BY PurgedQueue DEF NoMissedWakeup, FlagsTypeOK, QueueTypeOK
<1> QED
  BY <1>1, <1>2, <1>3, <1>4, <1>5, <1>6, <1>7

\* start() wakes the thread and ends the quiet.
LEMMA StartPreserves ==
    ASSUME IInv, Start
    PROVE  IInv'
<1> USE DEF IInv, TypeOK, Start, Notified
<1>1. FlagsTypeOK'
  BY DEF FlagsTypeOK
<1>2. ThreadsTypeOK'
  BY DEF ThreadsTypeOK
<1>3. QueueTypeOK'
  BY DEF QueueTypeOK, ThreadsTypeOK
<1>4. ClosingOrder'
  BY DEF ClosingOrder, ThreadsTypeOK
<1>5. QuietIsStopped'
  BY DEF QuietIsStopped, FlagsTypeOK
<1>6. StopIsQuiet'
  BY DEF StopIsQuiet, QuietIsStopped, FlagsTypeOK
<1>7. NoMissedWakeup'
  BY DEF NoMissedWakeup, FlagsTypeOK, QueueTypeOK
<1> QED
  BY <1>1, <1>2, <1>3, <1>4, <1>5, <1>6, <1>7

\* A caller's stop() returns between batches.
LEMMA StopPreserves ==
    ASSUME IInv, NEW t, Stop(t), t = Dispatcher => current # <<>>
    PROVE  IInv'
<1> USE DEF IInv, TypeOK, Stop
<1>1. FlagsTypeOK'
  BY DEF FlagsTypeOK
<1>2. ThreadsTypeOK'
  BY DEF ThreadsTypeOK
<1>3. QueueTypeOK'
  BY DEF QueueTypeOK, ThreadsTypeOK
<1>4. ClosingOrder'
  BY DEF ClosingOrder, ThreadsTypeOK
<1>5. QuietIsStopped'
  BY DEF QuietIsStopped, FlagsTypeOK
<1>6. StopIsQuiet'
  BY DEF StopIsQuiet, QuietIsStopped, FlagsTypeOK
<1>7. NoMissedWakeup'
  BY DEF NoMissedWakeup, FlagsTypeOK, QueueTypeOK
<1> QED
  BY <1>1, <1>2, <1>3, <1>4, <1>5, <1>6, <1>7

\* The destructor wakes the thread before it waits for its end.
LEMMA CloserPreserves ==
    ASSUME IInv, Close \/ CloserStep
    PROVE  IInv'
<1> USE DEF IInv, TypeOK, Close, CloserStep, Join, Clear, Notified
<1>1. FlagsTypeOK'
  BY DEF FlagsTypeOK
<1>2. ThreadsTypeOK'
  BY DEF ThreadsTypeOK
<1>3. QueueTypeOK'
  <2>1. messageQueue' \in Seq(Messages)
    <3>1. messageQueue \in Seq(Messages) /\ <<>> \in Seq(Messages)
      BY DEF QueueTypeOK
    <3>2. messageQueue' = messageQueue \/ messageQueue' = <<>>
      OBVIOUS
    <3> QED
      BY <3>1, <3>2
  <2>2. dataList' = dataList /\ current' = current
    OBVIOUS
  <2>3. thread' # "dispatching" => thread # "dispatching"
    OBVIOUS
  <2> QED
    BY <2>1, <2>2, <2>3 DEF QueueTypeOK
<1>4. ClosingOrder'
  BY DEF ClosingOrder, ThreadsTypeOK
<1>5. QuietIsStopped'
  BY DEF QuietIsStopped, FlagsTypeOK
<1>6. StopIsQuiet'
  BY DEF StopIsQuiet, QuietIsStopped, FlagsTypeOK
<1>7. NoMissedWakeup'
  BY DEF NoMissedWakeup, FlagsTypeOK, QueueTypeOK
<1> QED
  BY <1>1, <1>2, <1>3, <1>4, <1>5, <1>6, <1>7

\* The thread takes a batch only in a started session, and sleeps only when it
\* finds nothing to do.
LEMMA ThreadPreserves ==
    ASSUME IInv, ThreadStep \/ SpuriousWakeup
    PROVE  IInv'
<1> USE DEF IInv, TypeOK, ThreadStep, SpuriousWakeup, TakeBatch,
      Dispatch, DispatchReturns, EndBatch, Decide
<1>1. FlagsTypeOK'
  BY DEF FlagsTypeOK
<1>2. ThreadsTypeOK'
  BY DEF ThreadsTypeOK
<1>3. QueueTypeOK'
  <2>1. CASE TakeBatch \/ Decide \/ SpuriousWakeup
    BY <2>1 DEF QueueTypeOK
  <2>2. CASE Dispatch
    <3>1. Head(dataList) \in Messages /\ Tail(dataList) \in Seq(Messages)
      BY <2>2 DEF QueueTypeOK
    <3> QED
      BY <2>2, <3>1 DEF QueueTypeOK
  <2>3. CASE DispatchReturns \/ EndBatch
    BY <2>3 DEF QueueTypeOK
  <2> QED
    BY <2>1, <2>2, <2>3
<1>4. ClosingOrder'
  BY DEF ClosingOrder, ThreadsTypeOK
<1>5. QuietIsStopped'
  BY DEF QuietIsStopped, FlagsTypeOK
<1>6. StopIsQuiet'
  BY DEF StopIsQuiet, QuietIsStopped, FlagsTypeOK
<1>7. NoMissedWakeup'
  BY DEF NoMissedWakeup, FlagsTypeOK, QueueTypeOK
<1> QED
  BY <1>1, <1>2, <1>3, <1>4, <1>5, <1>6, <1>7

\* Every step of the executor, its callers and its destructor preserves IInv.
LEMMA StepPreserves == IInv /\ [Next]_vars => IInv'
<1> SUFFICES ASSUME IInv, [Next]_vars PROVE IInv'
  OBVIOUS
<1>1. CASE UNCHANGED vars
  BY <1>1 DEF vars, IInv, TypeOK, FlagsTypeOK, ThreadsTypeOK, QueueTypeOK,
     ClosingOrder, QuietIsStopped, StopIsQuiet, NoMissedWakeup
<1>2. CASE CallerStep
  <2>1. CASE \E m \in Messages \ ToSet(Pending) : Execute(m) \/ ExecuteFirst(m)
    BY <2>1, PushPreserves
  <2>2. CASE \E c \in Consumers : Purge(c)
    BY <2>2, PurgePreserves
  <2>3. CASE Start
    BY <2>3, StartPreserves
  <2>4. CASE \E t \in Callers : Stop(t)
    BY <2>4, StopPreserves, DispatcherAssumption
  <2> QED
    BY <1>2, <2>1, <2>2, <2>3, <2>4 DEF CallerStep
<1>3. CASE ListenerStops
  BY <1>3, StopPreserves DEF ListenerStops
<1>4. CASE Close \/ CloserStep
  BY <1>4, CloserPreserves
<1>5. CASE ThreadStep \/ SpuriousWakeup
  BY <1>5, ThreadPreserves
<1> QED
  BY <1>1, <1>2, <1>3, <1>4, <1>5 DEF Next

\* The inductive invariant holds in every behaviour.
THEOREM InvariantHolds == Spec => []IInv
BY InitEstablishes, StepPreserves, PTL DEF Spec

\* Types are preserved, whoever calls and however many messages there are.
THEOREM TypeCorrect == Spec => []TypeOK
<1>1. IInv => TypeOK
  BY DEF IInv
<1> QED
  BY <1>1, InvariantHolds, PTL

\* After a stop() that was granted to a caller nothing is dispatched before
\* the next start().
THEOREM StopIsGranted == Spec => []StopIsQuiet
<1>1. IInv => StopIsQuiet
  BY DEF IInv
<1> QED
  BY <1>1, InvariantHolds, PTL

\* The thread never sleeps on a message it may dispatch or on a close.
THEOREM WakeupsReachTheThread == Spec => []NoMissedWakeup
<1>1. IInv => NoMissedWakeup
  BY DEF IInv
<1> QED
  BY <1>1, InvariantHolds, PTL
-----------------------------------------------------------------------------
(* The executor implements PausableQueue *)

\* What is pending is a sequence of messages.
LEMMA PendingIsSequence ==
    ASSUME IInv
    PROVE  /\ messageQueue \in Seq(Messages) /\ dataList \in Seq(Messages)
           /\ Pending \in Seq(Messages)
BY DEF IInv, TypeOK, QueueTypeOK, Pending

\* A push puts the message at the end of the queue or behind the batch.
LEMMA PushRefines ==
    ASSUME IInv, NEW m \in Messages \ ToSet(Pending), Execute(m) \/ ExecuteFirst(m)
    PROVE  Queue!Put
<1>1. messageQueue \in Seq(Messages) /\ dataList \in Seq(Messages)
  BY PendingIsSequence
<1>2. CASE Execute(m)
  <2>1. Pending' = InsertAt(Pending, Len(Pending) + 1, m)
    BY <1>1, <1>2 DEF Execute, Pending, InsertAt
  <2>2. Len(Pending) + 1 \in 1..(Len(Pending) + 1)
    BY <1>1 DEF Pending
  <2> QED
    BY <1>2, <2>1, <2>2 DEF Execute, Queue!Put, Queue!InsertAt,
       Queue!ToSet, InsertAt, ToSet
<1>3. CASE ExecuteFirst(m)
  <2>1. Pending' = InsertAt(Pending, Len(dataList) + 1, m)
    <3>1. /\ SubSeq(Pending, 1, Len(dataList)) = dataList
          /\ SubSeq(Pending, Len(dataList) + 1, Len(Pending)) = messageQueue
      BY <1>1 DEF Pending
    <3>2. Pending' = dataList \o (<<m>> \o messageQueue)
      BY <1>3 DEF ExecuteFirst, Pending
    <3>3. dataList \o (<<m>> \o messageQueue) = dataList \o <<m>> \o messageQueue
      BY <1>1
    <3>4. (Len(dataList) + 1) - 1 = Len(dataList)
      BY <1>1
    <3> QED
      BY <3>1, <3>2, <3>3, <3>4 DEF InsertAt
  <2>2. Len(dataList) + 1 \in 1..(Len(Pending) + 1)
    BY <1>1 DEF Pending
  <2> QED
    BY <1>3, <2>1, <2>2 DEF ExecuteFirst, Queue!Put, Queue!InsertAt,
       Queue!ToSet, InsertAt, ToSet
<1> QED
  BY <1>2, <1>3

\* A purge keeps the batch and, of the queue, what is not for the consumer.
LEMMA PurgeRefines ==
    ASSUME IInv, NEW c \in Consumers, Purge(c)
    PROVE  Queue!TakeOut
<1>1. messageQueue \in Seq(Messages) /\ dataList \in Seq(Messages)
  BY PendingIsSequence
<1> DEFINE b == Len(dataList)
           k == Len(messageQueue')
<1>2. /\ messageQueue' \in Seq(Messages) /\ b \in Nat /\ k \in Nat
      /\ k <= Len(messageQueue) /\ dataList' = dataList
  BY <1>1, PurgedQueue DEF Purge
<1>3. PICK f \in [1..k -> 1..Len(messageQueue)] :
        /\ \A i, j \in 1..k : i < j => f[i] < f[j]
        /\ \A i \in 1..k : messageQueue'[i] = messageQueue[f[i]]
  BY <1>1, PurgedQueue
<1>4. /\ Len(Pending) = b + Len(messageQueue)
      /\ DOMAIN Pending = 1..(b + Len(messageQueue))
      /\ \A i \in 1..b : Pending[i] = dataList[i]
      /\ \A i \in 1..Len(messageQueue) : Pending[b + i] = messageQueue[i]
  BY <1>1 DEF Pending
<1>5. /\ Pending' \in Seq(Messages) /\ Len(Pending') = b + k
      /\ \A i \in 1..b : Pending'[i] = dataList[i]
      /\ \A i \in 1..(b + k) : ~(i <= b) => Pending'[i] = messageQueue'[i - b]
  BY <1>1, <1>2 DEF Pending
<1> DEFINE g == [i \in 1..(b + k) |-> IF i <= b THEN i ELSE b + f[i - b]]
<1>6. ASSUME NEW i \in 1..(b + k)
      PROVE  /\ i <= b => g[i] = i /\ i \in 1..b
             /\ ~(i <= b) => /\ g[i] = b + f[i - b]
                             /\ i - b \in 1..k
                             /\ f[i - b] \in 1..Len(messageQueue)
  <2>1. Len(messageQueue) \in Nat
    BY <1>1
  <2>2. ~(i <= b) => i - b \in 1..k
    BY <1>2
  <2> HIDE DEF b, k
  <2>3. g[i] = IF i <= b THEN i ELSE b + f[i - b]
    OBVIOUS
  <2> QED
    BY <1>2, <1>3, <2>2, <2>3
<1>7. g \in [1..(b + k) -> DOMAIN Pending]
  BY <1>1, <1>2, <1>4, <1>6
<1>8. ASSUME NEW i \in 1..(b + k), NEW j \in 1..(b + k), i < j
      PROVE  g[i] < g[j]
  <2>1. CASE j <= b
    BY <1>2, <1>6, <1>8, <2>1
  <2>2. CASE i <= b /\ ~(j <= b)
    BY <1>1, <1>2, <1>6, <2>2
  <2>3. CASE ~(i <= b)
    <3>1. ~(j <= b) /\ i - b < j - b
      BY <1>2, <1>8, <2>3
    <3>2. f[i - b] < f[j - b]
      BY <1>3, <1>6, <2>3, <3>1
    <3> QED
      <4>1. /\ g[i] = b + f[i - b] /\ f[i - b] \in 1..Len(messageQueue)
            /\ g[j] = b + f[j - b] /\ f[j - b] \in 1..Len(messageQueue)
        BY <1>6, <2>3, <3>1
      <4> HIDE DEF g, b, k
      <4> QED
        BY <1>1, <1>2, <3>2, <4>1
  <2> QED
    BY <1>2, <2>1, <2>2, <2>3
<1>9. ASSUME NEW i \in 1..(b + k)
      PROVE  Pending'[i] = Pending[g[i]]
  <2>1. CASE i <= b
    BY <1>4, <1>5, <1>6, <2>1
  <2>2. CASE ~(i <= b)
    <3>1. Pending'[i] = messageQueue'[i - b]
      BY <1>5, <2>2
    <3>2. messageQueue'[i - b] = messageQueue[f[i - b]]
      BY <1>3, <1>6, <2>2
    <3> QED
      BY <1>4, <1>6, <2>2, <3>1, <3>2
  <2> QED
    BY <2>1, <2>2
<1> HIDE DEF g, b, k
<1>10. Pending' = [i \in 1..(b + k) |-> Pending[g[i]]]
  BY <1>5, <1>9
<1>11. b + k \in 0..Len(Pending)
  BY <1>1, <1>2, <1>4
<1> QED
  BY <1>7, <1>8, <1>10, <1>11 DEF Purge, Queue!TakeOut

\* Taking a batch moves messages from the queue to the batch, in their order.
LEMMA TakeBatchRefines ==
    ASSUME IInv, TakeBatch
    PROVE  UNCHANGED Queue!vars
<1>1. messageQueue \in Seq(Messages) /\ dataList = <<>>
  BY DEF IInv, TypeOK, QueueTypeOK, TakeBatch
<1>2. Pending' = Pending
  BY <1>1 DEF TakeBatch, Pending
<1> QED
  BY <1>2 DEF TakeBatch, Queue!vars

\* A message is handed out from the head, in a session that is not paused.
LEMMA DispatchRefines ==
    ASSUME IInv, Dispatch
    PROVE  Queue!HandOut
<1>1. messageQueue \in Seq(Messages) /\ dataList \in Seq(Messages)
  BY PendingIsSequence
<1>2. /\ Pending # <<>> /\ Head(Pending) = Head(dataList)
      /\ Tail(Pending) = Pending'
  BY <1>1 DEF Dispatch, Pending
<1>3. ~quiet
  BY DEF IInv, StopIsQuiet, Dispatch
<1> QED
  BY <1>2, <1>3 DEF Dispatch, Queue!HandOut

\* A caller's stop() is granted between two batches.
LEMMA StopRefines ==
    ASSUME IInv, NEW t \in Callers, Stop(t)
    PROVE  Queue!Pause
<1>1. t # Dispatcher
  BY DispatcherAssumption
<1>2. current = <<>>
  BY <1>1 DEF Stop, IInv, TypeOK, QueueTypeOK
<1>3. quiet' = TRUE
  BY <1>1 DEF Stop
<1> QED
  BY <1>2, <1>3 DEF Stop, Queue!Pause, Pending

\* The destructor takes out what is left.
LEMMA ClearRefines ==
    ASSUME IInv, Clear
    PROVE  Queue!TakeOut
<1>1. Pending' = <<>>
  BY DEF IInv, TypeOK, QueueTypeOK, ClosingOrder, Clear, Pending
<1>2. Len(Pending) \in Nat
  BY PendingIsSequence
<1>3. PICK f \in [1..0 -> DOMAIN Pending] : TRUE
  <2>1. [i \in 1..0 |-> i] \in [1..0 -> DOMAIN Pending]
    OBVIOUS
  <2> QED
    BY <2>1
<1>4. [i \in 1..0 |-> Pending[f[i]]] = <<>>
  OBVIOUS
<1> HIDE DEF Pending
<1>5. \E n \in 0..Len(Pending) : \E g \in [1..n -> DOMAIN Pending] :
        /\ \A i, j \in 1..n : i < j => g[i] < g[j]
        /\ Pending' = [i \in 1..n |-> Pending[g[i]]]
  <2>1. 0 \in 0..Len(Pending)
    BY <1>2
  <2>2. \A i, j \in 1..0 : i < j => f[i] < f[j]
    OBVIOUS
  <2> QED
    BY <1>1, <1>3, <1>4, <2>1, <2>2
<1> QED
  BY <1>5 DEF Clear, Queue!TakeOut

\* The other steps resume, take a message back or change nothing the promise
\* sees.
LEMMA OthersRefine ==
    ASSUME IInv, \/ Start \/ ListenerStops \/ Close \/ Join \/ DispatchReturns
                 \/ EndBatch \/ Decide \/ SpuriousWakeup
    PROVE  Queue!Next \/ UNCHANGED Queue!vars
<1>1. UNCHANGED Pending
  BY DEF Start, ListenerStops, Stop, Close, Join, DispatchReturns, EndBatch,
     Decide, SpuriousWakeup, Pending
<1>2. CASE Start
  BY <1>1, <1>2 DEF Start, Queue!Next, Queue!Resume, Queue!vars
<1>3. CASE ListenerStops
  BY <1>1, <1>3 DEF ListenerStops, Stop, Queue!vars, IInv, TypeOK, FlagsTypeOK
<1>4. CASE DispatchReturns
  BY <1>1, <1>4 DEF DispatchReturns, Queue!Next, Queue!TakeBack
<1>5. CASE Close \/ Join \/ EndBatch \/ Decide \/ SpuriousWakeup
  BY <1>1, <1>5 DEF Close, Join, EndBatch, Decide, SpuriousWakeup, Queue!vars
<1> QED
  BY <1>2, <1>3, <1>4, <1>5

\* The executor implements the promise of PausableQueue, for any number of
\* callers, messages and consumers.
THEOREM ExecutorRefines == Spec => ImplementsPausableQueue
<1>1. Init => Queue!Init
  BY DEF Init, Queue!Init, Pending
<1>2. IInv /\ [Next]_vars => [Queue!Next]_(Queue!vars)
  <2> SUFFICES ASSUME IInv, [Next]_vars
               PROVE  Queue!Next \/ UNCHANGED Queue!vars
    OBVIOUS
  <2>1. CASE UNCHANGED vars
    BY <2>1 DEF vars, Queue!vars, Pending
  <2>2. CASE \E m \in Messages \ ToSet(Pending) : Execute(m) \/ ExecuteFirst(m)
    BY <2>2, PushRefines DEF Queue!Next
  <2>3. CASE \E c \in Consumers : Purge(c)
    BY <2>3, PurgeRefines DEF Queue!Next
  <2>4. CASE \E t \in Callers : Stop(t)
    BY <2>4, StopRefines DEF Queue!Next
  <2>5. CASE TakeBatch
    BY <2>5, TakeBatchRefines
  <2>6. CASE Dispatch
    BY <2>6, DispatchRefines DEF Queue!Next
  <2>7. CASE Clear
    BY <2>7, ClearRefines DEF Queue!Next
  <2>8. CASE \/ Start \/ ListenerStops \/ Close \/ Join \/ DispatchReturns
             \/ EndBatch \/ Decide \/ SpuriousWakeup
    BY <2>8, OthersRefine
  <2> QED
    BY <2>1, <2>2, <2>3, <2>4, <2>5, <2>6, <2>7, <2>8
       DEF Next, CallerStep, CloserStep, ThreadStep
<1> QED
  BY <1>1, <1>2, InvariantHolds, PTL
     DEF Spec, Queue!Spec, ImplementsPausableQueue
-----------------------------------------------------------------------------
(***************************************************************************)
(* The transacted session over this executor, TransactedSession.tla, for   *)
(* any messages, any finite set of consumers and any maxRedeliveries, when *)
(* a listener commits or a thread that receives does.  Its invariant,      *)
(* TxInv, relates three sets: Ahead, the messages in line for the          *)
(* application; InMap, those rollbackMap keeps; Todo, those the redelivery *)
(* loop has still to do.  The lemmas on sequences say what a step does to  *)
(* these sets, and the steps are then cases about sets.                    *)
(***************************************************************************)
CONSTANTS App, Owner, Usages, TxCalls, OwnerCalls, MaxRedeliveries, CanBreak

VARIABLES usage, connStarted, stopping, unconsumed, inListener, rollbackMap,
          redeliveryCount, transactionInfo, stage, todo, sent, acked, committed,
          broken, inTx, dropped, expired

Tx == INSTANCE TransactedSession

\* What waits to be given to the application: a message it has been called
\* with is the transaction's.
Called == IF inListener THEN {} ELSE Tx!ToSet(current)

Ahead == Tx!ToSet(unconsumed) \cup Called \cup Tx!ToSet(dataList) \cup Tx!ToSet(messageQueue)

Todo == Tx!ToSet(todo)

\* The four places are disjoint, and none holds a message twice.
Line ==
    /\ Tx!IsInjective(unconsumed) /\ Tx!IsInjective(dataList) /\ Tx!IsInjective(messageQueue)
    /\ Tx!ToSet(unconsumed) \cap Called = {}
    /\ Tx!ToSet(unconsumed) \cap Tx!ToSet(dataList) = {}
    /\ Tx!ToSet(unconsumed) \cap Tx!ToSet(messageQueue) = {}
    /\ Called \cap Tx!ToSet(dataList) = {}
    /\ Called \cap Tx!ToSet(messageQueue) = {}
    /\ Tx!ToSet(dataList) \cap Tx!ToSet(messageQueue) = {}

\* The loop was left with the map half redelivered.
Wrecked == stage = "undefined" /\ broken

\* The map holds each message once, under its consumer.
Filed ==
    /\ \A c \in Consumers : \A m \in Tx!ToSet(rollbackMap[c]) : ConsumerOf[m] = c
    /\ ~Wrecked => \A c \in Consumers : Tx!IsInjective(rollbackMap[c])

\* Who calls commit and rollback.
Calling ==
    /\ usage \in {"onMessage", "receive"}
    /\ usage = "receive" => ~inListener
    /\ usage = "onMessage" =>
         unconsumed = <<>> /\ (stage \notin {"idle", "undefined"} => inListener)

\* Where the transaction is known to be alive.
Live ==
    stage \in {"clearing", "commitStart", "rollbackStart", "redeliverLock",
               "redelivering"} => transactionInfo = "live"

RedeliveryStages == {"rollbackBegin", "rollbackStart", "redeliverLock"}

\* The line and the map hold what was sent; no message is in both, and what
\* the loop has still to do is in the map.
Apart ==
    /\ Ahead \subseteq sent /\ Tx!InMap \subseteq sent
    /\ ~Wrecked /\ stage # "redelivering" => Tx!InMap \cap Ahead = {}
    /\ stage = "redelivering" =>
         Todo \subseteq Tx!InMap /\ Todo \cap Ahead = {} /\ Tx!IsInjective(todo)

\* Nothing gets lost: while the map is redelivered, what the loop has done
\* is elsewhere.
Tracked ==
    /\ sent \subseteq Ahead \cup Tx!InMap \cup committed \cup dropped \cup expired
    /\ stage = "redelivering" => Tx!InMap \subseteq Todo \cup Ahead \cup dropped \cup expired

\* What is acknowledged and committed does not come back.
Settled ==
    /\ committed \cap Ahead = {}
    /\ stage # "clearing" => committed \cap Tx!InMap = {}
    /\ stage = "committing" => Tx!InMap \subseteq acked
    /\ stage = "clearing" => Tx!InMap \subseteq committed
    /\ ~broken => acked \cap Ahead = {}
    /\ ~broken /\ stage \in RedeliveryStages => acked \cap Tx!InMap = {}
    /\ ~broken /\ stage = "redelivering" => acked \cap Todo = {}

\* What the application was given in this transaction is in the map.
Given ==
    /\ inTx \subseteq Tx!InMap
    /\ stage \in RedeliveryStages \cup {"clearing", "commitBegin", "commitStart", "redelivering"}
         => inTx = {}

\* A message that can be redelivered has not been given up.
Counts ==
    /\ \A m \in Messages \ sent : redeliveryCount[m] < MaxRedeliveries
    /\ \A m \in Ahead : redeliveryCount[m] < MaxRedeliveries
    /\ (~broken /\ stage # "redelivering") \/ stage \in RedeliveryStages =>
         \A m \in Tx!InMap : redeliveryCount[m] < MaxRedeliveries
    /\ stage = "redelivering" => \A m \in Todo : redeliveryCount[m] < MaxRedeliveries

\* The assumptions of TransactedSession, and the session used by a listener
\* that commits, or by a thread that receives and commits.
UsedAsIntended ==
    /\ Tx!ConsumersAssumption /\ Tx!MaxRedeliveriesAssumption
    /\ Usages \subseteq {"onMessage", "receive"}

TxInv ==
    /\ UsedAsIntended
    /\ Tx!TypeOK /\ Line /\ Filed /\ Calling /\ Live
    /\ Apart /\ Tracked /\ Settled /\ Given /\ Counts

\* What is assumed of the constants.
LEMMA TxConstants ==
    ASSUME UsedAsIntended
    PROVE  IsFiniteSet(Consumers) /\ MaxRedeliveries \in Nat \ {0}
  BY DEF UsedAsIntended, Tx!ConsumersAssumption, Tx!MaxRedeliveriesAssumption,
     Tx!IsFiniteSet, IsFiniteSet

-----------------------------------------------------------------------------
(* Sequences as the places of messages *)

\* A place without a message, and a place with one.
LEMMA TxSmallPlaces ==
    /\ Tx!ToSet(<<>>) = {} /\ Tx!IsInjective(<<>>)
    /\ \A m : Tx!ToSet(<<m>>) = {m} /\ Tx!IsInjective(<<m>>)
<1>1. Tx!ToSet(<<>>) = {} /\ Tx!IsInjective(<<>>)
  BY DEF Tx!ToSet, Tx!IsInjective
<1>2. ASSUME NEW m PROVE Tx!ToSet(<<m>>) = {m} /\ Tx!IsInjective(<<m>>)
  BY DEF Tx!ToSet, Tx!IsInjective
<1> QED
  BY <1>1, <1>2

\* Two places, one behind the other.
LEMMA TxJoined ==
    ASSUME NEW S, NEW s \in Seq(S), NEW t \in Seq(S)
    PROVE  /\ s \o t \in Seq(S)
           /\ Tx!ToSet(s \o t) = Tx!ToSet(s) \cup Tx!ToSet(t)
           /\ Tx!IsInjective(s) /\ Tx!IsInjective(t) /\ Tx!ToSet(s) \cap Tx!ToSet(t) = {}
                => Tx!IsInjective(s \o t)
<1>1. /\ Len(s) \in Nat /\ Len(t) \in Nat /\ DOMAIN s = 1..Len(s) /\ DOMAIN t = 1..Len(t)
      /\ DOMAIN (s \o t) = 1..(Len(s) + Len(t))
  OBVIOUS
<1>2. /\ \A i \in 1..Len(s) : (s \o t)[i] = s[i]
      /\ \A i \in 1..Len(t) : (s \o t)[i + Len(s)] = t[i]
  OBVIOUS
<1>3. \A i \in 1..(Len(s) + Len(t)) :
         \/ i \in 1..Len(s)
         \/ i - Len(s) \in 1..Len(t) /\ i = (i - Len(s)) + Len(s)
  BY <1>1
<1>4. \A i \in 1..Len(t) : i + Len(s) \in 1..(Len(s) + Len(t))
  BY <1>1
<1>5. \A i \in 1..Len(s) : i \in 1..(Len(s) + Len(t))
  BY <1>1
<1>6. Tx!ToSet(s \o t) = Tx!ToSet(s) \cup Tx!ToSet(t)
  BY <1>1, <1>2, <1>3, <1>4, <1>5 DEF Tx!ToSet
<1>8. ASSUME Tx!IsInjective(s), Tx!IsInjective(t), Tx!ToSet(s) \cap Tx!ToSet(t) = {}
      PROVE  Tx!IsInjective(s \o t)
  <2> SUFFICES ASSUME NEW i \in 1..(Len(s) + Len(t)), NEW j \in 1..(Len(s) + Len(t)),
                      (s \o t)[i] = (s \o t)[j]
               PROVE  i = j
    BY <1>1 DEF Tx!IsInjective
  <2>0. \A k \in 1..Len(s), l \in 1..Len(t) : s[k] # t[l]
    BY <1>1, <1>8 DEF Tx!ToSet
  <2>1. CASE i \in 1..Len(s) /\ j \in 1..Len(s)
    BY <1>1, <1>2, <1>8, <2>1 DEF Tx!IsInjective
  <2>2. CASE i \notin 1..Len(s) /\ j \notin 1..Len(s)
    <3>1. t[i - Len(s)] = t[j - Len(s)]
      BY <1>2, <1>3, <2>2
    <3>2. i - Len(s) = j - Len(s)
      BY <1>1, <1>3, <1>8, <2>2, <3>1 DEF Tx!IsInjective
    <3> QED
      BY <1>1, <3>2
  <2>3. CASE i \in 1..Len(s) /\ j \notin 1..Len(s)
    BY <1>2, <1>3, <2>0, <2>3
  <2>4. CASE i \notin 1..Len(s) /\ j \in 1..Len(s)
    BY <1>2, <1>3, <2>0, <2>4
  <2> QED
    BY <2>1, <2>2, <2>3, <2>4
<1> QED
  BY <1>6, <1>8

\* A message is added at the end.
LEMMA TxAppended ==
    ASSUME NEW S, NEW s \in Seq(S), NEW m \in S
    PROVE  /\ Append(s, m) \in Seq(S)
           /\ Tx!ToSet(Append(s, m)) = Tx!ToSet(s) \cup {m}
           /\ Tx!IsInjective(s) /\ m \notin Tx!ToSet(s) => Tx!IsInjective(Append(s, m))
<1>1. Append(s, m) = s \o <<m>> /\ <<m>> \in Seq(S)
  OBVIOUS
<1>2. Tx!ToSet(<<m>>) = {m} /\ Tx!IsInjective(<<m>>)
  BY TxSmallPlaces
<1> HIDE DEF Tx!ToSet, Tx!IsInjective
<1>3. /\ s \o <<m>> \in Seq(S)
      /\ Tx!ToSet(s \o <<m>>) = Tx!ToSet(s) \cup Tx!ToSet(<<m>>)
      /\ Tx!IsInjective(s) /\ Tx!IsInjective(<<m>>) /\ Tx!ToSet(s) \cap Tx!ToSet(<<m>>) = {}
           => Tx!IsInjective(s \o <<m>>)
  BY <1>1, TxJoined
<1> QED
  BY <1>1, <1>2, <1>3

\* The first message is taken from a place.
LEMMA TxTaken ==
    ASSUME NEW S, NEW s \in Seq(S), s # <<>>
    PROVE  /\ Head(s) \in S /\ Tail(s) \in Seq(S)
           /\ Tx!ToSet(s) = {Head(s)} \cup Tx!ToSet(Tail(s))
           /\ Tx!IsInjective(s) => Tx!IsInjective(Tail(s)) /\ Head(s) \notin Tx!ToSet(Tail(s))
<1>1. /\ Len(s) \in Nat \ {0} /\ DOMAIN s = 1..Len(s)
      /\ DOMAIN Tail(s) = 1..(Len(s) - 1) /\ Head(s) = s[1]
      /\ Head(s) \in S /\ Tail(s) \in Seq(S)
  OBVIOUS
<1>2. \A i \in 1..(Len(s) - 1) : Tail(s)[i] = s[i + 1] /\ i + 1 \in 1..Len(s) /\ i + 1 # 1
  BY <1>1
<1>3. \A i \in 1..Len(s) : i # 1 => i - 1 \in 1..(Len(s) - 1) /\ (i - 1) + 1 = i
  BY <1>1
<1>4. 1 \in 1..Len(s)
  BY <1>1
<1>5. Tx!ToSet(s) = {Head(s)} \cup Tx!ToSet(Tail(s))
  <2>1. ASSUME NEW x \in Tx!ToSet(s) PROVE x \in {Head(s)} \cup Tx!ToSet(Tail(s))
    <3>1. PICK i \in 1..Len(s) : x = s[i]
      BY <1>1 DEF Tx!ToSet
    <3>2. CASE i # 1
      <4>1. Tail(s)[i - 1] = x /\ i - 1 \in DOMAIN Tail(s)
        BY <1>1, <1>2, <1>3, <3>1, <3>2
      <4> QED
        BY <4>1 DEF Tx!ToSet
    <3> QED
      BY <1>1, <3>1, <3>2
  <2>2. ASSUME NEW x \in {Head(s)} \cup Tx!ToSet(Tail(s)) PROVE x \in Tx!ToSet(s)
    BY <1>1, <1>2, <1>4 DEF Tx!ToSet
  <2> QED
    BY <2>1, <2>2
<1>6. ASSUME Tx!IsInjective(s) PROVE Tx!IsInjective(Tail(s)) /\ Head(s) \notin Tx!ToSet(Tail(s))
  <2>1. Head(s) \notin Tx!ToSet(Tail(s))
    BY <1>1, <1>2, <1>4, <1>6 DEF Tx!ToSet, Tx!IsInjective
  <2>2. ASSUME NEW i \in 1..(Len(s) - 1), NEW j \in 1..(Len(s) - 1), Tail(s)[i] = Tail(s)[j]
        PROVE  i = j
    <3>1. s[i + 1] = s[j + 1] /\ i + 1 \in 1..Len(s) /\ j + 1 \in 1..Len(s)
      BY <1>2, <2>2
    <3>2. i + 1 = j + 1
      BY <1>1, <1>6, <3>1 DEF Tx!IsInjective
    <3> QED
      BY <3>2
  <2> QED
    BY <1>1, <2>1, <2>2 DEF Tx!IsInjective
<1> QED
  BY <1>1, <1>5, <1>6
-----------------------------------------------------------------------------
(* The messages of the map, one consumer after another *)

\* A set of numbers that holds 0, and the successor of each it holds, holds
\* them all.
LEMMA TxNumbers ==
    ASSUME NEW S \in SUBSET Nat, 0 \in S, \A n \in S : n + 1 \in S
    PROVE  S = Nat
<1> SUFFICES ASSUME Nat \ S # {} PROVE FALSE
  OBVIOUS
<1>0. \A n \in S : n + 1 \in S
  OBVIOUS
<1> DEFINE T == Nat \ S
<1>1. PICK m \in T : \A y \in T : ~(<<y, m>> \in OpToRel(<, Nat))
  <2>1. T \subseteq Nat /\ T # {}
    OBVIOUS
  <2> HIDE DEF T
  <2> QED
    BY <2>1, NatLessThanWellFounded, WFMin
<1>2. m # 0 /\ m - 1 \in Nat /\ m - 1 < m
  OBVIOUS
<1>3. <<m - 1, m>> \in OpToRel(<, Nat)
  BY <1>2 DEF OpToRel
<1>4. m - 1 \in S
  BY <1>1, <1>2, <1>3, Zenon
<1>5. (m - 1) + 1 \in S
  BY <1>0, <1>4, Zenon
<1>6. (m - 1) + 1 = m
  OBVIOUS
<1> QED
  BY <1>1, <1>5, <1>6, Zenon

\* What the function inside FlattenSeq solves, up to the k-th sequence.
IsFlat(f, seqs, k) ==
    f = [i \in 1..k |-> IF i = 1 THEN seqs[i] ELSE f[i-1] \o seqs[i]]

\* There is a solution: each sequence extends the one below it.
LEMMA TxFlatExists ==
    ASSUME NEW seqs, NEW n \in Nat
    PROVE  \E f : IsFlat(f, seqs, n)
<1> DEFINE Has(k) == \E f : IsFlat(f, seqs, k)
           N == {k \in Nat : Has(k)}
<1>1. Has(0)
  <2> DEFINE f == [i \in 1..0 |-> seqs[i]]
  <2>1. f = [i \in 1..0 |-> IF i = 1 THEN seqs[i] ELSE f[i-1] \o seqs[i]]
    OBVIOUS
  <2> QED
    BY <2>1 DEF IsFlat
<1>2. ASSUME NEW k \in Nat, Has(k) PROVE Has(k + 1)
  <2>1. PICK f : IsFlat(f, seqs, k)
    BY <1>2
  <2> DEFINE last == IF k + 1 = 1 THEN seqs[k + 1] ELSE f[k] \o seqs[k + 1]
             g == [i \in 1..(k + 1) |-> IF i = k + 1 THEN last ELSE f[i]]
  <2>2. ASSUME NEW i \in 1..(k + 1)
        PROVE  g[i] = IF i = 1 THEN seqs[i] ELSE g[i-1] \o seqs[i]
    <3>1. CASE i = k + 1
      <4>1. g[i] = last
        BY <3>1
      <4>2. k + 1 # 1 => i - 1 = k /\ k \in 1..(k + 1) /\ k # k + 1
        BY <3>1
      <4>3. k + 1 # 1 => g[i - 1] = f[k]
        BY <4>2
      <4> QED
        BY <3>1, <4>1, <4>3
    <3>2. CASE i # k + 1
      <4>1. i \in 1..k /\ g[i] = f[i]
        BY <3>2
      <4>2. i # 1 => i - 1 \in 1..(k + 1) /\ i - 1 # k + 1
        BY <4>1
      <4>3. i # 1 => g[i - 1] = f[i - 1]
        BY <4>2
      <4>4. f[i] = IF i = 1 THEN seqs[i] ELSE f[i-1] \o seqs[i]
        BY <2>1, <4>1 DEF IsFlat
      <4> QED
        BY <4>1, <4>3, <4>4
    <3> QED
      BY <3>1, <3>2
  <2>3. g = [i \in 1..(k + 1) |-> IF i = 1 THEN seqs[i] ELSE g[i-1] \o seqs[i]]
    <3>1. g = [i \in 1..(k + 1) |-> g[i]]
      OBVIOUS
    <3> HIDE DEF g
    <3> QED
      BY <2>2, <3>1
  <2> QED
    BY <2>3 DEF IsFlat
<1>3. N = Nat
  <2>1. N \in SUBSET Nat /\ 0 \in N /\ \A k \in N : k + 1 \in N
    <3> HIDE DEF Has
    <3> QED
      BY <1>1, <1>2
  <2> HIDE DEF N
  <2> QED
    BY <2>1, TxNumbers
<1> HIDE DEF Has
<1>4. Has(n)
  BY <1>3
<1> QED
  BY <1>4 DEF Has

\* The sequences up to the k-th are disjoint and injective.
Separate(seqs, k) ==
    /\ \A i \in 1..k : Tx!IsInjective(seqs[i])
    /\ \A i, j \in 1..k : i # j => Tx!ToSet(seqs[i]) \cap Tx!ToSet(seqs[j]) = {}

\* What a solution comes to at each place.
LEMMA TxFlatIs ==
    ASSUME NEW S, NEW n \in Nat, NEW seqs \in [1..n -> Seq(S)], NEW f, IsFlat(f, seqs, n)
    PROVE  \A k \in 1..n :
             /\ f[k] \in Seq(S)
             /\ \A x : x \in Tx!ToSet(f[k]) <=> \E i \in 1..k : x \in Tx!ToSet(seqs[i])
             /\ Separate(seqs, n) => Tx!IsInjective(f[k])
<1> DEFINE Good(k) ==
             /\ f[k] \in Seq(S)
             /\ \A x : x \in Tx!ToSet(f[k]) <=> \E i \in 1..k : x \in Tx!ToSet(seqs[i])
             /\ Separate(seqs, n) => Tx!IsInjective(f[k])
           Has(k) == k \in 1..n => Good(k)
           N == {k \in Nat : Has(k)}
<1>0. \A k \in 1..n : f[k] = IF k = 1 THEN seqs[k] ELSE f[k-1] \o seqs[k]
  BY DEF IsFlat
<1>1. Has(0)
  OBVIOUS
<1>2. ASSUME NEW k \in Nat, Has(k), k + 1 \in 1..n PROVE Good(k + 1)
  <2>0. seqs[k + 1] \in Seq(S)
    BY <1>2
  <2>1. CASE k = 0
    <3>1. f[1] = seqs[1] /\ k + 1 = 1 /\ 1 \in 1..n
      BY <1>0, <1>2, <2>1
    <3>2. \A x : x \in Tx!ToSet(f[1]) <=> \E i \in 1..1 : x \in Tx!ToSet(seqs[i])
      BY <3>1
    <3>3. Separate(seqs, n) => Tx!IsInjective(f[1])
      BY <3>1 DEF Separate
    <3> QED
      BY <2>0, <3>1, <3>2, <3>3
  <2>2. CASE k # 0
    <3>1. k \in 1..n /\ f[k + 1] = f[k] \o seqs[k + 1] /\ Good(k)
      <4>1. k \in 1..n /\ k + 1 # 1 /\ (k + 1) - 1 = k
        BY <1>2, <2>2
      <4>2. f[k + 1] = IF k + 1 = 1 THEN seqs[k + 1] ELSE f[(k + 1) - 1] \o seqs[k + 1]
        BY <1>0, <1>2
      <4>3. Good(k)
        <5> HIDE DEF Good
        <5> QED
          BY <1>2, <4>1
      <4>4. f[k + 1] = f[k] \o seqs[k + 1]
        <5> HIDE DEF Good
        <5> QED
          BY <4>1, <4>2
      <4> HIDE DEF Good
      <4> QED
        BY <4>1, <4>3, <4>4
    <3>2. f[k + 1] \in Seq(S) /\ Tx!ToSet(f[k + 1]) = Tx!ToSet(f[k]) \cup Tx!ToSet(seqs[k + 1])
      BY <2>0, <3>1, TxJoined
    <3>3. \A i : i \in 1..(k + 1) <=> i \in 1..k \/ i = k + 1
      OBVIOUS
    <3>4. \A x : x \in Tx!ToSet(f[k + 1]) <=> \E i \in 1..(k + 1) : x \in Tx!ToSet(seqs[i])
      BY <3>1, <3>2, <3>3
    <3>5. ASSUME Separate(seqs, n) PROVE Tx!IsInjective(f[k + 1])
      <4>1. Tx!IsInjective(f[k]) /\ Tx!IsInjective(seqs[k + 1])
        BY <1>2, <3>1, <3>5 DEF Separate
      <4>2. \A i \in 1..k : Tx!ToSet(seqs[i]) \cap Tx!ToSet(seqs[k + 1]) = {}
        <5>1. \A i \in 1..k : i \in 1..n /\ i # k + 1
          BY <1>2
        <5> QED
          BY <1>2, <3>5, <5>1 DEF Separate
      <4>3. Tx!ToSet(f[k]) \cap Tx!ToSet(seqs[k + 1]) = {}
        BY <3>1, <4>2
      <4> QED
        BY <2>0, <3>1, <4>1, <4>3, TxJoined
    <3> QED
      BY <3>2, <3>4, <3>5
  <2> QED
    BY <2>1, <2>2
<1>3. N = Nat
  <2>1. N \in SUBSET Nat /\ 0 \in N /\ \A k \in N : k + 1 \in N
    <3> HIDE DEF Good
    <3>1. ASSUME NEW k \in Nat, Has(k) PROVE Has(k + 1)
      BY <1>2, <3>1
    <3> HIDE DEF Has
    <3> QED
      BY <1>1, <3>1
  <2> HIDE DEF N
  <2> QED
    BY <2>1, TxNumbers
<1>4. \A k \in 1..n : Good(k)
  <2> HIDE DEF Good
  <2> QED
    BY <1>3
<1> QED
  BY <1>4

\* What FlattenSeq makes of a finite family of sequences.
LEMMA TxFlattened ==
    ASSUME NEW S, NEW n \in Nat, NEW seqs \in [1..n -> Seq(S)]
    PROVE  /\ Tx!FlattenSeq(seqs) \in Seq(S)
           /\ \A x : x \in Tx!ToSet(Tx!FlattenSeq(seqs))
                     <=> \E i \in 1..n : x \in Tx!ToSet(seqs[i])
           /\ Separate(seqs, n) => Tx!IsInjective(Tx!FlattenSeq(seqs))
<1>1. Len(seqs) = n
  OBVIOUS
<1>2. CASE n = 0
  <2>1. seqs = <<>>
    BY <1>2
  <2>2. Tx!FlattenSeq(seqs) = <<>>
    BY <1>1, <1>2, <2>1 DEF Tx!FlattenSeq
  <2> QED
    BY <1>2, <2>2, TxSmallPlaces
<1>3. CASE n # 0
  <2> DEFINE F(f) == f = [i \in 1..Len(seqs) |-> IF i = 1 THEN seqs[i] ELSE f[i-1] \o seqs[i]]
             flatten == CHOOSE f : F(f)
  <2>1. \E f : F(f)
    BY <1>1, TxFlatExists DEF IsFlat
  <2>2. F(flatten)
    <3> HIDE DEF F
    <3> QED
      BY <2>1
  <2>3. IsFlat(flatten, seqs, n)
    <3> HIDE DEF flatten
    <3> QED
      BY <1>1, <2>2 DEF IsFlat
  <2>4. Tx!FlattenSeq(seqs) = flatten[n]
    BY <1>1, <1>3 DEF Tx!FlattenSeq
  <2>5. n \in 1..n
    BY <1>3
  <2> HIDE DEF flatten
  <2>6. /\ flatten[n] \in Seq(S)
        /\ \A x : x \in Tx!ToSet(flatten[n]) <=> \E i \in 1..n : x \in Tx!ToSet(seqs[i])
        /\ Separate(seqs, n) => Tx!IsInjective(flatten[n])
    <3>1. \A k \in 1..n :
             /\ flatten[k] \in Seq(S)
             /\ \A x : x \in Tx!ToSet(flatten[k]) <=> \E i \in 1..k : x \in Tx!ToSet(seqs[i])
             /\ Separate(seqs, n) => Tx!IsInjective(flatten[k])
      BY <2>3, TxFlatIs
    <3> QED
      BY <2>5, <3>1, Zenon
  <2> QED
    BY <2>4, <2>6
<1> QED
  BY <1>2, <1>3

\* An order of the consumers names each of them once.
LEMMA TxOrders ==
    ASSUME IsFiniteSet(Consumers), NEW order \in Tx!SetToSeqs(Consumers)
    PROVE  /\ Len(order) \in Nat /\ order \in [1..Len(order) -> Consumers]
           /\ \A i, j \in 1..Len(order) : i # j => order[i] # order[j]
           /\ \A c \in Consumers : \E i \in 1..Len(order) : order[i] = c
<1> DEFINE n == Cardinality(Consumers)
<1>1. IsFiniteSet(Consumers)
  OBVIOUS
<1>2. n \in Nat
  BY <1>1, FS_CardinalityType
<1>3. /\ order \in [1..n -> Consumers]
      /\ \A i, j \in 1..n : i # j => order[i] # order[j]
  BY DEF Tx!SetToSeqs, Tx!Cardinality, Cardinality
<1> HIDE DEF n
<1>4. Len(order) = n
  BY <1>2, <1>3
<1>5. order \in Injection(1..n, Consumers)
  BY <1>3 DEF Injection, IsInjective
<1>6. Cardinality(1..n) = n
  <2>1. Cardinality(1..n) = IF 1 > n THEN 0 ELSE n - 1 + 1
    BY <1>2, FS_Interval
  <2> QED
    BY <1>2, <2>1
<1>7. order \in Surjection(1..n, Consumers)
  BY <1>1, <1>5, <1>6, FS_Injection DEF n
<1> QED
  BY <1>2, <1>3, <1>4, <1>7 DEF Surjection

\* The messages of the map.
LEMMA TxInMap ==
    \A x : x \in Tx!InMap <=> \E c \in Consumers : x \in Tx!ToSet(rollbackMap[c])
  BY DEF Tx!InMap

\* The same after a step.
LEMMA TxInMapNext ==
    \A x : x \in Tx!InMap' <=> \E c \in Consumers : x \in Tx!ToSet(rollbackMap'[c])
  BY DEF Tx!InMap, Tx!ToSet

\* The redelivery loop has all of the map to do, each message once.
LEMMA TxWalked ==
    ASSUME IsFiniteSet(Consumers), Tx!TypeOK, Tx!RedeliverMessages
    PROVE  /\ todo' \in Seq(Messages) /\ Todo' = Tx!InMap
           /\ Filed /\ ~Wrecked => Tx!IsInjective(todo)'
<1>1. PICK order \in Tx!SetToSeqs(Consumers) :
        todo' = Tx!FlattenSeq([i \in 1..Len(order) |-> rollbackMap[order[i]]])
  BY DEF Tx!RedeliverMessages
<1> DEFINE n == Len(order)
           seqs == [i \in 1..Len(order) |-> rollbackMap[order[i]]]
<1>2. /\ n \in Nat /\ order \in [1..n -> Consumers]
      /\ \A i, j \in 1..n : i # j => order[i] # order[j]
      /\ \A c \in Consumers : \E i \in 1..n : order[i] = c
  BY TxOrders
<1>3. rollbackMap \in [Consumers -> Seq(Messages)]
  BY DEF Tx!TypeOK
<1>4. /\ seqs \in [1..n -> Seq(Messages)]
      /\ \A i \in 1..n : seqs[i] = rollbackMap[order[i]]
  BY <1>2, <1>3
<1>5. todo' = Tx!FlattenSeq(seqs)
  BY <1>1
<1> HIDE DEF n, seqs
<1>6. /\ todo' \in Seq(Messages)
      /\ \A x : x \in Tx!ToSet(todo') <=> \E i \in 1..n : x \in Tx!ToSet(seqs[i])
      /\ Separate(seqs, n) => Tx!IsInjective(todo')
  BY <1>2, <1>4, <1>5, TxFlattened
<1>7. Todo' = Tx!InMap
  <2>1. ASSUME NEW x PROVE x \in Tx!ToSet(todo') <=> x \in Tx!InMap
    <3>1. ASSUME x \in Tx!ToSet(todo') PROVE x \in Tx!InMap
      <4>1. PICK i \in 1..n : x \in Tx!ToSet(seqs[i])
        BY <1>6, <3>1
      <4>2. order[i] \in Consumers /\ x \in Tx!ToSet(rollbackMap[order[i]])
        BY <1>2, <1>4, <4>1
      <4> QED
        BY <4>2, TxInMap
    <3>2. ASSUME x \in Tx!InMap PROVE x \in Tx!ToSet(todo')
      <4>1. PICK c \in Consumers : x \in Tx!ToSet(rollbackMap[c])
        BY <3>2, TxInMap
      <4>2. PICK i \in 1..n : order[i] = c
        BY <1>2
      <4>3. x \in Tx!ToSet(seqs[i])
        BY <1>4, <4>1, <4>2
      <4> QED
        BY <1>6, <4>3
    <3> QED
      BY <3>1, <3>2
  <2>2. Todo' = Tx!ToSet(todo')
    BY DEF Todo, Tx!ToSet
  <2> QED
    BY <2>1, <2>2
<1>8. ASSUME Filed, ~Wrecked PROVE Separate(seqs, n)
  <2>1. \A c \in Consumers : \A m \in Tx!ToSet(rollbackMap[c]) : ConsumerOf[m] = c
    BY <1>8 DEF Filed
  <2>2. \A c \in Consumers : Tx!IsInjective(rollbackMap[c])
    BY <1>8 DEF Filed
  <2>3. \A i \in 1..n : Tx!IsInjective(seqs[i])
    BY <1>2, <1>4, <2>2
  <2>4. ASSUME NEW i \in 1..n, NEW j \in 1..n, i # j
        PROVE  Tx!ToSet(seqs[i]) \cap Tx!ToSet(seqs[j]) = {}
    <3>1. order[i] \in Consumers /\ order[j] \in Consumers /\ order[i] # order[j]
      BY <1>2, <2>4
    <3>2. Tx!ToSet(rollbackMap[order[i]]) \cap Tx!ToSet(rollbackMap[order[j]]) = {}
      BY <2>1, <3>1
    <3> QED
      BY <1>4, <3>2
  <2> QED
    BY <2>3, <2>4 DEF Separate
<1>9. Tx!IsInjective(todo') => Tx!IsInjective(todo)'
  BY DEF Tx!IsInjective
<1> QED
  BY <1>6, <1>7, <1>8, <1>9
-----------------------------------------------------------------------------
(* What the steps do to the line *)

\* What the type says of the places of the line.
LEMMA TxPlaces ==
    ASSUME Tx!TypeOK
    PROVE  /\ messageQueue \in Seq(Messages) /\ dataList \in Seq(Messages)
           /\ unconsumed \in Seq(Messages) /\ todo \in Seq(Messages)
           /\ current # <<>> => current[1] \in Messages /\ current = <<current[1]>>
           /\ thread # "dispatching" => dataList = <<>> /\ current = <<>>
           /\ inListener \in BOOLEAN /\ (inListener => current # <<>>)
  BY DEF Tx!TypeOK, Tx!Executor!TypeOK, Tx!Executor!QueueTypeOK

\* Nothing moves.
LEMMA TxLineKept ==
    ASSUME Line, UNCHANGED <<unconsumed, inListener, current, dataList, messageQueue>>
    PROVE  Line' /\ Ahead' = Ahead
  BY DEF Line, Ahead, Called

\* A message joins the queue.
LEMMA TxQueued ==
    ASSUME Tx!TypeOK, Line, NEW m \in Messages, m \notin Ahead, Tx!Executor!Execute(m),
           UNCHANGED Tx!consumerVars
    PROVE  /\ Line' /\ Ahead' = Ahead \cup {m}
           /\ Tx!Executor!TypeOK' /\ UNCHANGED <<current, unconsumed, inListener>>
<1>1. /\ messageQueue' = Append(messageQueue, m)
      /\ UNCHANGED <<current, dataList, unconsumed, inListener>>
  BY DEF Tx!Executor!Execute, Tx!consumerVars
<1>2. m \notin Tx!ToSet(messageQueue) /\ Tx!IsInjective(messageQueue)
  BY DEF Ahead, Line
<1>3. /\ messageQueue' \in Seq(Messages)
      /\ Tx!ToSet(messageQueue') = Tx!ToSet(messageQueue) \cup {m}
      /\ Tx!IsInjective(messageQueue')
  BY <1>1, <1>2, TxPlaces, TxAppended
<1>4. Ahead' = Ahead \cup {m}
  BY <1>1, <1>3 DEF Ahead, Called
<1>5. Line'
  BY <1>1, <1>3 DEF Line, Ahead, Called
<1>6. Tx!Executor!TypeOK'
  BY <1>1, <1>3 DEF Tx!TypeOK, Tx!Executor!TypeOK, Tx!Executor!Execute, Tx!Executor!Notified,
       Tx!Executor!FlagsTypeOK, Tx!Executor!ThreadsTypeOK, Tx!Executor!QueueTypeOK
<1> QED
  BY <1>1, <1>4, <1>5, <1>6

\* The executor starts, stops, takes a batch, enters a dispatch, or goes on:
\* the messages stay in line.
LEMMA TxExecutorMoves ==
    ASSUME Tx!TypeOK, Line, UNCHANGED Tx!consumerVars,
           \/ Tx!Executor!Start \/ Tx!Executor!Stop(Owner) \/ Tx!Executor!Stop(Tx!TxThread)
           \/ Tx!Executor!TakeBatch \/ Tx!Executor!Dispatch \/ Tx!Executor!EndBatch
           \/ Tx!Executor!Decide \/ Tx!Executor!SpuriousWakeup
    PROVE  /\ Line' /\ Ahead' = Ahead /\ Tx!Executor!TypeOK'
           /\ inListener => current' # <<>>
<1> USE TxPlaces
<1>0. Tx!Executor!FlagsTypeOK /\ Tx!Executor!ThreadsTypeOK /\ Tx!Executor!QueueTypeOK
  BY DEF Tx!TypeOK, Tx!Executor!TypeOK
<1>1. CASE \/ Tx!Executor!Start \/ Tx!Executor!Stop(Owner) \/ Tx!Executor!Stop(Tx!TxThread)
           \/ Tx!Executor!EndBatch \/ Tx!Executor!Decide \/ Tx!Executor!SpuriousWakeup
  <2>1. UNCHANGED <<unconsumed, inListener, current, dataList, messageQueue>>
    BY <1>1 DEF Tx!Executor!Start, Tx!Executor!Stop, Tx!Executor!EndBatch, Tx!Executor!Decide,
       Tx!Executor!SpuriousWakeup, Tx!consumerVars
  <2>2. Tx!Executor!FlagsTypeOK'
    BY <1>0, <1>1 DEF Tx!Executor!Start, Tx!Executor!Stop, Tx!Executor!EndBatch,
       Tx!Executor!Decide,
       Tx!Executor!SpuriousWakeup, Tx!Executor!FlagsTypeOK
  <2>3. Tx!Executor!ThreadsTypeOK'
    BY <1>0, <1>1 DEF Tx!Executor!Start, Tx!Executor!Stop, Tx!Executor!EndBatch,
       Tx!Executor!Decide,
       Tx!Executor!SpuriousWakeup, Tx!Executor!Notified, Tx!Executor!ThreadsTypeOK
  <2>4. thread' # "dispatching" => dataList = <<>> /\ current = <<>>
    BY <1>1 DEF Tx!Executor!Start, Tx!Executor!Stop, Tx!Executor!EndBatch, Tx!Executor!Decide,
       Tx!Executor!SpuriousWakeup, Tx!Executor!Notified
  <2>5. Tx!Executor!QueueTypeOK'
    BY <1>0, <2>1, <2>4 DEF Tx!Executor!QueueTypeOK
  <2> QED
    BY <2>1, <2>2, <2>3, <2>5, TxLineKept DEF Tx!Executor!TypeOK
<1>2. CASE Tx!Executor!TakeBatch
  <2>1. dataList = <<>> /\ current = <<>> /\ Tx!ToSet(dataList) = {}
    BY <1>2, TxSmallPlaces DEF Tx!Executor!TakeBatch
  <2>2. UNCHANGED <<unconsumed, inListener, current, started, closed, closer, quiet>>
    BY <1>2 DEF Tx!Executor!TakeBatch, Tx!consumerVars
  <2>3. CASE dataList' = messageQueue /\ messageQueue' = <<>> /\ thread' = "dispatching"
    <3>1. Tx!ToSet(dataList') = Tx!ToSet(messageQueue) /\ Tx!ToSet(messageQueue') = {}
          /\ Tx!IsInjective(messageQueue')
      BY <2>3, TxSmallPlaces
    <3>2. Line' /\ Ahead' = Ahead
      BY <2>1, <2>2, <2>3, <3>1 DEF Line, Ahead, Called
    <3>3. Tx!Executor!TypeOK'
      BY <1>0, <2>1, <2>2, <2>3 DEF Tx!Executor!TypeOK, Tx!Executor!FlagsTypeOK,
         Tx!Executor!ThreadsTypeOK, Tx!Executor!QueueTypeOK
    <3> QED
      BY <2>2, <3>2, <3>3
  <2>4. CASE UNCHANGED <<dataList, messageQueue>> /\ thread' = "deciding"
    <3>3. Tx!Executor!TypeOK'
      BY <1>0, <2>1, <2>2, <2>4 DEF Tx!Executor!TypeOK, Tx!Executor!FlagsTypeOK,
         Tx!Executor!ThreadsTypeOK, Tx!Executor!QueueTypeOK
    <3> QED
      BY <2>2, <2>4, <3>3, TxLineKept
  <2> QED
    BY <1>2, <2>3, <2>4 DEF Tx!Executor!TakeBatch
<1>3. CASE Tx!Executor!Dispatch
  <2>1. /\ current = <<>> /\ dataList # <<>> /\ thread = "dispatching"
        /\ current' = <<Head(dataList)>> /\ dataList' = Tail(dataList)
        /\ UNCHANGED <<unconsumed, inListener, messageQueue, thread, started, closed, closer,
                       quiet>>
    BY <1>3 DEF Tx!Executor!Dispatch, Tx!consumerVars
  <2>2. /\ Head(dataList) \in Messages /\ dataList' \in Seq(Messages)
        /\ Tx!ToSet(dataList) = {Head(dataList)} \cup Tx!ToSet(dataList')
        /\ Tx!IsInjective(dataList) =>
             Tx!IsInjective(dataList') /\ Head(dataList) \notin Tx!ToSet(dataList')
    BY <2>1, TxTaken
  <2>3. /\ Tx!ToSet(current) = {} /\ Tx!ToSet(current') = {Head(dataList)} /\ ~inListener
        /\ current' # <<>>
    BY <2>1, TxSmallPlaces
  <2>4. Called = {} /\ Called' = {Head(dataList)}
    BY <2>1, <2>3 DEF Called
  <2>5. Line'
    BY <2>1, <2>2, <2>4 DEF Line
  <2>6. Ahead' = Ahead
    BY <2>1, <2>2, <2>4 DEF Ahead
  <2>7. Tx!Executor!TypeOK'
    BY <1>0, <2>1, <2>2 DEF Tx!Executor!TypeOK, Tx!Executor!FlagsTypeOK,
       Tx!Executor!ThreadsTypeOK, Tx!Executor!QueueTypeOK
  <2> QED
    BY <2>3, <2>5, <2>6, <2>7
<1> QED
  BY <1>1, <1>2, <1>3

\* A dispatch returns: its message leaves the line, if it was in it.
LEMMA TxDispatched ==
    ASSUME Tx!TypeOK, Line, Tx!Executor!DispatchReturns, UNCHANGED unconsumed, inListener' = FALSE
    PROVE  /\ Line' /\ Ahead' = Ahead \ Called /\ Tx!Executor!TypeOK'
           /\ ~inListener => Called = {current[1]}
<1>0. Tx!Executor!FlagsTypeOK /\ Tx!Executor!ThreadsTypeOK /\ Tx!Executor!QueueTypeOK
  BY DEF Tx!TypeOK, Tx!Executor!TypeOK
<1>1. /\ current # <<>> /\ current' = <<>>
      /\ UNCHANGED <<started, closed, messageQueue, thread, dataList, closer, quiet>>
  BY DEF Tx!Executor!DispatchReturns
<1>2. Tx!ToSet(current') = {} /\ Tx!ToSet(current) = {current[1]}
  BY <1>1, TxPlaces, TxSmallPlaces
<1>3. Called' = {} /\ (~inListener => Called = {current[1]})
  BY <1>2 DEF Called
<1>4. Line'
  BY <1>1, <1>3 DEF Line
<1>5. Ahead' = Ahead \ Called
  BY <1>1, <1>3 DEF Line, Ahead
<1>6. Tx!Executor!TypeOK'
  BY <1>0, <1>1 DEF Tx!Executor!TypeOK, Tx!Executor!FlagsTypeOK,
     Tx!Executor!ThreadsTypeOK, Tx!Executor!QueueTypeOK
<1> QED
  BY <1>3, <1>4, <1>5, <1>6

\* The listener is called: its message leaves the line.
LEMMA TxListenerCalled ==
    ASSUME Tx!TypeOK, Line, Tx!OnMessage
    PROVE  /\ Line' /\ Ahead' = Ahead \ {current[1]} /\ current[1] \in Ahead
           /\ Tx!ToSet(current) = {current[1]} /\ current[1] \in Messages
<1>1. /\ current # <<>> /\ ~inListener /\ inListener'
      /\ UNCHANGED <<unconsumed, messageQueue, dataList>>
  BY DEF Tx!OnMessage, Tx!executorVars
<1>2. Tx!ToSet(current) = {current[1]} /\ current[1] \in Messages
  BY <1>1, TxPlaces, TxSmallPlaces
<1>3. Called' = {} /\ Called = {current[1]}
  BY <1>1, <1>2 DEF Called
<1>4. Line'
  BY <1>1, <1>3 DEF Line
<1>5. Ahead' = Ahead \ {current[1]} /\ current[1] \in Ahead
  BY <1>1, <1>3 DEF Line, Ahead
<1> QED
  BY <1>2, <1>4, <1>5

\* It waits for a receive.
LEMMA TxPushed ==
    ASSUME Tx!TypeOK, Line, Calling, Tx!PushUnconsumed
    PROVE  /\ Line' /\ Ahead' = Ahead /\ Tx!Executor!TypeOK'
           /\ unconsumed' \in Seq(Messages) /\ ~inListener
<1>0. Tx!Executor!FlagsTypeOK /\ Tx!Executor!ThreadsTypeOK /\ Tx!Executor!QueueTypeOK
  BY DEF Tx!TypeOK, Tx!Executor!TypeOK
<1>1. /\ current # <<>> /\ current' = <<>> /\ ~inListener /\ inListener' = inListener
      /\ unconsumed' = unconsumed \o current
      /\ UNCHANGED <<started, closed, messageQueue, thread, dataList, closer, quiet>>
  BY DEF Tx!Executor!DispatchReturns, Tx!PushUnconsumed, Calling
<1>2. /\ Tx!ToSet(current') = {} /\ Tx!ToSet(current) = {current[1]} /\ Tx!IsInjective(current)
      /\ current \in Seq(Messages)
  <2>1. current = <<current[1]>> /\ current[1] \in Messages
    BY <1>1, TxPlaces
  <2>2. \A m \in Messages : <<m>> \in Seq(Messages)
    OBVIOUS
  <2>3. Tx!ToSet(<<current[1]>>) = {current[1]} /\ Tx!IsInjective(<<current[1]>>)
    BY TxSmallPlaces
  <2> QED
    BY <1>1, <2>1, <2>2, <2>3, TxSmallPlaces
<1>3. Called' = {} /\ Called = {current[1]} /\ Called = Tx!ToSet(current)
  BY <1>1, <1>2 DEF Called
<1>7. /\ unconsumed' \in Seq(Messages) /\ Tx!ToSet(unconsumed') = Tx!ToSet(unconsumed) \cup Called
      /\ Tx!IsInjective(unconsumed')
  BY <1>1, <1>2, <1>3, TxPlaces, TxJoined DEF Line
<1>4. Line'
  BY <1>1, <1>3, <1>7 DEF Line
<1>5. Ahead' = Ahead
  BY <1>1, <1>3, <1>7 DEF Line, Ahead
<1>6. Tx!Executor!TypeOK'
  BY <1>0, <1>1 DEF Tx!Executor!TypeOK, Tx!Executor!FlagsTypeOK,
     Tx!Executor!ThreadsTypeOK, Tx!Executor!QueueTypeOK
<1> QED
  BY <1>1, <1>4, <1>5, <1>6, <1>7

\* It is received.
LEMMA TxReceived ==
    ASSUME Tx!TypeOK, Line, unconsumed # <<>>, unconsumed' = Tail(unconsumed),
           UNCHANGED <<Tx!executorVars, inListener>>
    PROVE  /\ Line' /\ Ahead' = Ahead \ {Head(unconsumed)} /\ Head(unconsumed) \in Ahead
           /\ Head(unconsumed) \in Messages /\ unconsumed' \in Seq(Messages)
<1>1. UNCHANGED <<inListener, current, dataList, messageQueue>>
  BY DEF Tx!executorVars
<1>2. /\ Head(unconsumed) \in Messages /\ unconsumed' \in Seq(Messages)
      /\ Tx!ToSet(unconsumed) = {Head(unconsumed)} \cup Tx!ToSet(unconsumed')
      /\ Tx!IsInjective(unconsumed') /\ Head(unconsumed) \notin Tx!ToSet(unconsumed')
  BY TxPlaces, TxTaken DEF Line
<1>3. Called' = Called
  BY <1>1 DEF Called
<1>4. Line'
  BY <1>1, <1>2, <1>3 DEF Line
<1>5. Ahead' = Ahead \ {Head(unconsumed)} /\ Head(unconsumed) \in Ahead
  BY <1>1, <1>2, <1>3 DEF Line, Ahead
<1> QED
  BY <1>2, <1>4, <1>5

\* The map gets the clone of a message.
LEMMA TxAdded ==
    ASSUME Tx!TypeOK, NEW t, NEW m \in Messages, Tx!AddToTransaction(t, m)
    PROVE  /\ rollbackMap' \in [Consumers -> Seq(Messages)]
           /\ Tx!InMap' = Tx!InMap \cup {m}
           /\ Filed => \A c \in Consumers : \A x \in Tx!ToSet(rollbackMap'[c]) : ConsumerOf[x] = c
           /\ m \notin Tx!InMap /\ (\A c \in Consumers : Tx!IsInjective(rollbackMap[c]))
                => \A c \in Consumers : Tx!IsInjective(rollbackMap'[c])
<1> DEFINE d == ConsumerOf[m]
<1>1. d \in Consumers
  BY ConsumerOfAssumption
<1>2. rollbackMap \in [Consumers -> Seq(Messages)]
  BY DEF Tx!TypeOK
<1>3. /\ rollbackMap' \in [Consumers -> Seq(Messages)]
      /\ rollbackMap'[d] = Append(rollbackMap[d], m)
      /\ \A c \in Consumers : c # d => rollbackMap'[c] = rollbackMap[c]
  <2>1. rollbackMap' = [rollbackMap EXCEPT ![d] = Append(@, m)]
    BY DEF Tx!AddToTransaction
  <2>2. Append(rollbackMap[d], m) \in Seq(Messages)
    BY <1>1, <1>2
  <2> HIDE DEF d
  <2> QED
    BY <1>1, <1>2, <2>1, <2>2
<1>4. /\ Tx!ToSet(rollbackMap'[d]) = Tx!ToSet(rollbackMap[d]) \cup {m}
      /\ Tx!IsInjective(rollbackMap[d]) /\ m \notin Tx!ToSet(rollbackMap[d])
           => Tx!IsInjective(rollbackMap'[d])
  <2>1. rollbackMap[d] \in Seq(Messages)
    BY <1>1, <1>2
  <2> HIDE DEF d
  <2> QED
    BY <1>3, <2>1, TxAppended
<1>5. Tx!InMap' = Tx!InMap \cup {m}
  <2> HIDE DEF d
  <2>1. ASSUME NEW x PROVE x \in Tx!InMap' <=> x \in Tx!InMap \cup {m}
    <3>1. ASSUME x \in Tx!InMap' PROVE x \in Tx!InMap \cup {m}
      <4>1. PICK c \in Consumers : x \in Tx!ToSet(rollbackMap'[c])
        BY <3>1, TxInMapNext
      <4> QED
        BY <1>3, <1>4, <4>1, TxInMap
    <3>2. ASSUME x \in Tx!InMap PROVE x \in Tx!InMap'
      <4>1. PICK c \in Consumers : x \in Tx!ToSet(rollbackMap[c])
        BY <3>2, TxInMap
      <4>2. x \in Tx!ToSet(rollbackMap'[c])
        BY <1>3, <1>4, <4>1
      <4> QED
        BY <4>2, TxInMapNext
    <3>3. m \in Tx!InMap'
      BY <1>1, <1>4, TxInMapNext
    <3> QED
      BY <3>1, <3>2, <3>3
  <2> QED
    BY <2>1
<1>6. ASSUME Filed, NEW c \in Consumers, NEW x \in Tx!ToSet(rollbackMap'[c])
      PROVE  ConsumerOf[x] = c
  BY <1>3, <1>4, <1>6 DEF Filed
<1>7. ASSUME m \notin Tx!InMap, \A c \in Consumers : Tx!IsInjective(rollbackMap[c]),
             NEW c \in Consumers
      PROVE  Tx!IsInjective(rollbackMap'[c])
  <2>1. m \notin Tx!ToSet(rollbackMap[d])
    BY <1>1, <1>7, TxInMap
  <2> QED
    BY <1>1, <1>3, <1>4, <1>7, <2>1
<1> QED
  BY <1>3, <1>5, <1>6, <1>7

\* The map is cleared.
LEMMA TxCleared ==
    ASSUME rollbackMap' = [c \in Consumers |-> <<>>]
    PROVE  /\ rollbackMap' \in [Consumers -> Seq(Messages)]
           /\ Tx!InMap' = {} /\ Filed'
<1>1. \A c \in Consumers : rollbackMap'[c] = <<>>
  OBVIOUS
<1>2. \A c \in Consumers : Tx!ToSet(rollbackMap'[c]) = {} /\ Tx!IsInjective(rollbackMap'[c])
  BY <1>1, TxSmallPlaces
<1>3. Tx!InMap' = {}
  BY <1>2, TxInMapNext
<1>4. Filed'
  BY <1>2 DEF Filed
<1> QED
  BY <1>3, <1>4

\* The map stays.
LEMMA TxMapKept ==
    ASSUME UNCHANGED rollbackMap
    PROVE  Tx!InMap' = Tx!InMap /\ (Filed /\ (Wrecked => Wrecked') => Filed')
<1>1. Tx!InMap' = Tx!InMap
  BY DEF Tx!InMap
<1>2. ASSUME Filed, Wrecked => Wrecked' PROVE Filed'
  BY <1>2 DEF Filed
<1> QED
  BY <1>1, <1>2
-----------------------------------------------------------------------------
(* Steps that move no message *)

\* The transaction stays where it is, and the messages too; the connection
\* may break.
LEMMA TxUnmoved ==
    ASSUME TxInv, Tx!TypeOK', Line', Ahead' = Ahead, Calling',
           UNCHANGED <<Tx!txVars, sent, acked, committed, Tx!historyVars>>, broken => broken'
    PROVE  TxInv'
<1> USE DEF TxInv
<1>1. /\ UNCHANGED <<rollbackMap, redeliveryCount, transactionInfo, stage, todo, sent, acked,
                     committed, inTx, dropped, expired>>
  BY DEF Tx!txVars, Tx!historyVars
<1>2. Wrecked => Wrecked'
  BY <1>1 DEF Wrecked
<1>3. Tx!InMap' = Tx!InMap /\ Filed'
  BY <1>1, <1>2, TxMapKept
<1>4. Todo' = Todo /\ (Tx!IsInjective(todo) => Tx!IsInjective(todo)')
  BY <1>1 DEF Todo, Tx!IsInjective
<1>5. Live'
  BY <1>1 DEF Live
<1>6. Apart'
  BY <1>1, <1>2, <1>3, <1>4 DEF Apart
<1>7. Tracked'
  BY <1>1, <1>3, <1>4 DEF Tracked
<1>8. Settled'
  BY <1>1, <1>3, <1>4 DEF Settled, RedeliveryStages
<1>9. Given'
  BY <1>1, <1>3 DEF Given, RedeliveryStages
<1>10. Counts'
  BY <1>1, <1>3, <1>4 DEF Counts, RedeliveryStages
<1> QED
  BY <1>3, <1>5, <1>6, <1>7, <1>8, <1>9, <1>10

\* A commit or a rollback goes on, or is left.
LEMMA TxStaged ==
    ASSUME TxInv, Tx!TypeOK', Line', Ahead' = Ahead, Calling', Live',
           UNCHANGED <<rollbackMap, redeliveryCount, todo, Tx!brokerVars, Tx!historyVars>>,
           stage \notin {"undefined", "clearing", "redelivering"},
           stage' \in {"idle", "undefined", "acking", "rollingBack", "commitStart",
                       "rollbackStart", "redeliverLock"},
           stage' \in RedeliveryStages => stage \in RedeliveryStages,
           stage' = "commitStart" => stage = "commitBegin"
    PROVE  TxInv'
<1> USE DEF TxInv
<1>1. /\ UNCHANGED <<rollbackMap, redeliveryCount, todo, sent, acked, committed, broken,
                     inTx, dropped, expired>>
  BY DEF Tx!brokerVars, Tx!historyVars
<1>2. ~Wrecked
  BY DEF Wrecked
<1>3. Tx!InMap' = Tx!InMap /\ Filed'
  BY <1>1, <1>2, TxMapKept
<1>6. Apart'
  BY <1>1, <1>2, <1>3 DEF Apart
<1>7. Tracked'
  BY <1>1, <1>3 DEF Tracked
<1>8. Settled'
  BY <1>1, <1>3 DEF Settled, RedeliveryStages
<1>9. Given'
  BY <1>1, <1>3 DEF Given, RedeliveryStages
<1>10. Counts'
  BY <1>1, <1>3 DEF Counts, RedeliveryStages
<1> QED
  BY <1>3, <1>6, <1>7, <1>8, <1>9, <1>10

\* The connection breaks, or its owner starts or stops it.
LEMMA TxOwnerSteps ==
    ASSUME TxInv,
           \/ Tx!ConnectionBreaks \/ Tx!ConnectionStart
           \/ Tx!ConnectionStop \/ Tx!SessionStopped
    PROVE  TxInv'
<1> USE DEF TxInv, Tx!executorVars, Tx!sessionVars, Tx!consumerVars, Tx!brokerVars, Tx!txVars,
            Tx!historyVars
<1>1. CASE Tx!ConnectionBreaks \/ Tx!ConnectionStop
  <2>1. UNCHANGED <<Tx!executorVars, Tx!consumerVars, Tx!txVars, sent, acked, committed,
                    Tx!historyVars,
                    usage>> /\ (broken => broken')
    BY <1>1 DEF Tx!ConnectionBreaks, Tx!ConnectionStop
  <2>2. Line' /\ Ahead' = Ahead
    BY <2>1, TxLineKept
  <2>3. Calling'
    BY <2>1 DEF Calling
  <2>4. Tx!Executor!TypeOK'
    BY <2>1 DEF Tx!TypeOK, Tx!Executor!TypeOK, Tx!Executor!FlagsTypeOK,
       Tx!Executor!ThreadsTypeOK,
       Tx!Executor!QueueTypeOK
  <2>5. broken' \in BOOLEAN /\ connStarted' \in BOOLEAN /\ stopping' \in BOOLEAN
    BY <1>1 DEF Tx!ConnectionBreaks, Tx!ConnectionStop, Tx!TypeOK
  <2>6. Tx!TypeOK'
    BY <2>1, <2>4, <2>5 DEF Tx!TypeOK
  <2> HIDE DEF TxInv
  <2> QED
    BY <2>1, <2>2, <2>3, <2>6, TxUnmoved
<1>2. CASE Tx!ConnectionStart \/ Tx!SessionStopped
  <2>1. /\ UNCHANGED <<Tx!consumerVars, Tx!txVars, Tx!brokerVars, Tx!historyVars, usage>>
        /\ Tx!Executor!Start \/ Tx!Executor!Stop(Owner)
    BY <1>2 DEF Tx!ConnectionStart, Tx!SessionStopped
  <2>2. Line' /\ Ahead' = Ahead /\ Tx!Executor!TypeOK' /\ (inListener => current' # <<>>)
    BY <2>1, TxExecutorMoves
  <2>3. Calling'
    BY <2>1 DEF Calling
  <2>5. connStarted' \in BOOLEAN /\ stopping' \in BOOLEAN
    BY <1>2 DEF Tx!ConnectionStart, Tx!SessionStopped, Tx!TypeOK
  <2>6. Tx!TypeOK'
    BY <2>1, <2>2, <2>5 DEF Tx!TypeOK
  <2> HIDE DEF TxInv
  <2> QED
    BY <2>1, <2>2, <2>3, <2>6, TxUnmoved
<1> QED
  BY <1>1, <1>2

\* The thread of the executor goes on, and dispatches return.
LEMMA TxExecutorSteps ==
    ASSUME TxInv, Tx!ExecutorStep \/ Tx!SpuriousWakeup \/ Tx!OnMessageReturns \/ Tx!PushUnconsumed
    PROVE  TxInv'
<1> USE DEF TxInv, Tx!sessionVars, Tx!consumerVars, Tx!brokerVars, Tx!txVars, Tx!historyVars
<1>1. CASE Tx!ExecutorStep \/ Tx!SpuriousWakeup
  <2>1. /\ UNCHANGED <<Tx!sessionVars, Tx!consumerVars, Tx!txVars, Tx!brokerVars, Tx!historyVars>>
        /\ \/ Tx!Executor!TakeBatch \/ Tx!Executor!Dispatch \/ Tx!Executor!EndBatch
           \/ Tx!Executor!Decide \/ Tx!Executor!SpuriousWakeup
    BY <1>1 DEF Tx!ExecutorStep, Tx!SpuriousWakeup
  <2>2. Line' /\ Ahead' = Ahead /\ Tx!Executor!TypeOK' /\ (inListener => current' # <<>>)
    BY <2>1, TxExecutorMoves
  <2>3. Calling'
    BY <2>1 DEF Calling
  <2>6. Tx!TypeOK'
    BY <2>1, <2>2 DEF Tx!TypeOK
  <2> HIDE DEF TxInv
  <2> QED
    BY <2>1, <2>2, <2>3, <2>6, TxUnmoved
<1>2. CASE Tx!OnMessageReturns
  <2>1. /\ inListener /\ ~inListener' /\ Tx!Executor!DispatchReturns /\ inListener' = FALSE
        /\ UNCHANGED <<Tx!sessionVars, unconsumed, Tx!txVars, Tx!brokerVars, Tx!historyVars>>
        /\ Tx!TxThread = Dispatcher => stage \in {"idle", "undefined"}
    BY <1>2 DEF Tx!OnMessageReturns
  <2>2. Line' /\ Ahead' = Ahead \ Called /\ Tx!Executor!TypeOK'
    BY <2>1, TxDispatched
  <2>3. Ahead' = Ahead
    BY <2>1, <2>2 DEF Called
  <2>4. Calling'
    BY <2>1 DEF Calling, Tx!TxThread
  <2>6. Tx!TypeOK'
    BY <2>1, <2>2 DEF Tx!TypeOK
  <2> HIDE DEF TxInv
  <2> QED
    BY <2>1, <2>2, <2>3, <2>4, <2>6, TxUnmoved
<1>3. CASE Tx!PushUnconsumed
  <2>1. /\ UNCHANGED <<Tx!sessionVars, inListener, Tx!txVars, Tx!brokerVars, Tx!historyVars>>
        /\ usage = "receive"
    BY <1>3 DEF Tx!PushUnconsumed
  <2>2. Line' /\ Ahead' = Ahead /\ Tx!Executor!TypeOK'
        /\ unconsumed' \in Seq(Messages) /\ ~inListener
    BY <1>3, TxPushed
  <2>4. Calling'
    BY <2>1 DEF Calling
  <2>6. Tx!TypeOK'
    BY <2>1, <2>2 DEF Tx!TypeOK
  <2> HIDE DEF TxInv
  <2> QED
    BY <2>1, <2>2, <2>4, <2>6, TxUnmoved
<1> QED
  BY <1>1, <1>2, <1>3

\* Commit and rollback begin, restart the session, and end.
LEMMA TxSessionCalls ==
    ASSUME TxInv, Tx!Commit \/ Tx!Rollback \/ Tx!CommitReturns \/ Tx!RollbackStart
    PROVE  TxInv'
<1> USE DEF TxInv, Tx!sessionVars, Tx!consumerVars, Tx!brokerVars, Tx!historyVars
<1>1. /\ UNCHANGED <<Tx!sessionVars, Tx!consumerVars, rollbackMap, redeliveryCount,
                     transactionInfo, todo, Tx!brokerVars, Tx!historyVars>>
      /\ Tx!Executor!Start \/ Tx!Executor!Stop(Tx!TxThread)
      /\ \/ stage = "idle" /\ stage' \in {"acking", "rollingBack"} /\ Tx!MayCall
         \/ stage = "commitStart" /\ stage' = "idle"
         \/ stage = "rollbackStart" /\ stage' = "redeliverLock"
  BY DEF Tx!Commit, Tx!Rollback, Tx!CommitReturns, Tx!RollbackStart, Tx!Returns
<1>2. Line' /\ Ahead' = Ahead /\ Tx!Executor!TypeOK' /\ (inListener => current' # <<>>)
  BY <1>1, TxExecutorMoves
<1>3. Calling'
  BY <1>1 DEF Calling, Tx!MayCall, Tx!TxThread
<1>4. Live'
  BY <1>1 DEF Live
<1>5. Tx!TypeOK'
  BY <1>1, <1>2 DEF Tx!TypeOK, Tx!Stages
<1> HIDE DEF TxInv
<1> QED
  BY <1>1, <1>2, <1>3, <1>4, <1>5, TxStaged DEF RedeliveryStages

\* A call to the connector fails, or begins the next transaction.
LEMMA TxConnectorCalls ==
    ASSUME TxInv,
           \/ Tx!AckMessagesDangling \/ Tx!ConnectorCommitFails
           \/ Tx!ConnectorRollbackFails \/ Tx!StartTransaction \/ Tx!StartTransactionThrows
    PROVE  TxInv'
<1> USE DEF TxInv, Tx!executorVars, Tx!sessionVars, Tx!consumerVars, Tx!brokerVars, Tx!historyVars
<1>1. /\ UNCHANGED <<Tx!executorVars, Tx!sessionVars, Tx!consumerVars, rollbackMap,
                     redeliveryCount,
                     todo, Tx!brokerVars, Tx!historyVars>>
      /\ \/ /\ stage \in {"acking", "committing", "rollingBack", "commitBegin", "rollbackBegin"}
            /\ stage' \in {"idle", "undefined"} /\ UNCHANGED transactionInfo
         \/ stage = "commitBegin" /\ stage' = "commitStart" /\ transactionInfo' = "live"
         \/ stage = "rollbackBegin" /\ stage' = "rollbackStart" /\ transactionInfo' = "live"
  BY DEF Tx!AckMessagesDangling, Tx!ConnectorCommitFails, Tx!ConnectorRollbackFails,
     Tx!StartTransaction,
         Tx!StartTransactionThrows, Tx!ConnectorThrows, Tx!UsesDangling, Tx!Throws
<1>2. Line' /\ Ahead' = Ahead
  BY <1>1, TxLineKept
<1>3. Calling'
  BY <1>1 DEF Calling
<1>4. Live'
  BY <1>1 DEF Live
<1>6. Tx!Executor!TypeOK'
  BY <1>1 DEF Tx!TypeOK, Tx!Executor!TypeOK, Tx!Executor!FlagsTypeOK, Tx!Executor!ThreadsTypeOK,
     Tx!Executor!QueueTypeOK
<1>5. Tx!TypeOK'
  BY <1>1, <1>6 DEF Tx!TypeOK, Tx!Stages
<1> HIDE DEF TxInv
<1> QED
  BY <1>1, <1>2, <1>3, <1>4, <1>5, TxStaged DEF RedeliveryStages
-----------------------------------------------------------------------------
(* Steps that move a message *)

\* An executor that does not move keeps its type.
LEMMA TxExecutorKept == Tx!Executor!TypeOK /\ UNCHANGED Tx!executorVars => Tx!Executor!TypeOK'
  BY DEF Tx!executorVars, Tx!Executor!TypeOK, Tx!Executor!FlagsTypeOK,
     Tx!Executor!ThreadsTypeOK,
     Tx!Executor!QueueTypeOK

\* A new message joins the line.
LEMMA TxArrives ==
    ASSUME TxInv, NEW m \in Messages, Tx!Arrive(m)
    PROVE  TxInv'
<1> USE DEF TxInv
<1>1. /\ ~broken /\ m \notin sent /\ sent' = sent \cup {m} /\ Tx!Executor!Execute(m)
      /\ UNCHANGED <<usage, connStarted, stopping, Tx!consumerVars, unconsumed, inListener,
                     rollbackMap, redeliveryCount, transactionInfo, stage, todo, acked,
                     committed, broken, inTx, dropped, expired>>
  BY DEF Tx!Arrive, Tx!sessionVars, Tx!consumerVars, Tx!txVars, Tx!historyVars
<1>2. m \notin Ahead /\ m \notin Tx!InMap
  BY <1>1 DEF Apart
<1>3. /\ Line' /\ Ahead' = Ahead \cup {m}
      /\ Tx!Executor!TypeOK' /\ UNCHANGED <<current, unconsumed, inListener>>
  BY <1>1, <1>2, TxQueued
<1>4. Tx!InMap' = Tx!InMap /\ Filed'
  BY <1>1, TxMapKept DEF Wrecked
<1>5. Todo' = Todo /\ (Tx!IsInjective(todo) => Tx!IsInjective(todo)')
  BY <1>1 DEF Todo, Tx!IsInjective
<1>6. Tx!TypeOK'
  BY <1>1, <1>3 DEF Tx!TypeOK
<1>7. Calling' /\ Live'
  BY <1>1 DEF Calling, Live
<1>8. Apart'
  <2>1. stage = "redelivering" => m \notin Todo
    BY <1>2 DEF Apart
  <2> QED
    BY <1>1, <1>2, <1>3, <1>4, <1>5, <2>1 DEF Apart, Wrecked
<1>9. Tracked'
  BY <1>1, <1>3, <1>4, <1>5 DEF Tracked
<1>10. Settled'
  <2>1. m \notin committed /\ m \notin acked
    BY <1>1 DEF Tx!TypeOK
  <2> QED
    BY <1>1, <1>3, <1>4, <1>5, <2>1 DEF Settled, RedeliveryStages
<1>11. Given'
  BY <1>1, <1>4 DEF Given, RedeliveryStages
<1>12. Counts'
  BY <1>1, <1>3, <1>4, <1>5 DEF Counts, RedeliveryStages
<1> QED
  BY <1>3, <1>4, <1>6, <1>7, <1>8, <1>9, <1>10, <1>11, <1>12

\* A message expires in the executor: it leaves the line.
LEMMA TxExpires ==
    ASSUME TxInv, Tx!DispatchExpired
    PROVE  TxInv'
<1> USE DEF TxInv
<1> DEFINE m == current[1]
<1>1. /\ current # <<>> /\ ~inListener /\ inListener' = inListener /\ Tx!Executor!DispatchReturns
      /\ expired' = expired \cup {m}
      /\ IF transactionInfo = "dangling" THEN stage' = "undefined" /\ UNCHANGED acked
         ELSE acked' = (IF broken THEN acked ELSE acked \cup {m}) /\ UNCHANGED stage
      /\ UNCHANGED <<usage, connStarted, stopping, unconsumed, rollbackMap, redeliveryCount,
                     transactionInfo, todo, sent, committed, broken, inTx, dropped>>
  BY DEF Tx!DispatchExpired, Tx!AcknowledgeExpired, Tx!sessionVars, Tx!consumerVars
<1>2. inListener \in BOOLEAN /\ inListener' = FALSE
  BY <1>1 DEF Tx!TypeOK
<1>3. /\ Line' /\ Ahead' = Ahead \ {m} /\ Tx!Executor!TypeOK' /\ m \in Ahead
  <2>1. /\ Line' /\ Ahead' = Ahead \ Called /\ Tx!Executor!TypeOK'
        /\ Called = {m}
    BY <1>1, <1>2, TxDispatched
  <2> QED
    BY <2>1 DEF Ahead
<1> HIDE DEF m
<1>4. Tx!InMap' = Tx!InMap /\ Filed'
  BY <1>1, TxMapKept DEF Wrecked
<1>5. Todo' = Todo /\ (Tx!IsInjective(todo) => Tx!IsInjective(todo)')
  BY <1>1 DEF Todo, Tx!IsInjective
<1>13. m \in sent /\ (stage' = stage \/ stage' = "undefined")
       /\ (stage' # stage => transactionInfo = "dangling")
  BY <1>1, <1>3 DEF Apart
<1>6. Tx!TypeOK'
  <2>1. acked' \subseteq sent /\ expired' \subseteq sent /\ stage' \in Tx!Stages
    BY <1>1, <1>13 DEF Tx!TypeOK, Tx!Stages
  <2> QED
    BY <1>1, <1>2, <1>3, <2>1 DEF Tx!TypeOK
<1>7. Calling' /\ Live'
  BY <1>1, <1>13 DEF Calling, Live
<1>14. stage' # stage => stage \notin {"redelivering", "clearing"}
  BY <1>13 DEF Live
<1>8. Apart'
  BY <1>1, <1>3, <1>4, <1>5, <1>13, <1>14 DEF Apart, Wrecked
<1>9. Tracked'
  BY <1>1, <1>3, <1>4, <1>5, <1>13, <1>14 DEF Tracked
<1>10. Settled'
  <2>1. acked' \subseteq acked \cup {m} /\ acked \subseteq acked'
    BY <1>1
  <2>2. stage \in RedeliveryStages => m \notin Tx!InMap
    BY <1>3 DEF Apart, Wrecked, RedeliveryStages
  <2>3. stage = "redelivering" => m \notin Todo
    BY <1>3 DEF Apart
  <2> QED
    BY <1>1, <1>3, <1>4, <1>5, <1>13, <1>14, <2>1, <2>2, <2>3 DEF Settled, RedeliveryStages
<1>11. Given'
  BY <1>1, <1>4, <1>13, <1>14 DEF Given, RedeliveryStages
<1>12. Counts'
  BY <1>1, <1>3, <1>4, <1>5, <1>13, <1>14 DEF Counts, RedeliveryStages
<1> QED
  BY <1>3, <1>4, <1>6, <1>7, <1>8, <1>9, <1>10, <1>11, <1>12

\* A message leaves the line for the map, expired or not; the application is
\* between two transaction calls.
LEMMA TxJoins ==
    ASSUME TxInv, NEW m \in Messages, NEW t, Tx!AddToTransaction(t, m), Tx!TypeOK',
           Calling', Live',
           Line', m \in Ahead, Ahead' = Ahead \ {m}, stage \in {"idle", "undefined"},
           stage' \in {"idle", "undefined"}, stage = "undefined" => stage' = "undefined",
           acked' \subseteq acked \cup {m}, inTx' \subseteq inTx \cup {m},
           expired \subseteq expired',
           UNCHANGED <<redeliveryCount, todo, sent, committed, broken, dropped>>
    PROVE  TxInv'
<1> USE DEF TxInv
<1>1. /\ rollbackMap' \in [Consumers -> Seq(Messages)]
      /\ Tx!InMap' = Tx!InMap \cup {m}
      /\ \A c \in Consumers : \A x \in Tx!ToSet(rollbackMap'[c]) : ConsumerOf[x] = c
      /\ m \notin Tx!InMap /\ (\A c \in Consumers : Tx!IsInjective(rollbackMap[c]))
           => \A c \in Consumers : Tx!IsInjective(rollbackMap'[c])
  BY TxAdded
<1>2. ~Wrecked' => ~Wrecked
  BY DEF Wrecked
<1>3. ~Wrecked => m \notin Tx!InMap
  BY DEF Apart
<1>4. Filed'
  BY <1>1, <1>2, <1>3 DEF Filed
<1>5. m \in sent /\ m \notin committed
  BY DEF Apart, Settled
<1>8. Apart'
  BY <1>1, <1>2, <1>3, <1>5 DEF Apart
<1>9. Tracked'
  BY <1>1 DEF Tracked
<1>10. Settled'
  BY <1>1, <1>5 DEF Settled, RedeliveryStages
<1>11. Given'
  BY <1>1 DEF Given, RedeliveryStages
<1>12. Counts'
  BY <1>1 DEF Counts, RedeliveryStages
<1> QED
  BY <1>4, <1>8, <1>9, <1>10, <1>11, <1>12

\* A message is given to the application, or found expired when it is received.
LEMMA TxGiven ==
    ASSUME TxInv, Tx!OnMessage \/ Tx!Receive \/ Tx!ReceiveExpired
    PROVE  TxInv'
<1>1. CASE Tx!OnMessage
  <2> DEFINE m == current[1]
  <2>1. /\ usage # "receive" /\ current # <<>> /\ ~inListener /\ inListener'
        /\ inListener' = TRUE
        /\ Tx!AddToTransaction(Dispatcher, m)
        /\ inTx' = inTx \cup Tx!ToSet(current)
        /\ UNCHANGED Tx!executorVars
        /\ UNCHANGED <<current, usage, connStarted, stopping, unconsumed, redeliveryCount,
                       transactionInfo, stage, todo, sent, acked, committed, broken, dropped,
                       expired>>
    BY <1>1 DEF Tx!OnMessage, Tx!executorVars, Tx!sessionVars, Tx!brokerVars
  <2>2. /\ Line' /\ Ahead' = Ahead \ {m} /\ m \in Ahead
        /\ Tx!ToSet(current) = {m} /\ m \in Messages
    BY <1>1, TxListenerCalled DEF TxInv
  <2> HIDE DEF m
  <2>3. rollbackMap' \in [Consumers -> Seq(Messages)]
    BY <2>1, <2>2, TxAdded DEF TxInv
  <2>4. Tx!Executor!TypeOK'
    BY <2>1, TxExecutorKept DEF TxInv, Tx!TypeOK
  <2>5. m \in sent /\ stage \in {"idle", "undefined"}
    BY <2>1, <2>2 DEF TxInv, Apart, Calling
  <2>6. Tx!TypeOK'
    BY <2>1, <2>2, <2>3, <2>4, <2>5 DEF TxInv, Tx!TypeOK
  <2>7. Calling' /\ Live'
    BY <2>1 DEF TxInv, Calling, Live
  <2> QED
    BY <2>1, <2>2, <2>5, <2>6, <2>7, TxJoins
<1>2. CASE Tx!Receive \/ Tx!ReceiveExpired
  <2> DEFINE m == Head(unconsumed)
  <2>1. /\ usage = "receive" /\ stage = "idle" /\ unconsumed # <<>>
        /\ unconsumed' = Tail(unconsumed) /\ Tx!AddToTransaction(App, m)
        /\ stage' \in {"idle", "undefined"} /\ (stage' = stage \/ transactionInfo = "dangling")
        /\ acked' \subseteq acked \cup {m} /\ inTx' \subseteq inTx \cup {m}
        /\ expired \subseteq expired' /\ expired' \subseteq expired \cup {m}
        /\ UNCHANGED Tx!executorVars
        /\ UNCHANGED <<usage, connStarted, stopping, inListener, redeliveryCount,
                       transactionInfo, todo, sent, committed, broken, dropped>>
    <3>1. CASE Tx!Receive
      BY <3>1 DEF Tx!Receive, Tx!sessionVars, Tx!brokerVars
    <3>2. CASE Tx!ReceiveExpired
      BY <3>2 DEF Tx!ReceiveExpired, Tx!AcknowledgeExpired, Tx!sessionVars
    <3> QED
      BY <1>2, <3>1, <3>2
  <2>2. /\ Line' /\ Ahead' = Ahead \ {m} /\ m \in Ahead
        /\ m \in Messages /\ unconsumed' \in Seq(Messages)
    BY <2>1, TxReceived DEF TxInv
  <2> HIDE DEF m
  <2>3. rollbackMap' \in [Consumers -> Seq(Messages)]
    BY <2>1, <2>2, TxAdded DEF TxInv
  <2>4. Tx!Executor!TypeOK' /\ current' = current
    BY <2>1, TxExecutorKept DEF TxInv, Tx!TypeOK, Tx!executorVars
  <2>5. m \in sent
    BY <2>1, <2>2 DEF TxInv, Apart
  <2>6. Tx!TypeOK'
    BY <2>1, <2>2, <2>3, <2>4, <2>5 DEF TxInv, Tx!TypeOK, Tx!Stages
  <2>7. Calling' /\ Live'
    BY <2>1 DEF TxInv, Calling, Live
  <2> QED
    BY <2>1, <2>2, <2>6, <2>7, TxJoins
<1> QED
  BY <1>1, <1>2
-----------------------------------------------------------------------------
(* The steps of a commit *)

\* The messages of the map are acknowledged, or some are and the connection
\* is broken.
LEMMA TxAcks ==
    ASSUME TxInv, Tx!AckMessages \/ Tx!AckMessagesThrows
    PROVE  TxInv'
<1> USE DEF TxInv
<1>1. /\ stage = "acking"
      /\ UNCHANGED <<Tx!executorVars, unconsumed, inListener, usage, connStarted, stopping,
                     rollbackMap, redeliveryCount, transactionInfo, todo, sent, committed,
                     inTx, dropped, expired>>
  BY DEF Tx!AckMessages, Tx!AckMessagesThrows, Tx!sessionVars, Tx!consumerVars, Tx!historyVars
<1>2. \/ stage' = "committing" /\ acked' = acked \cup Tx!InMap /\ UNCHANGED broken
      \/ stage' = "idle" /\ acked \subseteq acked' /\ acked' \subseteq acked \cup Tx!InMap
         /\ broken' = TRUE
  <2>1. CASE Tx!AckMessages
    BY <2>1 DEF Tx!AckMessages
  <2>2. CASE Tx!AckMessagesThrows
    <3>1. PICK done \in SUBSET Consumers :
            acked' = acked \cup UNION {Tx!ToSet(rollbackMap[c]) : c \in done}
      BY <2>2 DEF Tx!AckMessagesThrows
    <3>2. UNION {Tx!ToSet(rollbackMap[c]) : c \in done} \subseteq Tx!InMap
      BY DEF Tx!InMap
    <3> QED
      BY <2>2, <3>1, <3>2 DEF Tx!AckMessagesThrows, Tx!Throws
  <2> QED
    BY <2>1, <2>2
<1>3. Line' /\ Ahead' = Ahead
  BY <1>1, TxLineKept DEF Tx!executorVars
<1>4. Tx!InMap' = Tx!InMap /\ Filed'
  BY <1>1, TxMapKept DEF Wrecked
<1>5. Tx!Executor!TypeOK' /\ current' = current
  BY <1>1, TxExecutorKept DEF Tx!TypeOK, Tx!executorVars
<1>6. Tx!TypeOK'
  <2>1. acked' \subseteq sent /\ stage' \in Tx!Stages /\ broken' \in BOOLEAN
    BY <1>1, <1>2 DEF Tx!TypeOK, Apart, Tx!Stages
  <2> QED
    BY <1>1, <1>5, <2>1 DEF Tx!TypeOK
<1>7. Calling' /\ Live'
  BY <1>1, <1>2 DEF Calling, Live
<1>8. Apart'
  BY <1>1, <1>2, <1>3, <1>4 DEF Apart, Wrecked
<1>9. Tracked'
  BY <1>1, <1>2, <1>3, <1>4 DEF Tracked
<1>10. Settled'
  <2>1. Tx!InMap \cap Ahead = {}
    BY <1>1 DEF Apart, Wrecked
  <2> QED
    BY <1>1, <1>2, <1>3, <1>4, <2>1 DEF Settled, RedeliveryStages
<1>11. Given'
  BY <1>1, <1>2, <1>4 DEF Given, RedeliveryStages
<1>12. Counts'
  BY <1>1, <1>2, <1>3, <1>4 DEF Counts, RedeliveryStages
<1> QED
  BY <1>3, <1>4, <1>6, <1>7, <1>8, <1>9, <1>10, <1>11, <1>12

\* The broker ends the transaction: what was acknowledged is committed, or
\* forgotten.
LEMMA TxEnds ==
    ASSUME TxInv, Tx!ConnectorCommit \/ Tx!ConnectorRollback
    PROVE  TxInv'
<1> USE DEF TxInv
<1>1. /\ ~broken /\ transactionInfo = "live" /\ acked' = {} /\ inTx' = {}
      /\ UNCHANGED <<Tx!executorVars, unconsumed, inListener, usage, connStarted, stopping,
                     rollbackMap, redeliveryCount, todo, sent, broken, dropped, expired>>
      /\ \/ /\ stage = "committing" /\ stage' = "clearing" /\ committed' = committed \cup acked
            /\ UNCHANGED transactionInfo
         \/ /\ stage = "rollingBack" /\ stage' = "rollbackBegin" /\ UNCHANGED committed
            /\ transactionInfo' = "dangling"
  BY DEF Tx!ConnectorCommit, Tx!ConnectorRollback, Tx!ConnectorWorks, Tx!sessionVars,
     Tx!consumerVars
<1>3. Line' /\ Ahead' = Ahead
  BY <1>1, TxLineKept DEF Tx!executorVars
<1>4. Tx!InMap' = Tx!InMap /\ Filed'
  BY <1>1, TxMapKept DEF Wrecked
<1>5. Tx!Executor!TypeOK' /\ current' = current
  BY <1>1, TxExecutorKept DEF Tx!TypeOK, Tx!executorVars
<1>6. Tx!TypeOK'
  <2>1. /\ committed' \subseteq sent /\ stage' \in Tx!Stages
        /\ transactionInfo' \in {"live", "dangling"}
    BY <1>1 DEF Tx!TypeOK, Tx!Stages
  <2> QED
    BY <1>1, <1>5, <2>1 DEF Tx!TypeOK
<1>7. Calling' /\ Live'
  BY <1>1 DEF Calling, Live
<1>8. Apart'
  BY <1>1, <1>3, <1>4 DEF Apart, Wrecked
<1>9. Tracked'
  BY <1>1, <1>3, <1>4 DEF Tracked
<1>10. Settled'
  BY <1>1, <1>3, <1>4 DEF Settled, RedeliveryStages
<1>11. Given'
  BY <1>1, <1>4 DEF Given, RedeliveryStages
<1>12. Counts'
  BY <1>1, <1>3, <1>4 DEF Counts, RedeliveryStages
<1> QED
  BY <1>3, <1>4, <1>6, <1>7, <1>8, <1>9, <1>10, <1>11, <1>12

\* The map is cleared: after a commit, or when all of it is redelivered.
LEMMA TxClears ==
    ASSUME TxInv, Tx!ClearTransaction \/ Tx!RollbackReturns
    PROVE  TxInv'
<1> USE DEF TxInv
<1>1. /\ UNCHANGED <<Tx!executorVars, unconsumed, inListener, usage, connStarted, stopping,
                     redeliveryCount, todo, sent, acked, committed, broken, inTx, dropped,
                     expired>>
      /\ rollbackMap' = [c \in Consumers |-> <<>>]
      /\ \/ /\ stage = "clearing" /\ stage' = "commitBegin" /\ transactionInfo' = "dangling"
         \/ /\ stage = "redelivering" /\ stage' = "idle" /\ todo = <<>>
            /\ UNCHANGED transactionInfo
  BY DEF Tx!ClearTransaction, Tx!RollbackReturns, Tx!Returns, Tx!sessionVars,
     Tx!consumerVars, Tx!brokerVars,
         Tx!historyVars
<1>3. Line' /\ Ahead' = Ahead
  BY <1>1, TxLineKept DEF Tx!executorVars
<1>4. Tx!InMap' = {} /\ Filed' /\ rollbackMap' \in [Consumers -> Seq(Messages)]
  BY <1>1, TxCleared
<1>2. todo = <<>> => Todo = {}
  BY TxSmallPlaces DEF Todo
<1>5. Tx!Executor!TypeOK' /\ current' = current
  BY <1>1, TxExecutorKept DEF Tx!TypeOK, Tx!executorVars
<1>6. Tx!TypeOK'
  BY <1>1, <1>4, <1>5 DEF Tx!TypeOK, Tx!Stages
<1>7. Calling' /\ Live'
  BY <1>1 DEF Calling, Live
<1>13. inTx = {}
  BY <1>1 DEF Given
<1>8. Apart'
  BY <1>1, <1>3, <1>4 DEF Apart, Wrecked
<1>9. Tracked'
  <2>1. Tx!InMap \subseteq Ahead \cup committed \cup dropped \cup expired
    BY <1>1, <1>2 DEF Tracked, Settled
  <2> QED
    BY <1>1, <1>3, <1>4, <2>1 DEF Tracked
<1>10. Settled'
  BY <1>1, <1>3, <1>4 DEF Settled, RedeliveryStages
<1>11. Given'
  BY <1>1, <1>4, <1>13 DEF Given, RedeliveryStages
<1>12. Counts'
  BY <1>1, <1>3, <1>4 DEF Counts, RedeliveryStages
<1> QED
  BY <1>3, <1>4, <1>6, <1>7, <1>8, <1>9, <1>10, <1>11, <1>12

-----------------------------------------------------------------------------
(* The redelivery loop *)

\* The loop begins with all of the map.
LEMMA TxLoopBegins ==
    ASSUME TxInv, Tx!RedeliverMessages
    PROVE  TxInv'
<1> USE DEF TxInv
<1>1. /\ stage = "redeliverLock" /\ stage' = "redelivering"
      /\ UNCHANGED <<Tx!executorVars, unconsumed, inListener, usage, connStarted, stopping,
                     rollbackMap, redeliveryCount, transactionInfo, sent, acked, committed,
                     broken, inTx, dropped, expired>>
  BY DEF Tx!RedeliverMessages, Tx!sessionVars, Tx!consumerVars, Tx!brokerVars, Tx!historyVars
<1>2. todo' \in Seq(Messages) /\ Todo' = Tx!InMap /\ Tx!IsInjective(todo)'
  BY <1>1, TxWalked, TxConstants DEF Wrecked
<1>3. Line' /\ Ahead' = Ahead
  BY <1>1, TxLineKept DEF Tx!executorVars
<1>4. Tx!InMap' = Tx!InMap /\ Filed'
  BY <1>1, TxMapKept DEF Wrecked
<1>5. Tx!Executor!TypeOK' /\ current' = current
  BY <1>1, TxExecutorKept DEF Tx!TypeOK, Tx!executorVars
<1>6. Tx!TypeOK'
  BY <1>1, <1>2, <1>5 DEF Tx!TypeOK, Tx!Stages
<1>7. Calling' /\ Live'
  BY <1>1 DEF Calling, Live
<1>8. Apart'
  BY <1>1, <1>2, <1>3, <1>4 DEF Apart, Wrecked
<1>9. Tracked'
  BY <1>1, <1>2, <1>3, <1>4 DEF Tracked
<1>10. Settled'
  BY <1>1, <1>2, <1>3, <1>4 DEF Settled, RedeliveryStages
<1>11. Given'
  BY <1>1, <1>4 DEF Given, RedeliveryStages
<1>12. Counts'
  BY <1>1, <1>2, <1>3, <1>4 DEF Counts, RedeliveryStages
<1> QED
  BY <1>3, <1>4, <1>6, <1>7, <1>8, <1>9, <1>10, <1>11, <1>12

\* The loop takes the first message it has still to do.
LEMMA TxLoopTakes ==
    ASSUME TxInv, stage = "redelivering", todo # <<>>,
           redeliveryCount' = [redeliveryCount EXCEPT ![Head(todo)] = @ + 1]
    PROVE  /\ Head(todo) \in Messages /\ Head(todo) \in Tx!InMap /\ Head(todo) \in Todo
           /\ Head(todo) \in sent /\ Head(todo) \notin Ahead
           /\ redeliveryCount[Head(todo)] \in Nat
           /\ redeliveryCount[Head(todo)] < MaxRedeliveries
           /\ redeliveryCount' \in [Messages -> 0..MaxRedeliveries]
           /\ redeliveryCount'[Head(todo)] = redeliveryCount[Head(todo)] + 1
           /\ \A x \in Messages : x # Head(todo) => redeliveryCount'[x] = redeliveryCount[x]
           /\ Tail(todo) \in Seq(Messages) /\ Tx!ToSet(Tail(todo)) = Todo \ {Head(todo)}
           /\ Tx!IsInjective(Tail(todo))
<1> USE DEF TxInv
<1>1. todo \in Seq(Messages) /\ Tx!IsInjective(todo)
  BY DEF Tx!TypeOK, Apart
<1>2. /\ Head(todo) \in Messages /\ Tail(todo) \in Seq(Messages)
      /\ Tx!ToSet(todo) = {Head(todo)} \cup Tx!ToSet(Tail(todo))
      /\ Tx!IsInjective(Tail(todo)) /\ Head(todo) \notin Tx!ToSet(Tail(todo))
  BY <1>1, TxTaken
<1>3. Head(todo) \in Todo /\ Tx!ToSet(Tail(todo)) = Todo \ {Head(todo)}
  BY <1>2 DEF Todo
<1>4. Head(todo) \in Tx!InMap /\ Head(todo) \notin Ahead /\ Head(todo) \in sent
  BY <1>3 DEF Apart
<1> DEFINE h == Head(todo)
<1>5. h \in Messages /\ redeliveryCount' = [redeliveryCount EXCEPT ![h] = @ + 1]
  BY <1>2
<1>6. redeliveryCount[h] < MaxRedeliveries
  BY <1>3 DEF Counts
<1>7. redeliveryCount \in [Messages -> 0..MaxRedeliveries] /\ MaxRedeliveries \in Nat
  BY TxConstants DEF Tx!TypeOK
<1> HIDE DEF h, TxInv
<1>8. redeliveryCount[h] \in Nat /\ redeliveryCount[h] + 1 \in 0..MaxRedeliveries
  BY <1>5, <1>6, <1>7
<1>9. /\ redeliveryCount' \in [Messages -> 0..MaxRedeliveries]
      /\ redeliveryCount'[h] = redeliveryCount[h] + 1
      /\ \A x \in Messages : x # h => redeliveryCount'[x] = redeliveryCount[x]
  BY <1>5, <1>7, <1>8
<1> QED
  BY <1>2, <1>3, <1>4, <1>6, <1>8, <1>9 DEF h

\* The loop puts a message back in line.
LEMMA TxRedelivers ==
    ASSUME TxInv, Tx!Redeliver
    PROVE  TxInv'
<1> DEFINE h == Head(todo)
<1>1. /\ stage = "redelivering" /\ stage' = "redelivering" /\ todo # <<>>
      /\ ~(redeliveryCount[h] + 1 >= MaxRedeliveries)
      /\ redeliveryCount' = [redeliveryCount EXCEPT ![h] = @ + 1]
      /\ Tx!Executor!Execute(h) /\ todo' = Tail(todo)
      /\ UNCHANGED Tx!consumerVars
      /\ UNCHANGED <<usage, connStarted, stopping, unconsumed, inListener,
                     rollbackMap, transactionInfo, sent, acked, committed,
                     broken, inTx, dropped, expired>>
  BY DEF Tx!Redeliver, Tx!GivesUp, Tx!sessionVars, Tx!consumerVars, Tx!brokerVars,
     Tx!historyVars
<1>2. /\ h \in Messages /\ h \in Tx!InMap /\ h \in Todo
      /\ h \in sent /\ h \notin Ahead /\ redeliveryCount[h] \in Nat
      /\ redeliveryCount' \in [Messages -> 0..MaxRedeliveries]
      /\ redeliveryCount'[h] = redeliveryCount[h] + 1
      /\ \A x \in Messages : x # h => redeliveryCount'[x] = redeliveryCount[x]
      /\ todo' \in Seq(Messages) /\ Tx!ToSet(todo') = Todo \ {h} /\ Tx!IsInjective(todo')
  BY <1>1, TxLoopTakes
<1> HIDE DEF h
<1> USE DEF TxInv
<1>13. Todo' = Todo \ {h} /\ Tx!IsInjective(todo)'
  BY <1>2 DEF Todo, Tx!IsInjective
<1>3. /\ Line' /\ Ahead' = Ahead \cup {h}
      /\ Tx!Executor!TypeOK' /\ current' = current
  BY <1>1, <1>2, TxQueued
<1>4. Tx!InMap' = Tx!InMap /\ Filed'
  BY <1>1, TxMapKept DEF Wrecked
<1>6. Tx!TypeOK'
  BY <1>1, <1>2, <1>3 DEF Tx!TypeOK
<1>7. Calling' /\ Live'
  BY <1>1 DEF Calling, Live
<1>8. Apart'
  BY <1>1, <1>2, <1>3, <1>4, <1>13 DEF Apart, Wrecked
<1>9. Tracked'
  BY <1>1, <1>3, <1>4, <1>13 DEF Tracked
<1>10. Settled'
  <2>1. h \notin committed
    BY <1>1, <1>2 DEF Settled
  <2> QED
    BY <1>1, <1>2, <1>3, <1>4, <1>13, <2>1 DEF Settled, RedeliveryStages
<1>11. Given'
  BY <1>1, <1>4 DEF Given, RedeliveryStages
<1>12. Counts'
  <2>1. redeliveryCount'[h] < MaxRedeliveries
    BY <1>1, <1>2, TxConstants
  <2>2. Ahead \subseteq Messages /\ Todo \subseteq Messages
    BY <1>1 DEF Tx!TypeOK, Apart
  <2> QED
    BY <1>1, <1>2, <1>3, <1>4, <1>13, <2>1, <2>2 DEF Counts, RedeliveryStages
<1> QED
  BY <1>3, <1>4, <1>6, <1>7, <1>8, <1>9, <1>10, <1>11, <1>12

\* The loop gives a message up.
LEMMA TxGivesUp ==
    ASSUME TxInv, Tx!GiveUp
    PROVE  TxInv'
<1> DEFINE h == Head(todo)
<1>1. /\ stage = "redelivering" /\ stage' = "redelivering" /\ todo # <<>>
      /\ redeliveryCount' = [redeliveryCount EXCEPT ![h] = @ + 1]
      /\ todo' = Tail(todo)
      /\ acked' = acked \cup {h} /\ dropped' = dropped \cup {h}
      /\ UNCHANGED <<Tx!executorVars, usage, connStarted, stopping, unconsumed, inListener,
                     rollbackMap, transactionInfo, sent, committed, broken, inTx, expired>>
  BY DEF Tx!GiveUp, Tx!sessionVars, Tx!consumerVars
<1>2. /\ h \in Messages /\ h \in Tx!InMap /\ h \in Todo
      /\ h \in sent /\ h \notin Ahead /\ redeliveryCount[h] \in Nat
      /\ redeliveryCount' \in [Messages -> 0..MaxRedeliveries]
      /\ \A x \in Messages : x # h => redeliveryCount'[x] = redeliveryCount[x]
      /\ todo' \in Seq(Messages) /\ Tx!ToSet(todo') = Todo \ {h} /\ Tx!IsInjective(todo')
  BY <1>1, TxLoopTakes
<1> HIDE DEF h
<1> USE DEF TxInv
<1>13. Todo' = Todo \ {h} /\ Tx!IsInjective(todo)'
  BY <1>2 DEF Todo, Tx!IsInjective
<1>3. Line' /\ Ahead' = Ahead
  BY <1>1, TxLineKept DEF Tx!executorVars
<1>4. Tx!InMap' = Tx!InMap /\ Filed'
  BY <1>1, TxMapKept DEF Wrecked
<1>5. Tx!Executor!TypeOK' /\ current' = current
  BY <1>1, TxExecutorKept DEF Tx!TypeOK, Tx!executorVars
<1>6. Tx!TypeOK'
  BY <1>1, <1>2, <1>5 DEF Tx!TypeOK
<1>7. Calling' /\ Live'
  BY <1>1 DEF Calling, Live
<1>8. Apart'
  BY <1>1, <1>2, <1>3, <1>4, <1>13 DEF Apart, Wrecked
<1>9. Tracked'
  BY <1>1, <1>3, <1>4, <1>13 DEF Tracked
<1>10. Settled'
  BY <1>1, <1>2, <1>3, <1>4, <1>13 DEF Settled, RedeliveryStages
<1>11. Given'
  BY <1>1, <1>4 DEF Given, RedeliveryStages
<1>12. Counts'
  <2>2. Ahead \subseteq Messages /\ Todo \subseteq Messages
    BY <1>1 DEF Tx!TypeOK, Apart
  <2> QED
    BY <1>1, <1>2, <1>3, <1>4, <1>13, <2>2 DEF Counts, RedeliveryStages
<1> QED
  BY <1>3, <1>4, <1>6, <1>7, <1>8, <1>9, <1>10, <1>11, <1>12

\* The loop is left: nothing has been redelivered, or the map is wrecked.
LEMMA TxLoopLeft ==
    ASSUME TxInv, Tx!GiveUpThrows
    PROVE  TxInv'
<1> DEFINE h == Head(todo)
<1>1. /\ stage = "redelivering" /\ todo # <<>> /\ broken /\ broken'
      /\ redeliveryCount' = [redeliveryCount EXCEPT ![h] = @ + 1]
      /\ todo' = <<>>
      /\ \/ Tx!InMap \subseteq Todo /\ stage' = "idle"
         \/ stage' = "undefined"
      /\ UNCHANGED <<Tx!executorVars, usage, connStarted, stopping, unconsumed, inListener,
                     rollbackMap, transactionInfo, sent, acked, committed, broken, inTx,
                     dropped, expired>>
  BY DEF Tx!GiveUpThrows, Tx!Throws, Todo, Tx!sessionVars, Tx!consumerVars, Tx!brokerVars,
     Tx!historyVars
<1>2. /\ h \in sent /\ h \notin Ahead
      /\ redeliveryCount' \in [Messages -> 0..MaxRedeliveries]
      /\ \A x \in Messages : x # h => redeliveryCount'[x] = redeliveryCount[x]
  BY <1>1, TxLoopTakes
<1> HIDE DEF h
<1> USE DEF TxInv
<1>3. Line' /\ Ahead' = Ahead
  BY <1>1, TxLineKept DEF Tx!executorVars
<1>4. Tx!InMap' = Tx!InMap /\ Filed'
  BY <1>1, TxMapKept DEF Wrecked
<1>5. Tx!Executor!TypeOK' /\ current' = current
  BY <1>1, TxExecutorKept DEF Tx!TypeOK, Tx!executorVars
<1>14. todo' \in Seq(Messages)
  BY <1>1
<1>6. Tx!TypeOK'
  BY <1>1, <1>2, <1>5, <1>14 DEF Tx!TypeOK, Tx!Stages
<1>7. Calling' /\ Live'
  BY <1>1 DEF Calling, Live
<1>8. Apart'
  BY <1>1, <1>2, <1>3, <1>4 DEF Apart, Wrecked
<1>9. Tracked'
  BY <1>1, <1>3, <1>4 DEF Tracked
<1>10. Settled'
  BY <1>1, <1>2, <1>3, <1>4 DEF Settled, RedeliveryStages
<1>11. Given'
  BY <1>1, <1>4 DEF Given, RedeliveryStages
<1>12. Counts'
  <2>2. Ahead \subseteq Messages
    BY <1>1 DEF Tx!TypeOK, Apart
  <2> QED
    BY <1>1, <1>2, <1>3, <1>4, <2>2 DEF Counts, RedeliveryStages
<1> QED
  BY <1>3, <1>4, <1>6, <1>7, <1>8, <1>9, <1>10, <1>11, <1>12
-----------------------------------------------------------------------------
\* A new session has received nothing.
LEMMA TxInit == Tx!Init /\ UsedAsIntended => TxInv
<1> SUFFICES ASSUME Tx!Init, UsedAsIntended PROVE TxInv
  OBVIOUS
<1> USE DEF Tx!Init, Tx!Executor!Init
<1>0. /\ unconsumed = <<>> /\ dataList = <<>> /\ messageQueue = <<>> /\ current = <<>>
      /\ todo = <<>>
  OBVIOUS
<1>1. /\ Tx!ToSet(unconsumed) = {} /\ Tx!ToSet(dataList) = {} /\ Tx!ToSet(messageQueue) = {}
      /\ Called = {} /\ Todo = {}
      /\ Tx!IsInjective(unconsumed) /\ Tx!IsInjective(dataList) /\ Tx!IsInjective(messageQueue)
  <2>1. Tx!ToSet(<<>>) = {} /\ Tx!IsInjective(<<>>)
    BY TxSmallPlaces
  <2> QED
    BY <1>0, <2>1 DEF Called, Todo
<1>2. Ahead = {} /\ Line
  BY <1>1 DEF Ahead, Line
<1>3. \A c \in Consumers : Tx!ToSet(rollbackMap[c]) = {} /\ Tx!IsInjective(rollbackMap[c])
  <2>1. Tx!ToSet(<<>>) = {} /\ Tx!IsInjective(<<>>)
    BY TxSmallPlaces
  <2>2. \A c \in Consumers : rollbackMap[c] = <<>>
    OBVIOUS
  <2> QED
    BY <2>1, <2>2
<1>4. Tx!InMap = {} /\ Filed
  BY <1>3, TxInMap DEF Filed
<1>5. Tx!Executor!TypeOK
  <2>1. Tx!Executor!FlagsTypeOK
    BY DEF Tx!Executor!FlagsTypeOK
  <2>2. Tx!Executor!ThreadsTypeOK
    BY DEF Tx!Executor!ThreadsTypeOK
  <2>3. <<>> \in Seq(Messages)
    OBVIOUS
  <2>4. Tx!Executor!QueueTypeOK
    BY <1>0, <2>3 DEF Tx!Executor!QueueTypeOK
  <2> QED
    BY <2>1, <2>2, <2>4 DEF Tx!Executor!TypeOK
<1>6. redeliveryCount \in [Messages -> 0..MaxRedeliveries]
  BY TxConstants
<1>7. rollbackMap \in [Consumers -> Seq(Messages)]
  OBVIOUS
<1>8. Tx!TypeOK
  <2>1. connStarted \in BOOLEAN /\ stopping \in BOOLEAN /\ inListener \in BOOLEAN
        /\ broken \in BOOLEAN /\ ~inListener
    OBVIOUS
  <2>2. unconsumed \in Seq(Messages) /\ todo \in Seq(Messages)
    BY <1>0
  <2>3. usage \in Usages /\ transactionInfo \in {"live", "dangling"} /\ stage \in Tx!Stages
    BY DEF Tx!Stages
  <2>4. /\ sent = {} /\ acked = {} /\ committed = {} /\ inTx = {} /\ dropped = {}
        /\ expired = {}
    OBVIOUS
  <2> HIDE DEF Tx!Init, Tx!Executor!Init
  <2> QED
    BY <1>5, <1>6, <1>7, <2>1, <2>2, <2>3, <2>4 DEF Tx!TypeOK
<1>9. Calling /\ Live
  BY DEF Calling, Live, UsedAsIntended
<1>10. Apart /\ Tracked /\ Settled /\ Given
  BY <1>2, <1>4 DEF Apart, Tracked, Settled, Given, RedeliveryStages
<1>11. Counts
  BY <1>2, <1>4, TxConstants DEF Counts, RedeliveryStages
<1> QED
  BY <1>2, <1>4, <1>8, <1>9, <1>10, <1>11 DEF TxInv

\* Every step keeps the invariant: one lemma for each group of actions.
LEMMA TxNext == TxInv /\ [Tx!Next]_(Tx!vars) => TxInv'
<1> SUFFICES ASSUME TxInv, [Tx!Next]_(Tx!vars) PROVE TxInv'
  OBVIOUS
<1>1. CASE UNCHANGED Tx!vars
  <2>1. UNCHANGED <<Tx!executorVars, Tx!sessionVars, Tx!consumerVars, Tx!txVars, Tx!brokerVars,
                    Tx!historyVars>>
    BY <1>1 DEF Tx!vars
  <2>2. UNCHANGED <<unconsumed, inListener, current, dataList, messageQueue, usage, stage,
                    broken, connStarted, stopping>>
    BY <2>1 DEF Tx!executorVars, Tx!sessionVars, Tx!consumerVars, Tx!txVars, Tx!brokerVars
  <2>3. Line' /\ Ahead' = Ahead
    BY <2>2, TxLineKept DEF TxInv
  <2>4. Tx!Executor!TypeOK'
    BY <2>1, TxExecutorKept DEF TxInv, Tx!TypeOK
  <2>5. Tx!TypeOK'
    BY <2>1, <2>4 DEF TxInv, Tx!TypeOK, Tx!executorVars, Tx!sessionVars, Tx!consumerVars,
       Tx!txVars, Tx!brokerVars,
       Tx!historyVars
  <2>6. Calling'
    BY <2>2 DEF TxInv, Calling
  <2> QED
    BY <2>1, <2>2, <2>3, <2>5, <2>6, TxUnmoved DEF Tx!brokerVars
<1>2. CASE Tx!Next
  BY <1>2, TxArrives, TxOwnerSteps, TxExecutorSteps, TxExpires, TxGiven, TxSessionCalls,
     TxConnectorCalls,
     TxAcks, TxEnds, TxClears, TxLoopBegins, TxRedelivers, TxGivesUp, TxLoopLeft
     DEF Tx!Next, Tx!ConsumerStep, Tx!CommitStep, Tx!RollbackStep
<1> QED
  BY <1>1, <1>2

\* The invariant always holds.
LEMMA TxSpec == UsedAsIntended /\ Tx!Spec => []TxInv
<1> SUFFICES ASSUME UsedAsIntended PROVE Tx!Spec => []TxInv
  OBVIOUS
<1> QED
  BY TxInit, TxNext, PTL DEF Tx!Spec

\* The variables of a transacted session keep their types; in particular the
\* loop in ActiveMQTransaction::redeliverMessages counts no message past
\* maxRedeliveries, and an acknowledgement is of a message that was sent.
THEOREM TransactionTypeCorrect == UsedAsIntended /\ Tx!Spec => []Tx!TypeOK
<1>1. TxInv => Tx!TypeOK
  BY DEF TxInv
<1> QED
  BY <1>1, TxSpec, PTL

\* What the session counts as on its way to the application is the line.
LEMMA TxAwaiting ==
    ASSUME TxInv
    PROVE  Tx!Awaiting = Ahead
<1>1. Tx!ToSet(Tx!Executor!Pending) = Tx!ToSet(dataList) \cup Tx!ToSet(messageQueue)
  BY TxPlaces, TxJoined DEF TxInv, Tx!Executor!Pending
<1> QED
  BY <1>1 DEF Tx!Awaiting, Ahead, Called

\* Every message that the broker has sent the session is still to be
\* delivered, kept in rollbackMap, or settled; a message in rollbackMap is not
\* waiting to be delivered as well; and a committed one does not come back.
THEOREM TransactionsAreAccounted == UsedAsIntended /\ Tx!Spec => []Tx!Accounted
<1>1. ASSUME TxInv PROVE Tx!Accounted
  <2>1. Tx!ToSet(Tx!Executor!Pending) = Tx!ToSet(dataList) \cup Tx!ToSet(messageQueue)
    BY <1>1, TxPlaces, TxJoined DEF TxInv, Tx!Executor!Pending
  <2>2. Tx!NothingLost
    BY <1>1, TxAwaiting DEF TxInv, Tracked, Tx!NothingLost
  <2>3. Tx!OwnedOnce
    BY <1>1, <2>1 DEF TxInv, Apart, Wrecked, Ahead, Tx!OwnedOnce
  <2>4. Tx!NoReturnAfterCommit
    BY <1>1, <2>1 DEF TxInv, Settled, Ahead, Tx!NoReturnAfterCommit
  <2> QED
    BY <2>2, <2>3, <2>4 DEF Tx!Accounted
<1> QED
  BY <1>1, TxSpec, PTL

\* A transaction that ActiveMQTransaction::commit commits has acknowledged all
\* that the application was given in it.
THEOREM CommitsAreComplete == UsedAsIntended /\ Tx!Spec => Tx!CommitIsComplete
<1>1. TxInv => (stage = "committing" /\ stage' = "clearing" => inTx \subseteq acked)
  BY DEF TxInv, Settled, Given
<1> QED
  BY <1>1, TxSpec, PTL DEF Tx!CommitIsComplete
-----------------------------------------------------------------------------
(***************************************************************************)
(* A transaction delivers all or nothing: the session implements           *)
(* TransactionalDelivery.tla.                                              *)
(***************************************************************************)

\* Where the map holds more than the transaction was given: its messages are
\* committed or rolled back and not yet all cleared.
Unresolved ==
    RedeliveryStages \cup {"clearing", "redelivering", "undefined"}

\* What the application was given is neither settled nor in line; what has
\* been given up was counted to the limit; what is acknowledged was given or is
\* discarded, and so is what the map holds.
Delivering ==
    /\ inTx \cap (committed \cup dropped \cup expired) = {}
    /\ inTx \cap Ahead = {}
    /\ \A m \in dropped : redeliveryCount[m] >= MaxRedeliveries
    /\ ~broken /\ stage # "undefined" =>
         acked \subseteq dropped \cup expired \cup IF stage = "committing" THEN inTx ELSE {}
    /\ ~broken /\ stage \notin Unresolved => Tx!InMap \subseteq inTx \cup expired

\* What waits is all that was sent and is neither given nor settled.
LEMMA TxWaiting ==
    ASSUME TxInv
    PROVE  Tx!Waiting = sent \ (inTx \cup committed \cup dropped \cup expired)
  BY TxAwaiting DEF TxInv, Apart, Tracked, Tx!Waiting, Tx!Discarded

\* After a step, too.
LEMMA TxWaitingNext ==
    (TxInv => Tx!Waiting = sent \ (inTx \cup committed \cup dropped \cup expired))'
<1>1. TxInv => Tx!Waiting = sent \ (inTx \cup committed \cup dropped \cup expired)
  BY TxWaiting
<1> QED
  BY <1>1, PTL

\* What is in line has not been committed, given up or given.
LEMMA TxUnsettled ==
    ASSUME TxInv, Delivering, NEW m, m \in Ahead
    PROVE  m \in Messages /\ m \in sent /\ m \notin committed /\ m \notin dropped /\ m \notin inTx
<1>1. m \in sent /\ m \in Messages /\ m \notin committed /\ m \notin inTx
  BY DEF TxInv, Apart, Settled, Delivering, Tx!TypeOK
<1>2. redeliveryCount[m] < MaxRedeliveries /\ redeliveryCount[m] \in 0..MaxRedeliveries
  BY <1>1 DEF TxInv, Counts, Tx!TypeOK
<1>3. MaxRedeliveries \in Nat
  BY TxConstants DEF TxInv
<1>4. m \in dropped => redeliveryCount[m] >= MaxRedeliveries
  BY DEF Delivering
<1> QED
  BY <1>1, <1>2, <1>3, <1>4

\* A step that neither gives nor settles anything.
LEMMA TxStutters ==
    ASSUME TxInv, TxInv', UNCHANGED <<sent, inTx, committed, dropped, expired>>
    PROVE  UNCHANGED Tx!Delivery!vars
<1>1. Tx!Waiting' = Tx!Waiting
  BY TxWaiting, TxWaitingNext
<1>2. Tx!Discarded' = Tx!Discarded
  BY DEF Tx!Discarded
<1> QED
  BY <1>1, <1>2 DEF Tx!Delivery!vars

\* The stages such a step may go through.
LEMMA TxStagesKept ==
    ASSUME TxInv, Delivering, Ahead' = Ahead, Tx!InMap' \subseteq Tx!InMap, broken => broken',
           UNCHANGED <<inTx, committed, dropped, expired, redeliveryCount, acked>>,
           broken' \/ stage' = "undefined" \/ (stage = "committing" => stage' = "committing"),
           \/ broken' \/ stage' \in Unresolved \/ stage \notin Unresolved
           \/ Tx!InMap' = {},
           stage = "undefined" => stage' = "undefined"
    PROVE  Delivering'
  BY DEF Delivering

\* Nothing is given or settled while a call goes on, the connection or the
\* executor changes, or a message is handed over.
LEMMA TxGoesOn ==
    ASSUME TxInv, TxInv', Delivering,
           \/ Tx!ConnectionBreaks \/ Tx!ConnectionStart \/ Tx!ConnectionStop
           \/ Tx!SessionStopped \/ Tx!ExecutorStep \/ Tx!SpuriousWakeup
           \/ Tx!OnMessageReturns \/ Tx!PushUnconsumed
           \/ Tx!Commit \/ Tx!Rollback \/ Tx!CommitReturns \/ Tx!RollbackStart
           \/ Tx!AckMessagesDangling \/ Tx!ConnectorCommitFails
           \/ Tx!ConnectorRollbackFails \/ Tx!StartTransaction \/ Tx!StartTransactionThrows
           \/ Tx!ClearTransaction \/ Tx!RollbackReturns \/ Tx!RedeliverMessages
    PROVE  Delivering' /\ UNCHANGED Tx!Delivery!vars
<1> USE DEF Tx!executorVars, Tx!sessionVars, Tx!consumerVars, Tx!txVars, Tx!brokerVars,
            Tx!historyVars
<1>1. /\ UNCHANGED <<sent, inTx, committed, dropped, expired, redeliveryCount, acked>>
      /\ broken => broken'
      /\ stage = "undefined" => stage' = "undefined"
      /\ broken' \/ stage' = "undefined" \/ (stage = "committing" => stage' = "committing")
  BY DEF Tx!ConnectionBreaks, Tx!ConnectionStart, Tx!ConnectionStop, Tx!SessionStopped,
     Tx!ExecutorStep, Tx!SpuriousWakeup, Tx!OnMessageReturns, Tx!PushUnconsumed,
     Tx!Commit, Tx!Rollback, Tx!CommitReturns, Tx!RollbackStart, Tx!AckMessagesDangling,
     Tx!ConnectorCommitFails, Tx!ConnectorRollbackFails, Tx!StartTransaction,
     Tx!StartTransactionThrows, Tx!ClearTransaction, Tx!RollbackReturns,
     Tx!RedeliverMessages, Tx!ConnectorThrows, Tx!UsesDangling
<1>2. Ahead' = Ahead
  <2>1. CASE Tx!ConnectionStart \/ Tx!SessionStopped \/ Tx!ExecutorStep \/ Tx!SpuriousWakeup
             \/ Tx!Commit \/ Tx!Rollback \/ Tx!CommitReturns \/ Tx!RollbackStart
    <3>1. /\ UNCHANGED Tx!consumerVars
          /\ \/ Tx!Executor!Start \/ Tx!Executor!Stop(Owner) \/ Tx!Executor!Stop(Tx!TxThread)
             \/ Tx!Executor!TakeBatch \/ Tx!Executor!Dispatch \/ Tx!Executor!EndBatch
             \/ Tx!Executor!Decide \/ Tx!Executor!SpuriousWakeup
      BY <2>1 DEF Tx!ConnectionStart, Tx!SessionStopped, Tx!ExecutorStep, Tx!SpuriousWakeup,
         Tx!Commit, Tx!Rollback, Tx!CommitReturns, Tx!RollbackStart
    <3> QED
      BY <3>1, TxExecutorMoves DEF TxInv
  <2>2. CASE Tx!OnMessageReturns
    BY <2>2, TxDispatched DEF TxInv, Tx!OnMessageReturns, Called
  <2>3. CASE Tx!PushUnconsumed
    BY <2>3, TxPushed DEF TxInv
  <2>4. CASE \/ Tx!ConnectionBreaks \/ Tx!ConnectionStop \/ Tx!AckMessagesDangling
             \/ Tx!ConnectorCommitFails \/ Tx!ConnectorRollbackFails \/ Tx!StartTransaction
             \/ Tx!StartTransactionThrows \/ Tx!ClearTransaction \/ Tx!RollbackReturns
             \/ Tx!RedeliverMessages
    <3>1. UNCHANGED <<unconsumed, inListener, current, dataList, messageQueue>>
      BY <2>4 DEF Tx!ConnectionBreaks, Tx!ConnectionStop, Tx!AckMessagesDangling,
         Tx!ConnectorCommitFails, Tx!ConnectorRollbackFails, Tx!StartTransaction,
         Tx!StartTransactionThrows, Tx!ClearTransaction, Tx!RollbackReturns,
         Tx!RedeliverMessages
    <3> QED
      BY <3>1, TxLineKept DEF TxInv
  <2> QED
    BY <2>1, <2>2, <2>3, <2>4
<1>3. /\ Tx!InMap' \subseteq Tx!InMap
      /\ broken' \/ stage' \in Unresolved \/ stage \notin Unresolved \/ Tx!InMap' = {}
  <2>1. CASE Tx!ClearTransaction \/ Tx!RollbackReturns
    <3>1. rollbackMap' = [c \in Consumers |-> <<>>]
      BY <2>1 DEF Tx!ClearTransaction, Tx!RollbackReturns
    <3>2. Tx!InMap' = {}
      BY <3>1, TxCleared
    <3> QED
      BY <3>2
  <2>2. CASE ~(Tx!ClearTransaction \/ Tx!RollbackReturns)
    <3>1. /\ UNCHANGED rollbackMap
          /\ broken' \/ stage' \in Unresolved \/ stage \notin Unresolved
      BY <2>2 DEF Tx!ConnectionBreaks, Tx!ConnectionStart, Tx!ConnectionStop,
         Tx!SessionStopped, Tx!ExecutorStep, Tx!SpuriousWakeup, Tx!OnMessageReturns,
         Tx!PushUnconsumed, Tx!Commit, Tx!Rollback, Tx!CommitReturns, Tx!RollbackStart,
         Tx!AckMessagesDangling, Tx!ConnectorCommitFails, Tx!ConnectorRollbackFails,
         Tx!StartTransaction, Tx!StartTransactionThrows, Tx!RedeliverMessages,
         Tx!ConnectorThrows, Tx!UsesDangling, Unresolved, RedeliveryStages
    <3>2. Tx!InMap' = Tx!InMap
      BY <3>1 DEF Tx!InMap
    <3> QED
      BY <3>1, <3>2
  <2> QED
    BY <2>1, <2>2
<1>4. Delivering'
  BY <1>1, <1>2, <1>3, TxStagesKept
<1> QED
  BY <1>1, <1>4, TxStutters

\* A new message waits.
LEMMA TxSends ==
    ASSUME TxInv, TxInv', Delivering, NEW m \in Messages, Tx!Arrive(m)
    PROVE  Delivering' /\ Tx!Delivery!Send
<1>1. /\ m \notin sent /\ sent' = sent \cup {m} /\ Tx!Executor!Execute(m)
      /\ UNCHANGED <<Tx!consumerVars, rollbackMap, redeliveryCount, stage, acked, committed,
                     broken, inTx, dropped, expired>>
  BY DEF Tx!Arrive, Tx!consumerVars, Tx!txVars, Tx!historyVars
<1>2. m \notin inTx /\ m \notin committed /\ m \notin dropped /\ m \notin expired
  BY <1>1 DEF TxInv, Tx!TypeOK
<1>3. m \notin Ahead
  BY <1>1 DEF TxInv, Apart
<1>4. Ahead' = Ahead \cup {m} /\ Tx!InMap' = Tx!InMap
  BY <1>1, <1>3, TxQueued, TxMapKept DEF TxInv
<1>5. Delivering'
  BY <1>1, <1>2, <1>4 DEF Delivering
<1>6. Tx!Waiting' = Tx!Waiting \cup {m} /\ m \notin Tx!Waiting
  BY <1>1, <1>2, TxWaiting, TxWaitingNext
<1>7. Tx!Discarded' = Tx!Discarded /\ m \notin Tx!Discarded
  BY <1>1, <1>2 DEF Tx!Discarded
<1> QED
  BY <1>1, <1>2, <1>5, <1>6, <1>7 DEF Tx!Delivery!Send

\* A message in line is given to the application.
LEMMA TxGives ==
    ASSUME TxInv, TxInv', Delivering, Tx!OnMessage \/ Tx!Receive
    PROVE  Delivering' /\ Tx!Delivery!Give
<1>1. PICK m \in Messages :
        /\ m \in Ahead /\ Ahead' = Ahead \ {m} /\ m \notin expired
        /\ Tx!InMap' = Tx!InMap \cup {m} /\ inTx' = inTx \cup {m}
        /\ UNCHANGED <<sent, redeliveryCount, stage, acked, committed, broken, dropped,
                       expired>>
  <2>1. CASE Tx!OnMessage
    <3>1. /\ current[1] \in Ahead /\ Ahead' = Ahead \ {current[1]}
          /\ Tx!ToSet(current) = {current[1]} /\ current[1] \in Messages
      BY <2>1, TxListenerCalled DEF TxInv
    <3>2. /\ current[1] \notin expired /\ Tx!AddToTransaction(Dispatcher, current[1])
          /\ inTx' = inTx \cup Tx!ToSet(current)
          /\ UNCHANGED <<sent, redeliveryCount, stage, acked, committed, broken, dropped,
                         expired>>
      BY <2>1 DEF Tx!OnMessage, Tx!Expired, Tx!brokerVars
    <3>3. Tx!InMap' = Tx!InMap \cup {current[1]}
      BY <3>1, <3>2, TxAdded DEF TxInv
    <3> QED
      BY <3>1, <3>2, <3>3
  <2>2. CASE Tx!Receive
    <3>1. /\ unconsumed # <<>> /\ unconsumed' = Tail(unconsumed)
          /\ UNCHANGED <<Tx!executorVars, inListener>>
          /\ Head(unconsumed) \notin expired /\ Tx!AddToTransaction(App, Head(unconsumed))
          /\ inTx' = inTx \cup {Head(unconsumed)}
          /\ UNCHANGED <<sent, redeliveryCount, stage, acked, committed, broken, dropped,
                         expired>>
      BY <2>2 DEF Tx!Receive, Tx!Expired, Tx!brokerVars
    <3>2. /\ Head(unconsumed) \in Ahead /\ Ahead' = Ahead \ {Head(unconsumed)}
          /\ Head(unconsumed) \in Messages
      BY <3>1, TxReceived DEF TxInv
    <3>3. Tx!InMap' = Tx!InMap \cup {Head(unconsumed)}
      BY <3>1, <3>2, TxAdded DEF TxInv
    <3> QED
      BY <3>1, <3>2, <3>3
  <2> QED
    BY <2>1, <2>2
<1>2. m \in sent /\ m \notin committed /\ m \notin dropped /\ m \notin inTx
  BY <1>1, TxUnsettled
<1>3. Delivering'
  BY <1>1, <1>2 DEF Delivering
<1>4. m \in Tx!Waiting /\ Tx!Waiting' = Tx!Waiting \ {m}
  BY <1>1, <1>2, TxWaiting, TxWaitingNext
<1>5. Tx!Discarded' = Tx!Discarded
  BY <1>1 DEF Tx!Discarded
<1> QED
  BY <1>1, <1>3, <1>4, <1>5 DEF Tx!Delivery!Give

\* A message that is neither given nor committed is discarded, unless it was
\* already.
LEMMA TxDiscards ==
    ASSUME TxInv, TxInv', NEW m \in sent, m \notin inTx, m \notin committed,
           dropped' \cup expired' = dropped \cup expired \cup {m},
           UNCHANGED <<sent, inTx, committed>>
    PROVE  Tx!Delivery!Discard \/ UNCHANGED Tx!Delivery!vars
<1>1. Tx!Discarded' = Tx!Discarded \cup {m}
  BY DEF Tx!Discarded
<1>2. committed' \ Tx!Discarded' = committed \ Tx!Discarded
  BY <1>1
<1>3. Tx!Waiting = sent \ (inTx \cup committed \cup Tx!Discarded)
  BY TxWaiting DEF Tx!Discarded
<1>4. Tx!Waiting' = Tx!Waiting \ {m}
  BY TxWaiting, TxWaitingNext
<1>5. CASE m \in Tx!Discarded
  BY <1>1, <1>2, <1>3, <1>4, <1>5 DEF Tx!Delivery!vars
<1>6. CASE m \notin Tx!Discarded
  <2>1. m \in Tx!Waiting
    BY <1>3, <1>6
  <2> QED
    BY <1>1, <1>2, <1>4, <2>1 DEF Tx!Delivery!Discard
<1> QED
  BY <1>5, <1>6

\* A message is found expired.
LEMMA TxFoundExpired ==
    ASSUME TxInv, TxInv', Delivering, Tx!DispatchExpired \/ Tx!ReceiveExpired
    PROVE  Delivering' /\ (Tx!Delivery!Discard \/ UNCHANGED Tx!Delivery!vars)
<1>1. PICK m \in Messages :
        /\ m \in Ahead /\ Ahead' = Ahead \ {m} /\ expired' = expired \cup {m}
        /\ Tx!InMap' \subseteq Tx!InMap \cup {m} /\ acked' \subseteq acked \cup {m}
        /\ stage' \in {stage, "undefined"}
        /\ UNCHANGED <<sent, redeliveryCount, committed, broken, dropped, inTx>>
  <2>1. CASE Tx!DispatchExpired
    <3>1. /\ current # <<>> /\ ~inListener /\ inListener' = inListener
          /\ Tx!Executor!DispatchReturns /\ expired' = expired \cup {current[1]}
          /\ acked' \subseteq acked \cup {current[1]} /\ stage' \in {stage, "undefined"}
          /\ UNCHANGED <<unconsumed, rollbackMap, sent, redeliveryCount, committed, broken,
                         dropped, inTx>>
      BY <2>1 DEF Tx!DispatchExpired, Tx!AcknowledgeExpired, Tx!consumerVars
    <3>2. inListener' = FALSE
      BY <3>1 DEF TxInv, Tx!TypeOK
    <3>3. Ahead' = Ahead \ Called /\ Called = {current[1]}
      BY <3>1, <3>2, TxDispatched DEF TxInv
    <3>4. current[1] \in Ahead /\ current[1] \in Messages
      BY <3>1, <3>3, TxPlaces DEF TxInv, Ahead
    <3>5. Tx!InMap' = Tx!InMap
      BY <3>1, TxMapKept
    <3> QED
      BY <3>1, <3>3, <3>4, <3>5
  <2>2. CASE Tx!ReceiveExpired
    <3>1. /\ unconsumed # <<>> /\ unconsumed' = Tail(unconsumed)
          /\ UNCHANGED <<Tx!executorVars, inListener>>
          /\ Tx!AddToTransaction(App, Head(unconsumed))
          /\ expired' = expired \cup {Head(unconsumed)}
          /\ acked' \subseteq acked \cup {Head(unconsumed)} /\ stage' \in {stage, "undefined"}
          /\ UNCHANGED <<sent, redeliveryCount, committed, broken, dropped, inTx>>
      BY <2>2 DEF Tx!ReceiveExpired, Tx!AcknowledgeExpired
    <3>2. /\ Head(unconsumed) \in Ahead /\ Ahead' = Ahead \ {Head(unconsumed)}
          /\ Head(unconsumed) \in Messages
      BY <3>1, TxReceived DEF TxInv
    <3>3. Tx!InMap' = Tx!InMap \cup {Head(unconsumed)}
      BY <3>1, <3>2, TxAdded DEF TxInv
    <3> QED
      BY <3>1, <3>2, <3>3
  <2> QED
    BY <2>1, <2>2
<1>2. m \in sent /\ m \notin committed /\ m \notin inTx
  BY <1>1, TxUnsettled
<1>3. Delivering'
  <2>1. CASE stage' = "undefined"
    BY <1>1, <1>2, <2>1 DEF Delivering, Unresolved
  <2>2. CASE stage' = stage
    <3>1. /\ inTx' \cap (committed' \cup dropped' \cup expired') = {} /\ inTx' \cap Ahead' = {}
          /\ \A x \in dropped' : redeliveryCount'[x] >= MaxRedeliveries
      BY <1>1, <1>2 DEF Delivering
    <3>2. ~broken' /\ stage' # "undefined" =>
            acked' \subseteq dropped' \cup expired' \cup IF stage' = "committing" THEN inTx' ELSE {}
      BY <1>1, <2>2 DEF Delivering
    <3>3. ~broken' /\ stage' \notin Unresolved => Tx!InMap' \subseteq inTx' \cup expired'
      BY <1>1, <2>2 DEF Delivering
    <3> QED
      BY <3>1, <3>2, <3>3 DEF Delivering
  <2> QED
    BY <1>1, <2>1, <2>2
<1>4. dropped' \cup expired' = dropped \cup expired \cup {m}
  BY <1>1
<1> QED
  BY <1>1, <1>2, <1>3, <1>4, TxDiscards

\* The map is acknowledged: it holds what was given, and what has expired.
LEMMA TxAcksGiven ==
    ASSUME TxInv, TxInv', Delivering, Tx!AckMessages \/ Tx!AckMessagesThrows
    PROVE  Delivering' /\ UNCHANGED Tx!Delivery!vars
<1>1. /\ stage = "acking"
      /\ UNCHANGED <<Tx!executorVars, unconsumed, inListener, rollbackMap, redeliveryCount,
                     sent, committed, inTx, dropped, expired>>
      /\ \/ stage' = "committing" /\ acked' = acked \cup Tx!InMap /\ UNCHANGED broken
         \/ broken'
  BY DEF Tx!AckMessages, Tx!AckMessagesThrows, Tx!consumerVars, Tx!historyVars
<1>2. Ahead' = Ahead
  BY <1>1, TxLineKept DEF TxInv, Tx!executorVars
<1>3. Tx!InMap' = Tx!InMap
  BY <1>1 DEF Tx!InMap
<1>4. ASSUME broken' PROVE Delivering'
  BY <1>1, <1>2, <1>4 DEF Delivering
<1>5. ASSUME stage' = "committing", acked' = acked \cup Tx!InMap, UNCHANGED broken
      PROVE  Delivering'
  <2>1. ~broken => acked \subseteq dropped \cup expired /\ Tx!InMap \subseteq inTx \cup expired
    BY <1>1 DEF Delivering, Unresolved, RedeliveryStages
  <2> QED
    BY <1>1, <1>2, <1>3, <1>5, <2>1 DEF Delivering
<1> QED
  BY <1>1, <1>4, <1>5, TxStutters

\* The broker ends the transaction: all that was given is committed, and
\* nothing else but what is discarded, or all of it waits again.
LEMMA TxSettles ==
    ASSUME TxInv, TxInv', Delivering, Tx!ConnectorCommit \/ Tx!ConnectorRollback
    PROVE  Delivering' /\ (Tx!Delivery!Commit \/ Tx!Delivery!Rollback)
<1>1. /\ ~broken /\ acked' = {} /\ inTx' = {}
      /\ UNCHANGED <<Tx!executorVars, unconsumed, inListener, rollbackMap, redeliveryCount,
                     sent, broken, dropped, expired>>
      /\ \/ stage = "committing" /\ stage' = "clearing" /\ committed' = committed \cup acked
         \/ stage = "rollingBack" /\ stage' = "rollbackBegin" /\ UNCHANGED committed
  BY DEF Tx!ConnectorCommit, Tx!ConnectorRollback, Tx!ConnectorWorks, Tx!consumerVars
<1>2. Ahead' = Ahead
  BY <1>1, TxLineKept DEF TxInv, Tx!executorVars
<1>3. Delivering'
  BY <1>1, <1>2 DEF Delivering, Unresolved, RedeliveryStages
<1>4. /\ inTx \subseteq sent /\ inTx \cap committed = {} /\ inTx \cap Tx!Discarded = {}
      /\ Tx!Discarded' = Tx!Discarded
  BY <1>1 DEF TxInv, Tx!TypeOK, Delivering, Tx!Discarded
<1>5. /\ Tx!Waiting = sent \ (inTx \cup committed \cup Tx!Discarded)
      /\ Tx!Waiting' = sent \ (committed' \cup Tx!Discarded)
  BY <1>1, TxWaiting, TxWaitingNext DEF Tx!Discarded
<1>6. CASE stage = "committing" /\ committed' = committed \cup acked
  <2>1. inTx \subseteq acked /\ acked \subseteq Tx!Discarded \cup inTx
    BY <1>1, <1>6 DEF TxInv, Settled, Given, Delivering, Tx!Discarded
  <2>2. committed' \ Tx!Discarded' = (committed \ Tx!Discarded) \cup inTx
    BY <1>4, <1>6, <2>1
  <2>3. Tx!Waiting' = Tx!Waiting
    BY <1>4, <1>5, <1>6, <2>1
  <2> QED
    BY <1>1, <1>3, <1>4, <2>2, <2>3 DEF Tx!Delivery!Commit
<1>7. CASE UNCHANGED committed
  <2>1. Tx!Waiting' = Tx!Waiting \cup inTx
    BY <1>4, <1>5, <1>7
  <2> QED
    BY <1>1, <1>3, <1>4, <1>7, <2>1 DEF Tx!Delivery!Rollback
<1> QED
  BY <1>1, <1>6, <1>7

\* The redelivery loop puts a message back, gives it up, or is left.
LEMMA TxLoops ==
    ASSUME TxInv, TxInv', Delivering, Tx!Redeliver \/ Tx!GiveUp \/ Tx!GiveUpThrows
    PROVE  Delivering' /\ (Tx!Delivery!Discard \/ UNCHANGED Tx!Delivery!vars)
<1> DEFINE h == Head(todo)
<1>1. /\ stage = "redelivering" /\ todo # <<>>
      /\ redeliveryCount' = [redeliveryCount EXCEPT ![h] = @ + 1]
      /\ UNCHANGED <<rollbackMap, sent, committed, broken, inTx, expired>>
  BY DEF Tx!Redeliver, Tx!GiveUp, Tx!GiveUpThrows, Tx!brokerVars, Tx!historyVars
<1>2. /\ h \in Messages /\ h \in Tx!InMap /\ h \in Todo /\ h \in sent /\ h \notin Ahead
      /\ redeliveryCount[h] \in Nat
      /\ redeliveryCount'[h] = redeliveryCount[h] + 1
      /\ \A x \in Messages : x # h => redeliveryCount'[x] = redeliveryCount[x]
  BY <1>1, TxLoopTakes
<1>3. inTx = {} /\ h \notin committed /\ (~broken => acked \subseteq dropped \cup expired)
  BY <1>1, <1>2 DEF TxInv, Given, Settled, Delivering
<1>4. MaxRedeliveries \in Nat /\ dropped \subseteq Messages
  BY TxConstants DEF TxInv, Tx!TypeOK
<1>5. ASSUME NEW x \in dropped PROVE redeliveryCount'[x] >= MaxRedeliveries
  <2>1. redeliveryCount[x] >= MaxRedeliveries /\ x \in Messages
    BY <1>4 DEF Delivering
  <2> HIDE DEF h
  <2> QED
    BY <1>2, <1>4, <2>1
<1>6. CASE Tx!Redeliver \/ Tx!GiveUpThrows
  <2>1. /\ UNCHANGED <<acked, dropped>>
        /\ stage' \in {"redelivering", "undefined"} \/ broken'
    BY <1>1, <1>6 DEF Tx!Redeliver, Tx!GiveUpThrows, Tx!brokerVars, Tx!historyVars
  <2>2. Delivering'
    BY <1>1, <1>3, <1>5, <2>1 DEF Delivering, Unresolved
  <2> QED
    BY <1>1, <2>1, <2>2, TxStutters
<1>7. CASE Tx!GiveUp
  <2>1. /\ acked' = acked \cup {h} /\ dropped' = dropped \cup {h} /\ stage' = stage
        /\ redeliveryCount[h] + 1 >= MaxRedeliveries
    BY <1>7 DEF Tx!GiveUp, Tx!GivesUp
  <2>2. redeliveryCount'[h] >= MaxRedeliveries
    BY <1>2, <2>1
  <2> HIDE DEF h
  <2>3. Delivering'
    BY <1>1, <1>3, <1>5, <2>1, <2>2 DEF Delivering, Unresolved
  <2>4. dropped' \cup expired' = dropped \cup expired \cup {h}
    BY <1>1, <2>1
  <2> QED
    BY <1>1, <1>2, <1>3, <2>3, <2>4, TxDiscards
<1> QED
  BY <1>6, <1>7

\* Each step of the session is one of the promise, or none.
LEMMA TxDelivers ==
    ASSUME TxInv, TxInv', Delivering, [Tx!Next]_(Tx!vars)
    PROVE  Delivering' /\ [Tx!Delivery!Next]_(Tx!Delivery!vars)
<1>1. CASE UNCHANGED Tx!vars
  <2>1. /\ UNCHANGED <<Tx!executorVars, unconsumed, inListener, rollbackMap, redeliveryCount,
                       stage, sent, acked, committed, broken, inTx, dropped, expired>>
    BY <1>1 DEF Tx!vars, Tx!consumerVars, Tx!txVars, Tx!brokerVars, Tx!historyVars
  <2>2. Ahead' = Ahead /\ Tx!InMap' = Tx!InMap
    BY <2>1, TxLineKept DEF TxInv, Tx!executorVars, Tx!InMap
  <2> QED
    BY <2>1, <2>2, TxStagesKept, TxStutters
<1>2. CASE Tx!Next
  <2> USE DEF Tx!Delivery!Next
  <2>1. CASE \E m \in Messages : Tx!Arrive(m)
    BY <2>1, TxSends
  <2>2. CASE Tx!ConsumerStep
    BY <2>2, TxGives, TxFoundExpired, TxGoesOn DEF Tx!ConsumerStep
  <2>3. CASE Tx!CommitStep
    BY <2>3, TxAcksGiven, TxSettles, TxGoesOn DEF Tx!CommitStep
  <2>4. CASE Tx!RollbackStep
    BY <2>4, TxSettles, TxLoops, TxGoesOn DEF Tx!RollbackStep
  <2>5. CASE \/ Tx!ConnectionBreaks \/ Tx!ConnectionStart \/ Tx!ConnectionStop
             \/ Tx!SessionStopped \/ Tx!ExecutorStep \/ Tx!SpuriousWakeup
             \/ Tx!Commit \/ Tx!Rollback
    BY <2>5, TxGoesOn
  <2> QED
    BY <1>2, <2>1, <2>2, <2>3, <2>4, <2>5 DEF Tx!Next
<1> QED
  BY <1>1, <1>2

\* ActiveMQTransaction's commit and rollback keep the promise of
\* TransactionalDelivery: what the application was given in a transaction is
\* acknowledged and committed, all of it and nothing else that may still come
\* back, or all of it waits to be given again; and the redelivery limit and
\* expiry take away only what the current transaction has not been given.
THEOREM TransactionsDeliver == UsedAsIntended /\ Tx!Spec => Tx!ImplementsTransactionalDelivery
<1>1. UsedAsIntended /\ Tx!Init => Delivering /\ Tx!Delivery!Init
  <2> SUFFICES ASSUME UsedAsIntended, Tx!Init PROVE Delivering /\ Tx!Delivery!Init
    OBVIOUS
  <2>1. TxInv
    BY TxInit
  <2>2. sent = {} /\ inTx = {} /\ acked = {} /\ committed = {} /\ dropped = {} /\ expired = {}
    BY DEF Tx!Init
  <2>3. Tx!InMap = {} /\ Tx!Waiting = {}
    BY <2>1, <2>2, TxWaiting DEF TxInv, Apart
  <2>4. Delivering
    BY <2>2, <2>3 DEF Delivering
  <2>5. Tx!Delivery!Init
    BY <2>2, <2>3 DEF Tx!Delivery!Init, Tx!Discarded
  <2> QED
    BY <2>4, <2>5
<1>2. TxInv /\ TxInv' /\ Delivering /\ [Tx!Next]_(Tx!vars)
        => Delivering' /\ [Tx!Delivery!Next]_(Tx!Delivery!vars)
  BY TxDelivers
<1> QED
  BY <1>1, <1>2, TxSpec, PTL DEF Tx!Spec, Tx!ImplementsTransactionalDelivery, Tx!Delivery!Spec

-----------------------------------------------------------------------------
(***************************************************************************)
(* The transacted session uses its executor as SessionExecutor.tla says an *)
(* executor is used, so that what is proved of the executor is true of the *)
(* one inside the session.                                                 *)
(***************************************************************************)

\* A message that is not in line is not pending in the executor.
LEMMA TxNotPending ==
    ASSUME TxInv, NEW m, m \notin Ahead
    PROVE  m \notin Tx!Executor!ToSet(Tx!Executor!Pending)
<1>1. Tx!Executor!ToSet(Tx!Executor!Pending) = Tx!ToSet(Tx!Executor!Pending)
  BY DEF Tx!Executor!ToSet, Tx!ToSet
<1>2. Tx!ToSet(Tx!Executor!Pending) = Tx!ToSet(dataList) \cup Tx!ToSet(messageQueue)
  BY TxPlaces, TxJoined DEF TxInv, Tx!Executor!Pending
<1> QED
  BY <1>1, <1>2 DEF Ahead

\* The reader pushes a message that is new, the redelivery loop one that it
\* has still to do: neither is pending.
LEMMA TxPushes ==
    ASSUME TxInv, (\E m \in Messages : Tx!Arrive(m)) \/ Tx!Redeliver
    PROVE  Tx!Executor!CallerStep
<1>1. CASE \E m \in Messages : Tx!Arrive(m)
  <2>1. PICK m \in Messages : Tx!Arrive(m)
    BY <1>1
  <2>2. m \notin Ahead /\ Tx!Executor!Execute(m)
    BY <2>1 DEF Tx!Arrive, TxInv, Apart
  <2> QED
    BY <2>2, TxNotPending DEF Tx!Executor!CallerStep
<1>2. CASE Tx!Redeliver
  <2>1. /\ stage = "redelivering" /\ todo # <<>> /\ Tx!Executor!Execute(Head(todo))
        /\ redeliveryCount' = [redeliveryCount EXCEPT ![Head(todo)] = @ + 1]
    BY <1>2 DEF Tx!Redeliver
  <2>2. Head(todo) \in Messages /\ Head(todo) \notin Ahead
    BY <2>1, TxLoopTakes
  <2> QED
    BY <2>1, <2>2, TxNotPending DEF Tx!Executor!CallerStep
<1> QED
  BY <1>1, <1>2

\* commit() and rollback() stop the session from App, or from inside the
\* dispatch of the listener that calls them.
LEMMA TxStops ==
    ASSUME TxInv, Tx!Commit \/ Tx!Rollback
    PROVE  Tx!Executor!CallerStep \/ Tx!Executor!ListenerStops
<1>1. Tx!MayCall /\ Tx!Executor!Stop(Tx!TxThread)
  BY DEF Tx!Commit, Tx!Rollback
<1>2. CASE Tx!TxThread = App
  BY <1>1, <1>2 DEF Tx!Executor!CallerStep
<1>3. CASE Tx!TxThread = Dispatcher
  <2>1. current # <<>>
    BY <1>1, <1>3 DEF Tx!MayCall, TxInv, Tx!TypeOK
  <2> QED
    BY <1>1, <1>3, <2>1 DEF Tx!Executor!ListenerStops
<1> QED
  BY <1>2, <1>3 DEF Tx!TxThread

\* Whatever a step of the transacted session does, its executor sees a step
\* of its own or none.
LEMMA TxUses ==
    ASSUME TxInv, [Tx!Next]_(Tx!vars)
    PROVE  [Tx!Executor!Next]_(Tx!Executor!vars)
<1> SUFFICES Tx!Executor!Next \/ UNCHANGED Tx!Executor!vars
  OBVIOUS
<1>0. UNCHANGED Tx!executorVars => UNCHANGED Tx!Executor!vars
  BY DEF Tx!executorVars, Tx!Executor!vars
<1>1. CASE UNCHANGED Tx!vars
  BY <1>0, <1>1 DEF Tx!vars
<1>2. CASE (\E m \in Messages : Tx!Arrive(m)) \/ Tx!Redeliver
  BY <1>2, TxPushes DEF Tx!Executor!Next
<1>3. CASE Tx!Commit \/ Tx!Rollback
  BY <1>3, TxStops DEF Tx!Executor!Next
<1>4. CASE Tx!ConnectionStart \/ Tx!CommitReturns \/ Tx!RollbackStart
  BY <1>4 DEF Tx!ConnectionStart, Tx!CommitReturns, Tx!RollbackStart,
     Tx!Executor!Next, Tx!Executor!CallerStep
<1>5. CASE Tx!SessionStopped
  BY <1>5 DEF Tx!SessionStopped, Tx!Executor!Next, Tx!Executor!CallerStep
<1>6. CASE Tx!ExecutorStep \/ Tx!SpuriousWakeup
  BY <1>6 DEF Tx!ExecutorStep, Tx!SpuriousWakeup, Tx!Executor!Next, Tx!Executor!ThreadStep
<1>7. CASE Tx!DispatchExpired \/ Tx!OnMessageReturns \/ Tx!PushUnconsumed
  BY <1>7 DEF Tx!DispatchExpired, Tx!OnMessageReturns, Tx!PushUnconsumed,
     Tx!Executor!Next, Tx!Executor!ThreadStep
<1>8. CASE Tx!ConnectionBreaks \/ Tx!ConnectionStop \/ Tx!OnMessage
           \/ Tx!Receive \/ Tx!ReceiveExpired
  BY <1>0, <1>8 DEF Tx!ConnectionBreaks, Tx!ConnectionStop, Tx!OnMessage, Tx!Receive,
     Tx!ReceiveExpired
<1>9. CASE \/ Tx!AckMessages \/ Tx!AckMessagesThrows \/ Tx!AckMessagesDangling
           \/ Tx!ConnectorCommit \/ Tx!ConnectorCommitFails \/ Tx!ClearTransaction
           \/ Tx!StartTransaction \/ Tx!StartTransactionThrows
  BY <1>0, <1>9 DEF Tx!AckMessages, Tx!AckMessagesThrows, Tx!AckMessagesDangling,
     Tx!ConnectorCommit, Tx!ConnectorCommitFails, Tx!ClearTransaction,
     Tx!StartTransaction, Tx!StartTransactionThrows
<1>10. CASE \/ Tx!ConnectorRollback \/ Tx!ConnectorRollbackFails \/ Tx!RedeliverMessages
            \/ Tx!GiveUp \/ Tx!GiveUpThrows \/ Tx!RollbackReturns
  BY <1>0, <1>10 DEF Tx!ConnectorRollback, Tx!ConnectorRollbackFails,
     Tx!RedeliverMessages, Tx!GiveUp, Tx!GiveUpThrows, Tx!RollbackReturns
<1> QED
  BY <1>1, <1>2, <1>3, <1>4, <1>5, <1>6, <1>7, <1>8, <1>9, <1>10
     DEF Tx!Next, Tx!ConsumerStep, Tx!CommitStep, Tx!RollbackStep

\* ActiveMQTransaction and the consumers call the executor as it expects to be
\* called: they push nothing that is pending, and a listener that commits or
\* rolls back stops the session from inside its own dispatch.
THEOREM TransactionUsesExecutor == UsedAsIntended /\ Tx!Spec => Tx!Executor!Spec
<1>1. Tx!Init => Tx!Executor!Init
  BY DEF Tx!Init
<1>2. TxInv /\ [Tx!Next]_(Tx!vars) => [Tx!Executor!Next]_(Tx!Executor!vars)
  BY TxUses
<1> QED
  BY <1>1, <1>2, TxSpec, PTL DEF Tx!Spec, Tx!Executor!Spec

\* An executor whose callers are App and Owner is the one of the session.
LEMMA TxSameExecutor ==
    ASSUME Callers = {App, Owner}
    PROVE  /\ Tx!Executor!Init => Init
           /\ [Tx!Executor!Next]_(Tx!Executor!vars) => [Next]_vars
<1>1. Tx!Executor!Init => Init
  BY DEF Tx!Executor!Init, Init
<1>2. UNCHANGED Tx!Executor!vars => UNCHANGED vars
  BY DEF Tx!Executor!vars, vars
<1>3. Tx!Executor!Next => Next
  <2>1. Tx!Executor!Notified = Notified
    BY DEF Tx!Executor!Notified, Notified
  <2>2. Tx!Executor!ToSet(Tx!Executor!Pending) = ToSet(Pending)
    BY DEF Tx!Executor!ToSet, Tx!Executor!Pending, ToSet, Pending
  <2>3. ASSUME NEW m
        PROVE  /\ Tx!Executor!Execute(m) => Execute(m)
               /\ Tx!Executor!ExecuteFirst(m) => ExecuteFirst(m)
    BY <2>1 DEF Tx!Executor!Execute, Tx!Executor!ExecuteFirst, Execute, ExecuteFirst
  <2>4. ASSUME NEW c PROVE Tx!Executor!Purge(c) => Purge(c)
    BY DEF Tx!Executor!Purge, Purge, Tx!Executor!Selected, Selected,
       Tx!Executor!Cardinality, Cardinality, Tx!Executor!IsFiniteSet, IsFiniteSet
  <2>5. Tx!Executor!Start => Start
    BY <2>1 DEF Tx!Executor!Start, Start
  <2>6. ASSUME NEW t PROVE Tx!Executor!Stop(t) => Stop(t)
    BY DEF Tx!Executor!Stop, Stop
  <2>7. Tx!Executor!CallerStep => CallerStep
    BY <2>2, <2>3, <2>4, <2>5, <2>6 DEF Tx!Executor!CallerStep, CallerStep
  <2>8. Tx!Executor!ListenerStops => ListenerStops
    BY <2>6 DEF Tx!Executor!ListenerStops, ListenerStops
  <2>9. Tx!Executor!Close \/ Tx!Executor!CloserStep => Close \/ CloserStep
    BY <2>1 DEF Tx!Executor!Close, Tx!Executor!CloserStep, Tx!Executor!Join,
       Tx!Executor!Clear, Close, CloserStep, Join, Clear
  <2>10. Tx!Executor!ThreadStep => ThreadStep
    <3>1. /\ Tx!Executor!TakeBatch => TakeBatch
          /\ Tx!Executor!Dispatch => Dispatch
          /\ Tx!Executor!DispatchReturns => DispatchReturns
          /\ Tx!Executor!EndBatch => EndBatch
          /\ Tx!Executor!Decide => Decide
      BY DEF Tx!Executor!TakeBatch, Tx!Executor!Dispatch, Tx!Executor!DispatchReturns,
         Tx!Executor!EndBatch, Tx!Executor!Decide,
         TakeBatch, Dispatch, DispatchReturns, EndBatch, Decide
    <3> QED
      BY <3>1 DEF Tx!Executor!ThreadStep, ThreadStep
  <2>11. Tx!Executor!SpuriousWakeup => SpuriousWakeup
    BY DEF Tx!Executor!SpuriousWakeup, SpuriousWakeup
  <2> QED
    BY <2>7, <2>8, <2>9, <2>10, <2>11 DEF Tx!Executor!Next, Next
<1> QED
  BY <1>1, <1>2, <1>3

\* The session's executor is a pausable queue under commits and rollbacks, its
\* stop() is granted, and its thread does not sleep on what a rollback has put
\* back.
THEOREM TransactionKeepsOrder ==
    UsedAsIntended /\ Callers = {App, Owner} /\ Tx!Spec
      => ImplementsPausableQueue /\ []StopIsQuiet /\ []NoMissedWakeup
<1> SUFFICES ASSUME UsedAsIntended, Callers = {App, Owner}
             PROVE  Tx!Spec => ImplementsPausableQueue /\ []StopIsQuiet /\ []NoMissedWakeup
  OBVIOUS
<1>1. (Tx!Executor!Init => Init)
      /\ ([Tx!Executor!Next]_(Tx!Executor!vars) => [Next]_vars)
  BY TxSameExecutor
<1>2. Tx!Spec => Spec
  BY <1>1, TransactionUsesExecutor, PTL DEF Tx!Executor!Spec, Spec
<1> QED
  BY <1>2, ExecutorRefines, StopIsGranted, WakeupsReachTheThread, PTL
==============================================================================
