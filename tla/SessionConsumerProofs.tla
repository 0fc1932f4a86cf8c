------------------------ MODULE SessionConsumerProofs ------------------------
(***************************************************************************)
(* Proofs about SessionConsumer: for every set of consumers, every number  *)
(* of messages and every assignment of the ones to the others, and for all *)
(* that the connection, the threads and the application may do,            *)
(*   - a message is neither dropped, nor doubled, nor stranded (Accounted),*)
(*   - a close is final (CloseIsFinal),                                    *)
(*   - a consumer's messages are given in the order in which they were     *)
(*     sent, and acknowledged (GivenInOrderAndAcknowledged).               *)
(* Used of the constants: App, Owner and Dispatcher are three, there is a  *)
(* consumer, receive() is called on consumers, and each message is for one.*)
(*                                                                         *)
(* The invariant ConsumerInv has four layers.                              *)
(*   - PlaceInv: the types, where a call may be (Calling), and that a      *)
(*     message is once, in one place (Singly, Apart).  Tracked says what   *)
(*     became of each message that was sent.  A lemma <Action>Moves says   *)
(*     for each step that moves messages which sets it changes; Kept is    *)
(*     what the other steps do.                                            *)
(*   - Losing and Stranding: who may drop a message, and who still looks   *)
(*     for one.                                                            *)
(*   - Stopped, Silent and Safe: what a close has done when it is at a     *)
(*     certain place, Gone, and that no thread undoes it.  A step is       *)
(*     described by what it does to the maps (Narrows), the messages       *)
(*     (Passes) and the close (Closes); the rest follows from these three. *)
(*   - Settled and Ordered: the places of a consumer's messages form a     *)
(*     line, Line, and each place is a row, Rows.                          *)
(* The lemmas that are named after a group of actions say that these keep  *)
(* one of the parts.                                                       *)
(***************************************************************************)
EXTENDS SessionConsumer, FiniteSetTheorems, TLAPS

-----------------------------------------------------------------------------
(* Sequences as the places of messages *)

\* A place without a message.
LEMMA EmptyPlace == ToSet(<<>>) = {} /\ IsInjective(<<>>)
  BY DEF ToSet, IsInjective

\* A place with one.
LEMMA OnePlace ==
    ASSUME NEW m
    PROVE  ToSet(<<m>>) = {m} /\ IsInjective(<<m>>)
  BY DEF ToSet, IsInjective

\* Two places, one behind the other.
LEMMA JoinedPlaces ==
    ASSUME NEW S, NEW s \in Seq(S), NEW t \in Seq(S)
    PROVE  /\ ToSet(s \o t) = ToSet(s) \cup ToSet(t)
           /\ IsInjective(s \o t) <=>
                /\ IsInjective(s) /\ IsInjective(t)
                /\ ToSet(s) \cap ToSet(t) = {}
<1>1. /\ Len(s) \in Nat /\ Len(t) \in Nat /\ DOMAIN s = 1..Len(s) /\ DOMAIN t = 1..Len(t)
      /\ DOMAIN (s \o t) = 1..(Len(s) + Len(t))
  OBVIOUS
<1>2. /\ \A i \in 1..Len(s) : (s \o t)[i] = s[i]
      /\ \A i \in 1..Len(t) : (s \o t)[i + Len(s)] = t[i]
  OBVIOUS
<1>3. \A i \in 1..(Len(s) + Len(t)) :
         \/ i \in 1..Len(s)
         \/ i - Len(s) \in 1..Len(t) /\ i = (i - Len(s)) + Len(s)
  BY <1>1
<1>4. \A i \in 1..Len(t) : i + Len(s) \in 1..(Len(s) + Len(t))
  BY <1>1
<1>5. \A i \in 1..Len(s) : i \in 1..(Len(s) + Len(t))
  BY <1>1
<1>6. ToSet(s \o t) = ToSet(s) \cup ToSet(t)
  BY <1>1, <1>2, <1>3, <1>4, <1>5 DEF ToSet
<1>7. ASSUME IsInjective(s \o t)
      PROVE  IsInjective(s) /\ IsInjective(t) /\ ToSet(s) \cap ToSet(t) = {}
  <2>1. IsInjective(s)
    BY <1>1, <1>2, <1>5, <1>7 DEF IsInjective
  <2>2. IsInjective(t)
    <3> SUFFICES ASSUME NEW i \in 1..Len(t), NEW j \in 1..Len(t), t[i] = t[j]
                 PROVE  i = j
      BY <1>1 DEF IsInjective
    <3>1. (s \o t)[i + Len(s)] = (s \o t)[j + Len(s)]
      BY <1>2
    <3>2. i + Len(s) = j + Len(s)
      BY <1>1, <1>4, <1>7, <3>1 DEF IsInjective
    <3> QED
      BY <1>1, <3>2
  <2>3. ASSUME NEW i \in 1..Len(s), NEW j \in 1..Len(t), s[i] = t[j]
        PROVE  FALSE
    <3>1. i = j + Len(s)
      BY <1>1, <1>2, <1>4, <1>5, <1>7, <2>3 DEF IsInjective
    <3> QED
      BY <1>1, <3>1
  <2> QED
    BY <1>1, <2>1, <2>2, <2>3 DEF ToSet
<1>8. ASSUME IsInjective(s), IsInjective(t), ToSet(s) \cap ToSet(t) = {}
      PROVE  IsInjective(s \o t)
  <2> SUFFICES ASSUME NEW i \in 1..(Len(s) + Len(t)), NEW j \in 1..(Len(s) + Len(t)),
                      (s \o t)[i] = (s \o t)[j]
               PROVE  i = j
    BY <1>1 DEF IsInjective
  <2>0. \A k \in 1..Len(s), l \in 1..Len(t) : s[k] # t[l]
    BY <1>1, <1>8 DEF ToSet
  <2>1. CASE i \in 1..Len(s) /\ j \in 1..Len(s)
    BY <1>1, <1>2, <1>8, <2>1 DEF IsInjective
  <2>2. CASE i \notin 1..Len(s) /\ j \notin 1..Len(s)
    <3>1. t[i - Len(s)] = t[j - Len(s)]
      BY <1>2, <1>3, <2>2
    <3>2. i - Len(s) = j - Len(s)
      BY <1>1, <1>3, <1>8, <2>2, <3>1 DEF IsInjective
    <3> QED
      BY <1>1, <3>2
  <2>3. CASE i \in 1..Len(s) /\ j \notin 1..Len(s)
    BY <1>2, <1>3, <2>0, <2>3
  <2>4. CASE i \notin 1..Len(s) /\ j \in 1..Len(s)
    BY <1>2, <1>3, <2>0, <2>4
  <2> QED
    BY <2>1, <2>2, <2>3, <2>4
<1> QED
  BY <1>6, <1>7, <1>8

\* The first message of a place, and the others.
LEMMA FirstAndRest ==
    ASSUME NEW S, NEW s \in Seq(S), s # <<>>
    PROVE  /\ Head(s) \in S /\ Tail(s) \in Seq(S) /\ s = <<Head(s)>> \o Tail(s)
           /\ ToSet(s) = {Head(s)} \cup ToSet(Tail(s))
           /\ IsInjective(s) => IsInjective(Tail(s)) /\ Head(s) \notin ToSet(Tail(s))
<1>1. Head(s) \in S /\ Tail(s) \in Seq(S) /\ s = <<Head(s)>> \o Tail(s)
  OBVIOUS
<1>2. <<Head(s)>> \in Seq(S)
  BY <1>1
<1>3. /\ ToSet(<<Head(s)>> \o Tail(s)) = ToSet(<<Head(s)>>) \cup ToSet(Tail(s))
      /\ IsInjective(<<Head(s)>> \o Tail(s)) =>
            IsInjective(Tail(s)) /\ ToSet(<<Head(s)>>) \cap ToSet(Tail(s)) = {}
  BY <1>1, <1>2, JoinedPlaces
<1>5. ToSet(<<Head(s)>>) = {Head(s)}
  BY OnePlace
<1>4. ToSet(s) = ToSet(<<Head(s)>> \o Tail(s))
      /\ IsInjective(s) = IsInjective(<<Head(s)>> \o Tail(s))
  BY <1>1
<1> QED
  BY <1>1, <1>3, <1>4, <1>5

\* A list that redispatch has turned round.
LEMMA ReversedPlaces ==
    ASSUME NEW S, NEW s \in Seq(S)
    PROVE  /\ Reverse(s) \in Seq(S) /\ ToSet(Reverse(s)) = ToSet(s)
           /\ IsInjective(s) => IsInjective(Reverse(s))
<1>1. /\ Len(s) \in Nat /\ DOMAIN s = 1..Len(s)
      /\ \A i \in 1..Len(s) : s[i] \in S
      /\ DOMAIN Reverse(s) = 1..Len(s)
  BY DEF Reverse
<1>2. \A i \in 1..Len(s) :
         /\ (Len(s) - i) + 1 \in 1..Len(s)
         /\ i = (Len(s) - ((Len(s) - i) + 1)) + 1
         /\ Reverse(s)[i] = s[(Len(s) - i) + 1]
  BY <1>1 DEF Reverse
<1>3. Reverse(s) \in Seq(S)
  BY <1>1, <1>2 DEF Reverse
<1>4. ToSet(Reverse(s)) = ToSet(s)
  <2>1. \A i \in 1..Len(s) : Reverse(s)[i] \in ToSet(s)
    BY <1>1, <1>2 DEF ToSet
  <2>2. \A i \in 1..Len(s) : s[i] = Reverse(s)[(Len(s) - i) + 1]
    BY <1>2
  <2> QED
    BY <1>1, <1>2, <2>1, <2>2 DEF ToSet
<1>5. ASSUME IsInjective(s) PROVE IsInjective(Reverse(s))
  <2> SUFFICES ASSUME NEW i \in 1..Len(s), NEW j \in 1..Len(s),
                      Reverse(s)[i] = Reverse(s)[j]
               PROVE  i = j
    BY <1>1 DEF IsInjective
  <2>1. (Len(s) - i) + 1 = (Len(s) - j) + 1
    BY <1>1, <1>2, <1>5 DEF IsInjective
  <2> QED
    BY <1>1, <2>1
<1> QED
  BY <1>3, <1>4, <1>5

\* The cardinality that the executor's module speaks of.
LEMMA SameCardinality == ASSUME NEW S PROVE Executor!Cardinality(S) = Cardinality(S)
  BY DEF Executor!Cardinality, Cardinality

\* What is kept of a queue keeps its order, and all of it is kept.
LEMMA SelectedPlaces ==
    ASSUME NEW S, NEW q \in Seq(S), NEW I \in SUBSET DOMAIN q,
           NEW r \in Executor!Selected(q, I)
    PROVE  /\ r \in Seq(S) /\ ToSet(r) = {q[i] : i \in I}
           /\ \E f \in [1..Len(r) -> I] :
                /\ \A i, j \in 1..Len(r) : i < j => f[i] < f[j]
                /\ \A i \in 1..Len(r) : r[i] = q[f[i]]
           /\ IsInjective(q) => IsInjective(r)
<1> DEFINE n == Cardinality(I)
<1>1. DOMAIN q = 1..Len(q) /\ Len(q) \in Nat /\ I \subseteq 1..Len(q)
  OBVIOUS
<1>2. IsFiniteSet(I) /\ n \in Nat
  <2>1. IsFiniteSet(1..Len(q))
    BY <1>1, FS_Interval
  <2> QED
    BY <1>1, <2>1, FS_Subset, FS_CardinalityType
<1>3. PICK f \in [1..n -> I] :
        /\ \A i, j \in 1..n : i < j => f[i] < f[j]
        /\ r = [i \in 1..n |-> q[f[i]]]
  BY SameCardinality DEF Executor!Selected
<1> HIDE DEF n
<1>4. IsFiniteSet(1..n) /\ Cardinality(1..n) = n
  <2>1. Cardinality(1..n) = IF 1 > n THEN 0 ELSE n - 1 + 1
    BY <1>2, FS_Interval
  <2> QED
    BY <1>2, <2>1, FS_Interval
<1>5. \A i, j \in 1..n : f[i] = f[j] => i = j
  <2> SUFFICES ASSUME NEW i \in 1..n, NEW j \in 1..n, f[i] = f[j], i # j PROVE FALSE
    OBVIOUS
  <2>1. f[i] \in Nat /\ f[j] \in Nat
    BY <1>1, <1>3
  <2>2. i < j \/ j < i
    BY <1>2
  <2> QED
    BY <1>3, <2>1, <2>2
<1>6. \A k \in I : \E i \in 1..n : f[i] = k
  <2>1. f \in Injection(1..n, I)
    BY <1>3, <1>5 DEF Injection, IsInjective
  <2>2. f \in Surjection(1..n, I)
    BY <1>2, <1>4, <2>1, FS_Injection DEF n
  <2> QED
    BY <2>2 DEF Surjection
<1>7. r \in Seq(S) /\ Len(r) = n /\ DOMAIN r = 1..n
  <2>1. \A i \in 1..n : q[f[i]] \in S
    BY <1>1, <1>3
  <2> QED
    BY <1>2, <1>3, <2>1
<1>8. ToSet(r) = {q[i] : i \in I}
  BY <1>3, <1>6, <1>7 DEF ToSet
<1>9. ASSUME IsInjective(q) PROVE IsInjective(r)
  <2> SUFFICES ASSUME NEW i \in 1..n, NEW j \in 1..n, r[i] = r[j] PROVE i = j
    BY <1>7 DEF IsInjective
  <2>1. f[i] = f[j]
    BY <1>1, <1>3, <1>9 DEF IsInjective
  <2> QED
    BY <1>5, <2>1
<1> QED
  BY <1>3, <1>7, <1>8, <1>9

-----------------------------------------------------------------------------
(* The invariant: types, and where a call is *)

ExecutorTypes ==
    Executor!TypeOK /\ closer = "open" /\ ~closed /\ thread # "dead"

ConnectionTypes ==
    /\ connStarted \in BOOLEAN /\ state \in {"connected", "broken", "error"}
    /\ consumerInfoMap \subseteq Consumers
    /\ dispatchers \subseteq Consumers /\ consumers \subseteq Consumers

ConsumerTypes ==
    /\ listening \subseteq Consumers
    /\ deleted \subseteq closedConsumers /\ closedConsumers \subseteq Consumers
    /\ unconsumed \in [Consumers -> Seq(Messages)]

ThreadTypes ==
    /\ reader \in AtMostOne
    /\ position \in {"idle", "entered", "found", "pushing", "listening"}
    /\ position = "idle" <=> current = <<>>
    /\ receiver \in [at : {"idle", "testing", "waiting", "took"},
                     on : Consumers, forever : BOOLEAN, message : AtMostOne]
    /\ receiver.at = "took" <=> receiver.message # <<>>
    /\ reversedList \in Seq(Messages)

CallTypes ==
    /\ call \in [op : {"none", "listen", "close"}, at : CallPositions,
                 by : {App, Dispatcher}, on : Consumers, wasStarted : BOOLEAN]
    /\ call.op = "none" <=> call = NoCall

HistoryTypes ==
    /\ sent \subseteq Messages
    /\ raced \subseteq listening
    /\ mishaps \subseteq {"start", "stop", "unsent", "inside"}
    /\ undefined \in {"no", "reader", "dispatcher"}

\* Where a call is, and what has become of its consumer.  A call from inside a
\* listener keeps the Dispatcher there.
Calling ==
    /\ call.op = "listen" =>
          /\ call.at \in {"asking", "stopping", "working", "redispatching",
                          "restarting"}
          /\ call.on \in listening \ closedConsumers
    /\ call.op = "close" =>
          /\ call.at \in CallPositions \ {"none", "redispatching"}
          /\ call.on \in closedConsumers <=> call.at \in {"emptying", "notifying"}
    /\ reversedList # <<>> => call.op = "listen" /\ call.at = "redispatching"
    /\ call.op # "none" /\ call.by = Dispatcher => position = "listening"

TypeInv == /\ ExecutorTypes /\ ConnectionTypes /\ ConsumerTypes /\ ThreadTypes
           /\ CallTypes /\ HistoryTypes /\ Calling

-----------------------------------------------------------------------------

\* The three threads are three.
LEMMA ThreadsDiffer == App # Owner /\ App # Dispatcher /\ Owner # Dispatcher
<1>1. ASSUME NEW x, NEW y PROVE Cardinality({x, y}) \in {1, 2}
  <2>1. IsFiniteSet({x}) /\ Cardinality({x}) = 1
    BY FS_Singleton
  <2>2. Cardinality({x} \cup {y}) =
          IF y \in {x} THEN Cardinality({x}) ELSE Cardinality({x}) + 1
    BY <2>1, FS_AddElement
  <2>3. {x} \cup {y} = {x, y}
    OBVIOUS
  <2> QED
    BY <2>1, <2>2, <2>3
<1>2. ASSUME NEW x, NEW y, {App, Owner, Dispatcher} = {x, y} PROVE FALSE
  <2>1. Cardinality({x, y}) = Cardinality({App, Owner, Dispatcher})
    BY <1>2
  <2>2. Cardinality({App, Owner, Dispatcher}) \in {1, 2}
    BY <1>1, <2>1
  <2>3. 3 \notin {1, 2}
    OBVIOUS
  <2> QED
    BY <2>2, <2>3, ThreadsAssumption
<1>3. App = Owner => {App, Owner, Dispatcher} = {App, Dispatcher}
  OBVIOUS
<1>4. App = Dispatcher => {App, Owner, Dispatcher} = {App, Owner}
  OBVIOUS
<1>5. Owner = Dispatcher => {App, Owner, Dispatcher} = {App, Owner}
  OBVIOUS
<1> QED
  BY <1>2, <1>3, <1>4, <1>5

\* There is a consumer.
LEMMA AnyConsumerIs == AnyConsumer \in Consumers
  BY ConsumersAssumption DEF AnyConsumer

\* A place for one message.
LEMMA OneAtMost ==
    ASSUME NEW s \in AtMostOne
    PROVE  /\ s \in Seq(Messages) /\ IsInjective(s)
           /\ s = <<>> => ToSet(s) = {}
           /\ s # <<>> => s[1] \in Messages /\ s = <<s[1]>> /\ ToSet(s) = {s[1]}
<1>1. CASE s = <<>>
  BY <1>1, EmptyPlace
<1>2. CASE s # <<>>
  <2>1. PICK m \in Messages : s = <<m>>
    BY <1>2 DEF AtMostOne
  <2>2. <<m>>[1] = m /\ <<m>> \in Seq(Messages) /\ <<m>> # <<>>
    OBVIOUS
  <2>3. ToSet(<<m>>) = {m} /\ IsInjective(<<m>>)
    BY OnePlace
  <2> QED
    BY <2>1, <2>2, <2>3
<1> QED
  BY <1>1, <1>2

\* Every message is for a consumer.
LEMMA ConsumerOfIs == \A m \in Messages : ConsumerOf[m] \in Consumers
  BY ConsumerOfAssumption

\* The reader, and the loss of the connection.
LEMMA ReaderTyped ==
    ASSUME TypeInv,
           \/ OnCommand \/ OnConsumerMessage \/ ReaderUsesDeleted
           \/ OnTransportException \/ ConnectionBreaks
    PROVE  TypeInv'
<1> USE DEF OnCommand, OnConsumerMessage, Executor!Execute, Executor!Notified,
        ReaderUsesDeleted, OnTransportException, ConnectionBreaks, executorVars,
        connectionVars, consumerVars, historyVars
<1>1. ExecutorTypes'
  <2>1. CASE OnCommand
    BY <2>1 DEF ExecutorTypes, Executor!TypeOK, Executor!FlagsTypeOK,
       Executor!ThreadsTypeOK, Executor!QueueTypeOK, ThreadTypes, AtMostOne,
       TypeInv
  <2>2. CASE OnConsumerMessage
    <3>1. reader[1] \in Messages /\ messageQueue \in Seq(Messages)
      BY <2>2, OneAtMost DEF TypeInv, ThreadTypes, ExecutorTypes, Executor!TypeOK,
         Executor!QueueTypeOK
    <3>2. Append(messageQueue, reader[1]) \in Seq(Messages)
      BY <3>1
    <3> QED
      BY <2>2, <3>2 DEF ExecutorTypes, Executor!TypeOK, Executor!FlagsTypeOK,
         Executor!ThreadsTypeOK, Executor!QueueTypeOK, ThreadTypes, AtMostOne,
         TypeInv
  <2>3. CASE ReaderUsesDeleted
    BY <2>3 DEF ExecutorTypes, Executor!TypeOK, Executor!FlagsTypeOK,
       Executor!ThreadsTypeOK, Executor!QueueTypeOK, ThreadTypes, AtMostOne,
       TypeInv
  <2>4. CASE OnTransportException
    BY <2>4 DEF ExecutorTypes, Executor!TypeOK, Executor!FlagsTypeOK,
       Executor!ThreadsTypeOK, Executor!QueueTypeOK, ThreadTypes, AtMostOne,
       TypeInv
  <2>5. CASE ConnectionBreaks
    BY <2>5 DEF ExecutorTypes, Executor!TypeOK, Executor!FlagsTypeOK,
       Executor!ThreadsTypeOK, Executor!QueueTypeOK, ThreadTypes, AtMostOne,
       TypeInv
  <2> QED
    BY <2>1, <2>2, <2>3, <2>4, <2>5
<1>2. ConnectionTypes'
  BY DEF ConnectionTypes, TypeInv
<1>3. ConsumerTypes'
  BY DEF ConsumerTypes, ThreadTypes, AtMostOne, ExecutorTypes, Executor!TypeOK,
     Executor!QueueTypeOK, TypeInv
<1>4. ThreadTypes'
  BY DEF ThreadTypes, AtMostOne, ConsumerTypes, ExecutorTypes, Executor!TypeOK,
     Executor!QueueTypeOK, Calling, TypeInv
<1>5. CallTypes'
  BY DEF CallTypes, CallPositions, NoCall, TypeInv
<1>6. HistoryTypes'
  BY DEF HistoryTypes, ConsumerTypes, ThreadTypes, AtMostOne, TypeInv
<1>7. Calling'
  BY DEF Calling, CallTypes, CallPositions, NoCall, ThreadTypes, ConsumerTypes,
     ExecutorTypes, Executor!TypeOK, Executor!QueueTypeOK, TypeInv
<1> QED
  BY <1>1, <1>2, <1>3, <1>4, <1>5, <1>6, <1>7 DEF TypeInv

\* The connection is started and stopped.
LEMMA ConnectionTyped ==
    ASSUME TypeInv,
           \/ ConnectionStart \/ ConnectionStop \/ ListenerStops
    PROVE  TypeInv'
<1> USE DEF ConnectionStart, Executor!Start, Executor!Notified, ConnectionStop,
        Executor!Stop, ListenerStops, executorVars, connectionVars, consumerVars,
        historyVars
<1>1. ExecutorTypes'
  <2>1. CASE ConnectionStart
    BY <2>1 DEF ExecutorTypes, Executor!TypeOK, Executor!FlagsTypeOK,
       Executor!ThreadsTypeOK, Executor!QueueTypeOK, ThreadTypes, AtMostOne,
       TypeInv
  <2>2. CASE ConnectionStop
    BY <2>2 DEF ExecutorTypes, Executor!TypeOK, Executor!FlagsTypeOK,
       Executor!ThreadsTypeOK, Executor!QueueTypeOK, ThreadTypes, AtMostOne,
       TypeInv
  <2>3. CASE ListenerStops
    BY <2>3 DEF ExecutorTypes, Executor!TypeOK, Executor!FlagsTypeOK,
       Executor!ThreadsTypeOK, Executor!QueueTypeOK, ThreadTypes, AtMostOne,
       TypeInv
  <2> QED
    BY <2>1, <2>2, <2>3
<1>2. ConnectionTypes'
  BY DEF ConnectionTypes, TypeInv
<1>3. ConsumerTypes'
  BY DEF ConsumerTypes, ThreadTypes, AtMostOne, ExecutorTypes, Executor!TypeOK,
     Executor!QueueTypeOK, TypeInv
<1>4. ThreadTypes'
  BY DEF ThreadTypes, AtMostOne, ConsumerTypes, ExecutorTypes, Executor!TypeOK,
     Executor!QueueTypeOK, Calling, TypeInv
<1>5. CallTypes'
  BY DEF CallTypes, CallPositions, NoCall, TypeInv
<1>6. HistoryTypes'
  BY DEF HistoryTypes, ConsumerTypes, ThreadTypes, AtMostOne, TypeInv
<1>7. Calling'
  BY DEF Calling, CallTypes, CallPositions, NoCall, ThreadTypes, ConsumerTypes,
     ExecutorTypes, Executor!TypeOK, Executor!QueueTypeOK, TypeInv
<1> QED
  BY <1>1, <1>2, <1>3, <1>4, <1>5, <1>6, <1>7 DEF TypeInv

\* The executor takes a batch, and a message from it.
LEMMA BatchTyped ==
    ASSUME TypeInv,
           \/ ExecutorStep \/ Dispatch \/ SpuriousWakeup
    PROVE  TypeInv'
<1> USE DEF ExecutorStep, Executor!TakeBatch, Executor!EndBatch, Executor!Decide,
        Dispatch, Executor!Dispatch, SpuriousWakeup, Executor!SpuriousWakeup,
        executorVars, connectionVars, consumerVars, historyVars
<1>1. ExecutorTypes'
  <2>1. CASE ExecutorStep
    BY <2>1 DEF ExecutorTypes, Executor!TypeOK, Executor!FlagsTypeOK,
       Executor!ThreadsTypeOK, Executor!QueueTypeOK, ThreadTypes, AtMostOne,
       TypeInv
  <2>2. CASE Dispatch
    BY <2>2 DEF ExecutorTypes, Executor!TypeOK, Executor!FlagsTypeOK,
       Executor!ThreadsTypeOK, Executor!QueueTypeOK, ThreadTypes, AtMostOne,
       TypeInv
  <2>3. CASE SpuriousWakeup
    BY <2>3 DEF ExecutorTypes, Executor!TypeOK, Executor!FlagsTypeOK,
       Executor!ThreadsTypeOK, Executor!QueueTypeOK, ThreadTypes, AtMostOne,
       TypeInv
  <2> QED
    BY <2>1, <2>2, <2>3
<1>2. ConnectionTypes'
  BY DEF ConnectionTypes, TypeInv
<1>3. ConsumerTypes'
  BY DEF ConsumerTypes, ThreadTypes, AtMostOne, ExecutorTypes, Executor!TypeOK,
     Executor!QueueTypeOK, TypeInv
<1>4. ThreadTypes'
  <2>1. CASE ExecutorStep
    BY <2>1 DEF ThreadTypes, AtMostOne, ConsumerTypes, ExecutorTypes,
       Executor!TypeOK, Executor!QueueTypeOK, Calling, TypeInv
  <2>2. CASE Dispatch
    BY <2>2 DEF ThreadTypes, AtMostOne, ConsumerTypes, ExecutorTypes,
       Executor!TypeOK, Executor!QueueTypeOK, Calling, TypeInv
  <2>3. CASE SpuriousWakeup
    BY <2>3 DEF ThreadTypes, AtMostOne, ConsumerTypes, ExecutorTypes,
       Executor!TypeOK, Executor!QueueTypeOK, Calling, TypeInv
  <2> QED
    BY <2>1, <2>2, <2>3
<1>5. CallTypes'
  BY DEF CallTypes, CallPositions, NoCall, TypeInv
<1>6. HistoryTypes'
  BY DEF HistoryTypes, ConsumerTypes, ThreadTypes, AtMostOne, TypeInv
<1>7. Calling'
  BY DEF Calling, CallTypes, CallPositions, NoCall, ThreadTypes, ConsumerTypes,
     ExecutorTypes, Executor!TypeOK, Executor!QueueTypeOK, TypeInv
<1> QED
  BY <1>1, <1>2, <1>3, <1>4, <1>5, <1>6, <1>7 DEF TypeInv

\* A message is dispatched.
LEMMA DispatchTyped ==
    ASSUME TypeInv,
           \/ LookUp \/ DispatchExpired \/ OnMessage \/ NoListener
           \/ PushUnconsumed \/ OnMessageReturns \/ UsesDeleted
    PROVE  TypeInv'
<1> USE DEF LookUp, Executor!DispatchReturns, IsAt, DispatchExpired, Expires,
        OnMessage, NoListener, PushUnconsumed, WakeReceiver, OnMessageReturns,
        UsesDeleted, executorVars, connectionVars, consumerVars, historyVars
<1>1. ExecutorTypes'
  BY DEF ExecutorTypes, Executor!TypeOK, Executor!FlagsTypeOK,
     Executor!ThreadsTypeOK, Executor!QueueTypeOK, ThreadTypes, AtMostOne, TypeInv
<1>2. ConnectionTypes'
  BY DEF ConnectionTypes, TypeInv
<1>3. ConsumerTypes'
  <2>1. CASE LookUp
    BY <2>1 DEF ConsumerTypes, ThreadTypes, AtMostOne, ExecutorTypes,
       Executor!TypeOK, Executor!QueueTypeOK, TypeInv
  <2>2. CASE DispatchExpired
    BY <2>2 DEF ConsumerTypes, ThreadTypes, AtMostOne, ExecutorTypes,
       Executor!TypeOK, Executor!QueueTypeOK, TypeInv
  <2>3. CASE OnMessage
    BY <2>3 DEF ConsumerTypes, ThreadTypes, AtMostOne, ExecutorTypes,
       Executor!TypeOK, Executor!QueueTypeOK, TypeInv
  <2>4. CASE NoListener
    BY <2>4 DEF ConsumerTypes, ThreadTypes, AtMostOne, ExecutorTypes,
       Executor!TypeOK, Executor!QueueTypeOK, TypeInv
  <2>5. CASE PushUnconsumed
    <3>1. current \in Seq(Messages) /\ current[1] \in Messages
      BY <2>5, OneAtMost DEF TypeInv, ThreadTypes, AtMostOne, ExecutorTypes,
         Executor!TypeOK, Executor!QueueTypeOK
    <3>2. Target \in Consumers
      BY <3>1, ConsumerOfIs DEF Target
    <3>3. unconsumed[Target] \o current \in Seq(Messages)
      BY <3>1, <3>2 DEF TypeInv, ConsumerTypes
    <3> QED
      BY <2>5, <3>2, <3>3 DEF ConsumerTypes, TypeInv
  <2>6. CASE OnMessageReturns
    BY <2>6 DEF ConsumerTypes, ThreadTypes, AtMostOne, ExecutorTypes,
       Executor!TypeOK, Executor!QueueTypeOK, TypeInv
  <2>7. CASE UsesDeleted
    BY <2>7 DEF ConsumerTypes, ThreadTypes, AtMostOne, ExecutorTypes,
       Executor!TypeOK, Executor!QueueTypeOK, TypeInv
  <2> QED
    BY <2>1, <2>2, <2>3, <2>4, <2>5, <2>6, <2>7
<1>4. ThreadTypes'
  <2>1. CASE LookUp
    BY <2>1 DEF ThreadTypes, AtMostOne, ConsumerTypes, ExecutorTypes,
       Executor!TypeOK, Executor!QueueTypeOK, Calling, TypeInv
  <2>2. CASE DispatchExpired
    BY <2>2 DEF ThreadTypes, AtMostOne, ConsumerTypes, ExecutorTypes,
       Executor!TypeOK, Executor!QueueTypeOK, Calling, TypeInv
  <2>3. CASE OnMessage
    BY <2>3 DEF ThreadTypes, AtMostOne, ConsumerTypes, ExecutorTypes,
       Executor!TypeOK, Executor!QueueTypeOK, Calling, TypeInv
  <2>4. CASE NoListener
    BY <2>4 DEF ThreadTypes, AtMostOne, ConsumerTypes, ExecutorTypes,
       Executor!TypeOK, Executor!QueueTypeOK, Calling, TypeInv
  <2>5. CASE PushUnconsumed
    BY <2>5 DEF ThreadTypes, AtMostOne, ConsumerTypes, ExecutorTypes,
       Executor!TypeOK, Executor!QueueTypeOK, Calling, TypeInv
  <2>6. CASE OnMessageReturns
    BY <2>6 DEF ThreadTypes, AtMostOne, ConsumerTypes, ExecutorTypes,
       Executor!TypeOK, Executor!QueueTypeOK, Calling, TypeInv
  <2>7. CASE UsesDeleted
    BY <2>7 DEF ThreadTypes, AtMostOne, ConsumerTypes, ExecutorTypes,
       Executor!TypeOK, Executor!QueueTypeOK, Calling, TypeInv
  <2> QED
    BY <2>1, <2>2, <2>3, <2>4, <2>5, <2>6, <2>7
<1>5. CallTypes'
  BY DEF CallTypes, CallPositions, NoCall, TypeInv
<1>6. HistoryTypes'
  BY DEF HistoryTypes, ConsumerTypes, ThreadTypes, AtMostOne, TypeInv
<1>7. Calling'
  BY DEF Calling, CallTypes, CallPositions, NoCall, ThreadTypes, ConsumerTypes,
     ExecutorTypes, Executor!TypeOK, Executor!QueueTypeOK, TypeInv
<1> QED
  BY <1>1, <1>2, <1>3, <1>4, <1>5, <1>6, <1>7 DEF TypeInv

\* A message is received.
LEMMA ReceiveTyped ==
    ASSUME TypeInv,
           \/ Receive \/ DequeueWaits \/ DequeueReturnsNull \/ DequeueTakes
           \/ DequeueExpired \/ ReceiveReturns
    PROVE  TypeInv'
<1> USE DEF Receive, DequeueWaits, DequeueReturnsNull, NoReceive, DequeueTakes,
        DequeueExpired, Expires, ReceiveReturns, executorVars, connectionVars,
        consumerVars, historyVars
<1>1. ExecutorTypes'
  BY DEF ExecutorTypes, Executor!TypeOK, Executor!FlagsTypeOK,
     Executor!ThreadsTypeOK, Executor!QueueTypeOK, ThreadTypes, AtMostOne, TypeInv
<1>2. ConnectionTypes'
  BY DEF ConnectionTypes, TypeInv
<1>3. ConsumerTypes'
  <2>1. CASE Receive
    BY <2>1 DEF ConsumerTypes, ThreadTypes, AtMostOne, ExecutorTypes,
       Executor!TypeOK, Executor!QueueTypeOK, TypeInv
  <2>2. CASE DequeueWaits
    BY <2>2 DEF ConsumerTypes, ThreadTypes, AtMostOne, ExecutorTypes,
       Executor!TypeOK, Executor!QueueTypeOK, TypeInv
  <2>3. CASE DequeueReturnsNull
    BY <2>3 DEF ConsumerTypes, ThreadTypes, AtMostOne, ExecutorTypes,
       Executor!TypeOK, Executor!QueueTypeOK, TypeInv
  <2>4. CASE DequeueTakes
    <3> DEFINE q == unconsumed[receiver.on]
    <3>1. receiver.on \in Consumers /\ q \in Seq(Messages) /\ q # <<>>
      BY <2>4 DEF TypeInv, ThreadTypes, ConsumerTypes
    <3>2. Head(q) \in Messages /\ Tail(q) \in Seq(Messages)
      BY <3>1, FirstAndRest
    <3> HIDE DEF q
    <3> QED
      BY <2>4, <3>1, <3>2 DEF q, ConsumerTypes, TypeInv
  <2>5. CASE DequeueExpired
    <3> DEFINE q == unconsumed[receiver.on]
    <3>1. receiver.on \in Consumers /\ q \in Seq(Messages) /\ q # <<>>
      BY <2>5 DEF TypeInv, ThreadTypes, ConsumerTypes
    <3>2. Head(q) \in Messages /\ Tail(q) \in Seq(Messages)
      BY <3>1, FirstAndRest
    <3> HIDE DEF q
    <3> QED
      BY <2>5, <3>1, <3>2 DEF q, ConsumerTypes, TypeInv
  <2>6. CASE ReceiveReturns
    BY <2>6 DEF ConsumerTypes, ThreadTypes, AtMostOne, ExecutorTypes,
       Executor!TypeOK, Executor!QueueTypeOK, TypeInv
  <2> QED
    BY <2>1, <2>2, <2>3, <2>4, <2>5, <2>6
<1>4. ThreadTypes'
  <2>1. CASE Receive
    BY <2>1, ConsumersAssumption DEF ThreadTypes, AtMostOne, ConsumerTypes,
       ExecutorTypes, Executor!TypeOK, Executor!QueueTypeOK, Calling, TypeInv
  <2>2. CASE DequeueWaits
    BY <2>2 DEF ThreadTypes, AtMostOne, ConsumerTypes, ExecutorTypes,
       Executor!TypeOK, Executor!QueueTypeOK, Calling, TypeInv
  <2>3. CASE DequeueReturnsNull
    BY <2>3, AnyConsumerIs DEF ThreadTypes, AtMostOne, ConsumerTypes,
       ExecutorTypes, Executor!TypeOK, Executor!QueueTypeOK, Calling, TypeInv
  <2>4. CASE DequeueTakes
    <3> DEFINE q == unconsumed[receiver.on]
    <3>1. receiver.on \in Consumers /\ q \in Seq(Messages) /\ q # <<>>
      BY <2>4 DEF TypeInv, ThreadTypes, ConsumerTypes
    <3>2. Head(q) \in Messages /\ Tail(q) \in Seq(Messages)
      BY <3>1, FirstAndRest
    <3> HIDE DEF q
    <3> QED
      BY <2>4, <3>1, <3>2 DEF q, ThreadTypes, AtMostOne, ConsumerTypes,
         ExecutorTypes, Executor!TypeOK, Executor!QueueTypeOK, Calling, TypeInv
  <2>5. CASE DequeueExpired
    BY <2>5, AnyConsumerIs DEF ThreadTypes, AtMostOne, ConsumerTypes,
       ExecutorTypes, Executor!TypeOK, Executor!QueueTypeOK, Calling, TypeInv
  <2>6. CASE ReceiveReturns
    BY <2>6, AnyConsumerIs DEF ThreadTypes, AtMostOne, ConsumerTypes,
       ExecutorTypes, Executor!TypeOK, Executor!QueueTypeOK, Calling, TypeInv
  <2> QED
    BY <2>1, <2>2, <2>3, <2>4, <2>5, <2>6
<1>5. CallTypes'
  BY DEF CallTypes, CallPositions, NoCall, TypeInv
<1>6. HistoryTypes'
  BY DEF HistoryTypes, ConsumerTypes, ThreadTypes, AtMostOne, TypeInv
<1>7. Calling'
  BY DEF Calling, CallTypes, CallPositions, NoCall, ThreadTypes, ConsumerTypes,
     ExecutorTypes, Executor!TypeOK, Executor!QueueTypeOK, TypeInv
<1> QED
  BY <1>1, <1>2, <1>3, <1>4, <1>5, <1>6, <1>7 DEF TypeInv

\* A call begins, or a consumer is deleted.
LEMMA CallTyped ==
    ASSUME TypeInv, NEW t \in {App, Dispatcher}, NEW c \in Consumers,
           \/ SetMessageListener(t, c) \/ CloseConsumer(t, c) \/ DeleteConsumer(c)
    PROVE  TypeInv'
<1> USE DEF SetMessageListener, MayCall, IsAt, CloseConsumer, DeleteConsumer,
        executorVars, connectionVars, consumerVars, historyVars
<1>1. ExecutorTypes'
  BY DEF ExecutorTypes, Executor!TypeOK, Executor!FlagsTypeOK,
     Executor!ThreadsTypeOK, Executor!QueueTypeOK, ThreadTypes, AtMostOne, TypeInv
<1>2. ConnectionTypes'
  BY DEF ConnectionTypes, TypeInv
<1>3. ConsumerTypes'
  BY DEF ConsumerTypes, ThreadTypes, AtMostOne, ExecutorTypes, Executor!TypeOK,
     Executor!QueueTypeOK, TypeInv
<1>4. ThreadTypes'
  BY DEF ThreadTypes, AtMostOne, ConsumerTypes, ExecutorTypes, Executor!TypeOK,
     Executor!QueueTypeOK, Calling, TypeInv
<1>5. CallTypes'
  <2>1. CASE SetMessageListener(t, c)
    BY <2>1 DEF CallTypes, CallPositions, NoCall, TypeInv
  <2>2. CASE CloseConsumer(t, c)
    BY <2>2 DEF CallTypes, CallPositions, NoCall, TypeInv
  <2>3. CASE DeleteConsumer(c)
    BY <2>3 DEF CallTypes, CallPositions, NoCall, TypeInv
  <2> QED
    BY <2>1, <2>2, <2>3
<1>6. HistoryTypes'
  BY DEF HistoryTypes, ConsumerTypes, ThreadTypes, AtMostOne, TypeInv
<1>7. Calling'
  BY DEF Calling, CallTypes, CallPositions, NoCall, ThreadTypes, ConsumerTypes,
     ExecutorTypes, Executor!TypeOK, Executor!QueueTypeOK, TypeInv
<1> QED
  BY <1>1, <1>2, <1>3, <1>4, <1>5, <1>6, <1>7 DEF TypeInv

\* A call stops the session, and starts it again.
LEMMA StoppingTyped ==
    ASSUME TypeInv,
           \/ AskStarted \/ StopForCall \/ Restart
    PROVE  TypeInv'
<1> USE DEF AskStarted, At, StopForCall, GoTo, Executor!Stop, Restart, NoCall,
        Executor!Start, Executor!Notified, executorVars, connectionVars,
        consumerVars, historyVars
<1>1. ExecutorTypes'
  BY DEF ExecutorTypes, Executor!TypeOK, Executor!FlagsTypeOK,
     Executor!ThreadsTypeOK, Executor!QueueTypeOK, ThreadTypes, AtMostOne, TypeInv
<1>2. ConnectionTypes'
  BY DEF ConnectionTypes, TypeInv
<1>3. ConsumerTypes'
  BY DEF ConsumerTypes, ThreadTypes, AtMostOne, ExecutorTypes, Executor!TypeOK,
     Executor!QueueTypeOK, TypeInv
<1>4. ThreadTypes'
  BY DEF ThreadTypes, AtMostOne, ConsumerTypes, ExecutorTypes, Executor!TypeOK,
     Executor!QueueTypeOK, Calling, TypeInv
<1>5. CallTypes'
  <2>1. CASE AskStarted
    <3>1. started \in BOOLEAN
      BY DEF TypeInv, ExecutorTypes, Executor!TypeOK, Executor!FlagsTypeOK
    <3>2. call.op # "none" /\ call.at = "asking"
      BY <2>1 DEF TypeInv, CallTypes, NoCall
    <3>3. call' \in [op : {"none", "listen", "close"}, at : CallPositions,
                     by : {App, Dispatcher}, on : Consumers, wasStarted : BOOLEAN]
      BY <2>1, <3>1 DEF CallTypes, CallPositions, TypeInv
    <3>4. call'.op = call.op
      BY <2>1 DEF CallTypes, TypeInv
    <3> QED
      BY <3>2, <3>3, <3>4 DEF CallTypes, NoCall
  <2>2. CASE StopForCall
    BY <2>2 DEF CallTypes, CallPositions, NoCall, TypeInv
  <2>3. CASE Restart
    <3>2. call.op # "none" /\ call.at = "restarting"
      BY <2>3 DEF TypeInv, CallTypes, NoCall
    <3>3. CASE call.op = "listen"
      <4>1. call' = NoCall
        BY <2>3, <3>3
      <4> QED
        BY <4>1, AnyConsumerIs DEF CallTypes, CallPositions, NoCall
    <3>4. CASE call.op # "listen"
      BY <2>3, <3>2, <3>4 DEF CallTypes, CallPositions, NoCall, TypeInv
    <3> QED
      BY <3>3, <3>4
  <2> QED
    BY <2>1, <2>2, <2>3
<1>6. HistoryTypes'
  BY DEF HistoryTypes, ConsumerTypes, ThreadTypes, AtMostOne, TypeInv
<1>7. Calling'
  <2>1. CASE AskStarted
    BY <2>1 DEF Calling, CallTypes, CallPositions, NoCall, ThreadTypes,
       ConsumerTypes, ExecutorTypes, Executor!TypeOK, Executor!QueueTypeOK,
       TypeInv
  <2>2. CASE StopForCall
    BY <2>2 DEF Calling, CallTypes, CallPositions, NoCall, ThreadTypes,
       ConsumerTypes, ExecutorTypes, Executor!TypeOK, Executor!QueueTypeOK,
       TypeInv
  <2>3. CASE Restart
    <3>1. CASE call.op = "listen"
      BY <2>3, <3>1 DEF Calling, CallTypes, CallPositions, NoCall, ThreadTypes,
         ConsumerTypes, ExecutorTypes, Executor!TypeOK, Executor!QueueTypeOK,
         TypeInv
    <3>2. CASE call.op # "listen"
      BY <2>3, <3>2 DEF Calling, CallTypes, CallPositions, NoCall, ThreadTypes,
         ConsumerTypes, ExecutorTypes, Executor!TypeOK, Executor!QueueTypeOK,
         TypeInv
    <3> QED
      BY <3>1, <3>2
  <2> QED
    BY <2>1, <2>2, <2>3
<1> QED
  BY <1>1, <1>2, <1>3, <1>4, <1>5, <1>6, <1>7 DEF TypeInv

\* The messages that a listener missed are dispatched again.
LEMMA RedispatchTyped ==
    ASSUME TypeInv,
           \/ ReverseUnconsumed \/ Redispatch \/ Redispatched
    PROVE  TypeInv'
<1> USE DEF ReverseUnconsumed, At, GoTo, Redispatch, Executor!ExecuteFirst,
        Executor!Notified, Redispatched, executorVars, connectionVars,
        consumerVars, historyVars
<1>1. ExecutorTypes'
  <2>1. CASE ReverseUnconsumed
    BY <2>1 DEF ExecutorTypes, Executor!TypeOK, Executor!FlagsTypeOK,
       Executor!ThreadsTypeOK, Executor!QueueTypeOK, ThreadTypes, AtMostOne,
       TypeInv
  <2>2. CASE Redispatch
    BY <2>2 DEF ExecutorTypes, Executor!TypeOK, Executor!FlagsTypeOK,
       Executor!ThreadsTypeOK, Executor!QueueTypeOK, ThreadTypes, AtMostOne,
       TypeInv
  <2>3. CASE Redispatched
    BY <2>3 DEF ExecutorTypes, Executor!TypeOK, Executor!FlagsTypeOK,
       Executor!ThreadsTypeOK, Executor!QueueTypeOK, ThreadTypes, AtMostOne,
       TypeInv
  <2> QED
    BY <2>1, <2>2, <2>3
<1>2. ConnectionTypes'
  BY DEF ConnectionTypes, TypeInv
<1>3. ConsumerTypes'
  <2>1. CASE ReverseUnconsumed
    BY <2>1 DEF CallTypes, ConsumerTypes, ThreadTypes, AtMostOne, ExecutorTypes,
       Executor!TypeOK, Executor!QueueTypeOK, TypeInv
  <2>2. CASE Redispatch
    BY <2>2 DEF ConsumerTypes, ThreadTypes, AtMostOne, ExecutorTypes,
       Executor!TypeOK, Executor!QueueTypeOK, TypeInv
  <2>3. CASE Redispatched
    BY <2>3 DEF ConsumerTypes, ThreadTypes, AtMostOne, ExecutorTypes,
       Executor!TypeOK, Executor!QueueTypeOK, TypeInv
  <2> QED
    BY <2>1, <2>2, <2>3
<1>4. ThreadTypes'
  <2>1. CASE ReverseUnconsumed
    <3>1. unconsumed[call.on] \in Seq(Messages)
      BY DEF TypeInv, ConsumerTypes, CallTypes
    <3>2. Reverse(unconsumed[call.on]) \in Seq(Messages)
      BY <3>1, ReversedPlaces
    <3> QED
      BY <2>1, <3>2 DEF ThreadTypes, AtMostOne, ConsumerTypes, ExecutorTypes,
         Executor!TypeOK, Executor!QueueTypeOK, Calling, TypeInv
  <2>2. CASE Redispatch
    BY <2>2 DEF ThreadTypes, AtMostOne, ConsumerTypes, ExecutorTypes,
       Executor!TypeOK, Executor!QueueTypeOK, Calling, TypeInv
  <2>3. CASE Redispatched
    BY <2>3 DEF ThreadTypes, AtMostOne, ConsumerTypes, ExecutorTypes,
       Executor!TypeOK, Executor!QueueTypeOK, Calling, TypeInv
  <2> QED
    BY <2>1, <2>2, <2>3
<1>5. CallTypes'
  BY DEF CallTypes, CallPositions, NoCall, TypeInv
<1>6. HistoryTypes'
  BY DEF HistoryTypes, ConsumerTypes, ThreadTypes, AtMostOne, TypeInv
<1>7. Calling'
  BY DEF Calling, CallTypes, CallPositions, NoCall, ThreadTypes, ConsumerTypes,
     ExecutorTypes, Executor!TypeOK, Executor!QueueTypeOK, TypeInv
<1> QED
  BY <1>1, <1>2, <1>3, <1>4, <1>5, <1>6, <1>7 DEF TypeInv

\* The connector, the connection and the session forget a consumer.
LEMMA ClosingTyped ==
    ASSUME TypeInv,
           \/ CloseResource \/ RemoveDispatcher \/ RemoveConsumer
           \/ PurgeConsumerMessages
    PROVE  TypeInv'
<1> USE DEF CloseResource, At, GoTo, RemoveDispatcher, RemoveConsumer,
        PurgeConsumerMessages, Executor!Purge, executorVars, connectionVars,
        consumerVars, historyVars
<1>1. ExecutorTypes'
  <2>1. CASE CloseResource
    BY <2>1 DEF ExecutorTypes, Executor!TypeOK, Executor!FlagsTypeOK,
       Executor!ThreadsTypeOK, Executor!QueueTypeOK, ThreadTypes, AtMostOne,
       TypeInv
  <2>2. CASE RemoveDispatcher
    BY <2>2 DEF ExecutorTypes, Executor!TypeOK, Executor!FlagsTypeOK,
       Executor!ThreadsTypeOK, Executor!QueueTypeOK, ThreadTypes, AtMostOne,
       TypeInv
  <2>3. CASE RemoveConsumer
    BY <2>3 DEF ExecutorTypes, Executor!TypeOK, Executor!FlagsTypeOK,
       Executor!ThreadsTypeOK, Executor!QueueTypeOK, ThreadTypes, AtMostOne,
       TypeInv
  <2>4. CASE PurgeConsumerMessages
    <3> DEFINE I == {i \in DOMAIN messageQueue : ConsumerOf[messageQueue[i]] # call.on}
    <3>1. /\ messageQueue \in Seq(Messages)
          /\ messageQueue' \in Executor!Selected(messageQueue, I)
      BY <2>4 DEF TypeInv, ExecutorTypes, Executor!TypeOK, Executor!QueueTypeOK
    <3> HIDE DEF I
    <3>2. I \in SUBSET DOMAIN messageQueue
      BY DEF I
    <3>3. messageQueue' \in Seq(Messages)
      BY <3>1, <3>2, SelectedPlaces
    <3> QED
      BY <2>4, <3>3 DEF ExecutorTypes, Executor!TypeOK, Executor!FlagsTypeOK,
         Executor!ThreadsTypeOK, Executor!QueueTypeOK, ThreadTypes, AtMostOne,
         TypeInv
  <2> QED
    BY <2>1, <2>2, <2>3, <2>4
<1>2. ConnectionTypes'
  BY DEF ConnectionTypes, TypeInv
<1>3. ConsumerTypes'
  BY DEF ConsumerTypes, ThreadTypes, AtMostOne, ExecutorTypes, Executor!TypeOK,
     Executor!QueueTypeOK, TypeInv
<1>4. ThreadTypes'
  BY DEF ThreadTypes, AtMostOne, ConsumerTypes, ExecutorTypes, Executor!TypeOK,
     Executor!QueueTypeOK, Calling, TypeInv
<1>5. CallTypes'
  BY DEF CallTypes, CallPositions, NoCall, TypeInv
<1>6. HistoryTypes'
  BY DEF HistoryTypes, ConsumerTypes, ThreadTypes, AtMostOne, TypeInv
<1>7. Calling'
  BY DEF Calling, CallTypes, CallPositions, NoCall, ThreadTypes, ConsumerTypes,
     ExecutorTypes, Executor!TypeOK, Executor!QueueTypeOK, TypeInv
<1> QED
  BY <1>1, <1>2, <1>3, <1>4, <1>5, <1>6, <1>7 DEF TypeInv

\* A consumer is closed.
LEMMA MarkingTyped ==
    ASSUME TypeInv,
           \/ MarkClosed \/ PurgeMessages \/ NotifyReceivers
    PROVE  TypeInv'
<1> USE DEF MarkClosed, At, GoTo, PurgeMessages, NotifyReceivers, NoCall,
        WakeReceiver, executorVars, connectionVars, consumerVars, historyVars
<1>1. ExecutorTypes'
  BY DEF ExecutorTypes, Executor!TypeOK, Executor!FlagsTypeOK,
     Executor!ThreadsTypeOK, Executor!QueueTypeOK, ThreadTypes, AtMostOne, TypeInv
<1>2. ConnectionTypes'
  BY DEF ConnectionTypes, TypeInv
<1>3. ConsumerTypes'
  <2>1. CASE MarkClosed
    BY <2>1 DEF CallTypes, ConsumerTypes, ThreadTypes, AtMostOne, ExecutorTypes,
       Executor!TypeOK, Executor!QueueTypeOK, TypeInv
  <2>2. CASE PurgeMessages
    BY <2>2 DEF CallTypes, ConsumerTypes, ThreadTypes, AtMostOne, ExecutorTypes,
       Executor!TypeOK, Executor!QueueTypeOK, TypeInv
  <2>3. CASE NotifyReceivers
    BY <2>3 DEF ConsumerTypes, ThreadTypes, AtMostOne, ExecutorTypes,
       Executor!TypeOK, Executor!QueueTypeOK, TypeInv
  <2> QED
    BY <2>1, <2>2, <2>3
<1>4. ThreadTypes'
  BY DEF ThreadTypes, AtMostOne, ConsumerTypes, ExecutorTypes, Executor!TypeOK,
     Executor!QueueTypeOK, Calling, TypeInv
<1>5. CallTypes'
  <2>1. CASE MarkClosed
    BY <2>1 DEF CallTypes, CallPositions, NoCall, TypeInv
  <2>2. CASE PurgeMessages
    BY <2>2 DEF CallTypes, CallPositions, NoCall, TypeInv
  <2>3. CASE NotifyReceivers
    BY <2>3, AnyConsumerIs DEF CallTypes, CallPositions, NoCall, TypeInv
  <2> QED
    BY <2>1, <2>2, <2>3
<1>6. HistoryTypes'
  BY DEF HistoryTypes, ConsumerTypes, ThreadTypes, AtMostOne, TypeInv
<1>7. Calling'
  <2>1. CASE MarkClosed
    BY <2>1 DEF Calling, CallTypes, CallPositions, NoCall, ThreadTypes,
       ConsumerTypes, ExecutorTypes, Executor!TypeOK, Executor!QueueTypeOK,
       TypeInv
  <2>2. CASE PurgeMessages
    BY <2>2 DEF Calling, CallTypes, CallPositions, NoCall, ThreadTypes,
       ConsumerTypes, ExecutorTypes, Executor!TypeOK, Executor!QueueTypeOK,
       TypeInv
  <2>3. CASE NotifyReceivers
    BY <2>3 DEF Calling, CallTypes, CallPositions, NoCall, ThreadTypes,
       ConsumerTypes, ExecutorTypes, Executor!TypeOK, Executor!QueueTypeOK,
       TypeInv
  <2> QED
    BY <2>1, <2>2, <2>3
<1> QED
  BY <1>1, <1>2, <1>3, <1>4, <1>5, <1>6, <1>7 DEF TypeInv

-----------------------------------------------------------------------------
(* Where a message is *)

Reading == ToSet(reader)
Dispatching == ToSet(current)
Batch == ToSet(dataList)
Queued == ToSet(messageQueue)
Turned == ToSet(reversedList)
Taken == ToSet(receiver.message)
Waiting == {m \in Messages : m \in ToSet(unconsumed[ConsumerOf[m]])}

Everywhere == Reading \cup Dispatching \cup Batch \cup Queued \cup Turned
                \cup Taken \cup Waiting

\* No message is twice in one place, and each waits with its own consumer...
Singly ==
    /\ IsInjective(dataList) /\ IsInjective(messageQueue)
    /\ IsInjective(reversedList)
    /\ \A c \in Consumers :
         /\ IsInjective(unconsumed[c])
         /\ \A m \in ToSet(unconsumed[c]) : ConsumerOf[m] = c

\* ... nor in two of them.
Apart ==
    /\ Reading \cap (Dispatching \cup Batch \cup Queued \cup Turned \cup Taken
                       \cup Waiting) = {}
    /\ Dispatching \cap (Batch \cup Queued \cup Turned \cup Taken \cup Waiting) = {}
    /\ Batch \cap (Queued \cup Turned \cup Taken \cup Waiting) = {}
    /\ Queued \cap (Turned \cup Taken \cup Waiting) = {}
    /\ Turned \cap (Taken \cup Waiting) = {}
    /\ Taken \cap Waiting = {}

\* What is on its way has been sent, and has not come to its end; the message
\* a listener has been given is still the Dispatcher's until it returns.
Tracked ==
    /\ Everywhere \subseteq sent
    /\ given \cup expired \cup lost \subseteq sent
    /\ acked \subseteq sent
    /\ sent \subseteq Everywhere \cup given \cup expired \cup lost
    /\ (expired \cup lost) \cap Everywhere = {}
    /\ given \cap Everywhere = IF position = "listening" THEN Dispatching ELSE {}
    /\ \A m \in Taken : ConsumerOf[m] = receiver.on
    /\ \A m \in Turned : ConsumerOf[m] = call.on

PlaceInv == TypeInv /\ Singly /\ Apart

\* The places are sequences of messages, and those for one are empty or hold it.
LEMMA PlacesTyped ==
    ASSUME TypeInv
    PROVE  /\ reader \in Seq(Messages) /\ current \in Seq(Messages)
           /\ dataList \in Seq(Messages) /\ messageQueue \in Seq(Messages)
           /\ reversedList \in Seq(Messages) /\ receiver.message \in Seq(Messages)
           /\ \A c \in Consumers : unconsumed[c] \in Seq(Messages)
           /\ IsInjective(reader) /\ IsInjective(current)
           /\ IsInjective(receiver.message)
           /\ reader = <<>> => Reading = {}
           /\ reader # <<>> => reader[1] \in Messages /\ Reading = {reader[1]}
           /\ current = <<>> => Dispatching = {}
           /\ current # <<>> => current[1] \in Messages /\ Dispatching = {current[1]}
           /\ receiver.message = <<>> => Taken = {}
           /\ dataList = <<>> => Batch = {}
           /\ reversedList = <<>> => Turned = {}
           /\ thread # "dispatching" => dataList = <<>> /\ current = <<>>
<1>1. reader \in AtMostOne /\ receiver.message \in AtMostOne
  BY DEF TypeInv, ThreadTypes
<1>2. current \in AtMostOne
  BY DEF TypeInv, ExecutorTypes, Executor!TypeOK, Executor!QueueTypeOK, AtMostOne
<1>3. /\ dataList \in Seq(Messages) /\ messageQueue \in Seq(Messages)
      /\ thread # "dispatching" => dataList = <<>> /\ current = <<>>
  BY DEF TypeInv, ExecutorTypes, Executor!TypeOK, Executor!QueueTypeOK
<1>4. reversedList \in Seq(Messages)
  BY DEF TypeInv, ThreadTypes
<1>5. \A c \in Consumers : unconsumed[c] \in Seq(Messages)
  BY DEF TypeInv, ConsumerTypes
<1>6. /\ IsInjective(reader) /\ IsInjective(current) /\ IsInjective(receiver.message)
      /\ reader \in Seq(Messages) /\ current \in Seq(Messages)
      /\ receiver.message \in Seq(Messages)
  BY <1>1, <1>2, OneAtMost
<1>7. /\ reader = <<>> => Reading = {}
      /\ reader # <<>> => reader[1] \in Messages /\ Reading = {reader[1]}
  BY <1>1, OneAtMost DEF Reading
<1>8. /\ current = <<>> => Dispatching = {}
      /\ current # <<>> => current[1] \in Messages /\ Dispatching = {current[1]}
  BY <1>2, OneAtMost DEF Dispatching
<1>9. /\ receiver.message = <<>> => Taken = {}
      /\ dataList = <<>> => Batch = {}
      /\ reversedList = <<>> => Turned = {}
  BY EmptyPlace DEF Taken, Batch, Turned
<1> QED
  BY <1>3, <1>4, <1>5, <1>6, <1>7, <1>8, <1>9

\* A message waits with its own consumer only.
LEMMA WaitingIs ==
    ASSUME TypeInv, Singly
    PROVE  /\ Waiting = UNION {ToSet(unconsumed[c]) : c \in Consumers}
           /\ \A c \in Consumers :
                ToSet(unconsumed[c]) = {m \in Waiting : ConsumerOf[m] = c}
<1>1. ASSUME NEW c \in Consumers
      PROVE  ToSet(unconsumed[c]) = {m \in Waiting : ConsumerOf[m] = c}
  <2>1. unconsumed[c] \in Seq(Messages)
    BY PlacesTyped
  <2>2. ToSet(unconsumed[c]) \subseteq Messages
    BY <2>1 DEF ToSet
  <2>3. \A m \in ToSet(unconsumed[c]) : ConsumerOf[m] = c
    BY DEF Singly
  <2> QED
    BY <2>2, <2>3 DEF Waiting
<1>2. \A m \in Waiting : ConsumerOf[m] \in Consumers
  BY ConsumerOfIs DEF Waiting
<1> QED
  BY <1>1, <1>2

\* The row of places is free of doubles if each place is and they are apart.
LEMMA PlacesAreApart ==
    ASSUME TypeInv
    PROVE  /\ ToSet(Places) = Reading \cup Dispatching \cup Batch \cup Queued
                                \cup Turned \cup Taken
           /\ Singly /\ Apart =>
                /\ IsInjective(Places) /\ ToSet(Places) \cap Waiting = {}
<1> DEFINE p1 == reader \o current
           p2 == dataList \o messageQueue
           p3 == p1 \o p2
           p4 == p3 \o reversedList
           p5 == p4 \o receiver.message
<1>1. /\ reader \in Seq(Messages) /\ current \in Seq(Messages)
      /\ dataList \in Seq(Messages) /\ messageQueue \in Seq(Messages)
      /\ reversedList \in Seq(Messages) /\ receiver.message \in Seq(Messages)
      /\ IsInjective(reader) /\ IsInjective(current) /\ IsInjective(receiver.message)
  BY PlacesTyped
<1>2. Places = p5
  BY DEF Places, Executor!Pending
<1>3. /\ p1 \in Seq(Messages) /\ p2 \in Seq(Messages) /\ p3 \in Seq(Messages)
      /\ p4 \in Seq(Messages)
  BY <1>1
<1>4. /\ ToSet(p1) = Reading \cup Dispatching
      /\ Reading \cap Dispatching = {} => IsInjective(p1)
  BY <1>1, JoinedPlaces DEF Reading, Dispatching
<1>5. /\ ToSet(p2) = Batch \cup Queued
      /\ IsInjective(dataList) /\ IsInjective(messageQueue) /\ Batch \cap Queued = {}
           => IsInjective(p2)
  BY <1>1, JoinedPlaces DEF Batch, Queued
<1>6. /\ ToSet(p3) = ToSet(p1) \cup ToSet(p2)
      /\ IsInjective(p1) /\ IsInjective(p2) /\ ToSet(p1) \cap ToSet(p2) = {}
           => IsInjective(p3)
  <2> HIDE DEF p1, p2
  <2> QED
    BY <1>3, JoinedPlaces
<1>7. /\ ToSet(p4) = ToSet(p3) \cup Turned
      /\ IsInjective(p3) /\ IsInjective(reversedList) /\ ToSet(p3) \cap Turned = {}
           => IsInjective(p4)
  <2> HIDE DEF p3
  <2> QED
    BY <1>1, <1>3, JoinedPlaces DEF Turned
<1>8. /\ ToSet(p5) = ToSet(p4) \cup Taken
      /\ IsInjective(p4) /\ ToSet(p4) \cap Taken = {} => IsInjective(p5)
  <2> HIDE DEF p4
  <2> QED
    BY <1>1, <1>3, JoinedPlaces DEF Taken
<1> HIDE DEF p1, p2, p3, p4, p5
<1>9. ToSet(Places) = Reading \cup Dispatching \cup Batch \cup Queued \cup Turned
                        \cup Taken
  BY <1>2, <1>4, <1>5, <1>6, <1>7, <1>8
<1>10. ASSUME Singly, Apart
       PROVE  IsInjective(Places) /\ ToSet(Places) \cap Waiting = {}
  <2>1. ToSet(Places) \cap Waiting = {}
    BY <1>9, <1>10 DEF Apart
  <2>2. IsInjective(p1) /\ IsInjective(p2)
    BY <1>4, <1>5, <1>10 DEF Apart, Singly
  <2>3. IsInjective(p3)
    BY <1>4, <1>5, <1>6, <1>10, <2>2 DEF Apart
  <2>4. IsInjective(p4)
    BY <1>4, <1>5, <1>6, <1>7, <1>10, <2>3 DEF Apart, Singly
  <2>5. IsInjective(p5)
    BY <1>4, <1>5, <1>6, <1>7, <1>8, <1>10, <2>4 DEF Apart
  <2> QED
    BY <1>2, <2>1, <2>5
<1> QED
  BY <1>9, <1>10

-----------------------------------------------------------------------------
(* How the steps move the messages *)

\* Every place keeps its messages.
Stay == UNCHANGED <<reader, current, dataList, messageQueue, reversedList,
                    unconsumed, receiver.message>>

\* If no place changes, neither do the sets of messages.
LEMMA StayKeeps ==
    ASSUME PlaceInv, Stay
    PROVE  /\ Singly' /\ Apart'
           /\ UNCHANGED <<Reading, Dispatching, Batch, Queued, Turned, Taken,
                          Waiting, Everywhere>>
<1>1. UNCHANGED <<Reading, Dispatching, Batch, Queued, Turned, Taken, Waiting>>
  BY DEF Stay, Reading, Dispatching, Batch, Queued, Turned, Taken, Waiting
<1>2. Everywhere' = Everywhere
  BY <1>1 DEF Everywhere
<1>3. Singly'
  BY DEF PlaceInv, Singly, Stay
<1>4. Apart'
  BY <1>1 DEF PlaceInv, Apart
<1> QED
  BY <1>1, <1>2, <1>3, <1>4

\* A message comes in, or nothing does.
LEMMA OnCommandMoves ==
    ASSUME PlaceInv, OnCommand, Everywhere \subseteq sent
    PROVE  /\ Singly' /\ Apart' /\ Reading = {} /\ Reading' \subseteq sent' \ sent
           /\ UNCHANGED <<Dispatching, Batch, Queued, Turned, Taken, Waiting>>
<1>1. PICK m \in Messages \ sent :
        /\ sent' = sent \cup {m}
        /\ IF ConsumerOf[m] \in consumerInfoMap
           THEN reader' = <<m>> /\ UNCHANGED lost
           ELSE lost' = lost \cup {m} /\ UNCHANGED reader
  BY DEF OnCommand
<1>2. UNCHANGED <<Dispatching, Batch, Queued, Turned, Taken, Waiting>>
  BY DEF OnCommand, executorVars, consumerVars, Dispatching, Batch, Queued, Turned,
     Taken, Waiting
<1>3. Reading = {}
  BY EmptyPlace DEF OnCommand, Reading
<1>4. Reading' \subseteq {m}
  BY <1>1, <1>3, OnePlace DEF Reading
<1>5. Singly'
  BY DEF PlaceInv, Singly, OnCommand, executorVars, consumerVars
<1>6. Apart'
  BY <1>1, <1>2, <1>4 DEF PlaceInv, Apart, Everywhere
<1> QED
  BY <1>1, <1>2, <1>3, <1>4, <1>5, <1>6

\* It is put in the executor's queue, or dropped.
LEMMA OnConsumerMessageMoves ==
    ASSUME PlaceInv, OnConsumerMessage
    PROVE  /\ Singly' /\ Apart' /\ Reading' = {}
           /\ \/ Queued' = Queued \cup Reading /\ UNCHANGED lost
              \/ Queued' = Queued /\ lost' = lost \cup Reading
           /\ UNCHANGED <<Dispatching, Batch, Turned, Taken, Waiting>>
<1> USE DEF OnConsumerMessage, Executor!Execute, executorVars, consumerVars, PlaceInv
<1>1. UNCHANGED <<Dispatching, Batch, Turned, Taken, Waiting>>
  BY DEF Dispatching, Batch, Turned, Taken, Waiting
<1>2. Reading' = {}
  BY EmptyPlace DEF Reading
<1>3. /\ reader[1] \in Messages /\ Reading = {reader[1]}
      /\ messageQueue \in Seq(Messages)
  BY PlacesTyped
<1>4. \/ Queued' = Queued \cup Reading /\ UNCHANGED lost /\ IsInjective(messageQueue')
      \/ Queued' = Queued /\ lost' = lost \cup Reading /\ IsInjective(messageQueue')
  <2>1. CASE ConsumerOf[reader[1]] \in dispatchers
    <3>1. messageQueue' = messageQueue \o <<reader[1]>> /\ <<reader[1]>> \in Seq(Messages)
      BY <1>3, <2>1
    <3>2. ToSet(<<reader[1]>>) = Reading /\ IsInjective(<<reader[1]>>)
      BY <1>3, OnePlace
    <3>3. /\ ToSet(messageQueue \o <<reader[1]>>) = Queued \cup Reading
          /\ IsInjective(messageQueue) /\ Queued \cap Reading = {} =>
               IsInjective(messageQueue \o <<reader[1]>>)
      BY <1>3, <3>1, <3>2, JoinedPlaces DEF Queued
    <3> QED
      BY <2>1, <3>1, <3>3 DEF Queued, Singly, Apart
  <2>2. CASE ConsumerOf[reader[1]] \notin dispatchers
    BY <2>2 DEF Queued, Reading, Singly
  <2> QED
    BY <2>1, <2>2
<1>5. Singly'
  BY <1>4 DEF Singly
<1>6. Apart'
  BY <1>1, <1>2, <1>4 DEF Apart
<1> QED
  BY <1>1, <1>2, <1>4, <1>5, <1>6

\* The queue becomes the batch, or nothing happens.
LEMMA ExecutorStepMoves ==
    ASSUME PlaceInv, ExecutorStep
    PROVE  /\ Singly' /\ Apart'
           /\ \/ Batch = {} /\ Batch' = Queued /\ Queued' = {}
              \/ UNCHANGED <<Batch, Queued>>
           /\ UNCHANGED <<Reading, Dispatching, Turned, Taken, Waiting>>
<1> USE DEF ExecutorStep, Executor!TakeBatch, Executor!EndBatch, Executor!Decide,
        consumerVars, PlaceInv
<1>1. UNCHANGED <<Reading, Dispatching, Turned, Taken, Waiting>>
  BY DEF Reading, Dispatching, Turned, Taken, Waiting
<1>2. \/ dataList = <<>> /\ dataList' = messageQueue /\ messageQueue' = <<>>
      \/ UNCHANGED <<dataList, messageQueue>>
  BY PlacesTyped
<1>3. \/ Batch = {} /\ Batch' = Queued /\ Queued' = {}
      \/ UNCHANGED <<Batch, Queued>>
  BY <1>2, EmptyPlace DEF Batch, Queued
<1>4. IsInjective(dataList') /\ IsInjective(messageQueue')
  BY <1>2, EmptyPlace DEF Singly
<1>5. Singly'
  BY <1>4 DEF Singly
<1>6. Apart'
  BY <1>1, <1>3 DEF Apart
<1> QED
  BY <1>1, <1>3, <1>5, <1>6

\* The first message of the batch is the one that is dispatched...
LEMMA DispatchMoves ==
    ASSUME PlaceInv, Dispatch
    PROVE  /\ Singly' /\ Apart' /\ Dispatching = {}
           /\ Batch = Dispatching' \cup Batch'
           /\ UNCHANGED <<Reading, Queued, Turned, Taken, Waiting>>
<1> USE DEF Dispatch, Executor!Dispatch, consumerVars, PlaceInv
<1>1. UNCHANGED <<Reading, Queued, Turned, Taken, Waiting>>
  BY DEF Reading, Queued, Turned, Taken, Waiting
<1>2. dataList \in Seq(Messages) /\ Dispatching = {}
  BY PlacesTyped
<1>3. /\ Batch = {Head(dataList)} \cup Batch' /\ Head(dataList) \notin Batch'
      /\ IsInjective(dataList')
  BY <1>2, FirstAndRest DEF Batch, Singly
<1>4. Dispatching' = {Head(dataList)}
  BY OnePlace DEF Dispatching
<1>5. Singly'
  BY <1>3 DEF Singly
<1>6. Apart'
  BY <1>1, <1>2, <1>3, <1>4 DEF Apart
<1> QED
  BY <1>1, <1>2, <1>3, <1>4, <1>5, <1>6

\* ... and no longer when dispatch() returns.
LEMMA ReturnMoves ==
    ASSUME PlaceInv, Executor!DispatchReturns,
           UNCHANGED <<reader, reversedList, unconsumed, receiver.message>>
    PROVE  /\ Singly' /\ Apart' /\ Dispatching' = {}
           /\ UNCHANGED <<Reading, Batch, Queued, Turned, Taken, Waiting>>
<1> USE DEF Executor!DispatchReturns, PlaceInv
<1>1. UNCHANGED <<Reading, Batch, Queued, Turned, Taken, Waiting>>
  BY DEF Reading, Batch, Queued, Turned, Taken, Waiting
<1>2. Dispatching' = {}
  BY EmptyPlace DEF Dispatching
<1>3. Singly'
  BY DEF Singly
<1>4. Apart'
  BY <1>1, <1>2 DEF Apart
<1> QED
  BY <1>1, <1>2, <1>3, <1>4

\* A message without a listener waits with its consumer.
LEMMA PushUnconsumedMoves ==
    ASSUME PlaceInv, PushUnconsumed
    PROVE  /\ Singly' /\ Apart' /\ Dispatching' = {}
           /\ Waiting' = Waiting \cup Dispatching
           /\ UNCHANGED <<Reading, Batch, Queued, Turned, Taken>>
<1> USE DEF PushUnconsumed, IsAt, Executor!DispatchReturns, WakeReceiver
<1>1. UNCHANGED <<Reading, Batch, Queued, Turned>>
  BY DEF Reading, Batch, Queued, Turned
<1>2. receiver'.message = receiver.message
  BY DEF PlaceInv, TypeInv, ThreadTypes
<1>3. Taken' = Taken
  BY <1>2 DEF Taken
<1>4. Dispatching' = {}
  BY EmptyPlace DEF Dispatching
<1>5. /\ current \in Seq(Messages) /\ IsInjective(current)
      /\ current[1] \in Messages /\ Dispatching = {current[1]}
      /\ \A c \in Consumers : unconsumed[c] \in Seq(Messages)
  BY PlacesTyped DEF PlaceInv, TypeInv, ThreadTypes
<1>6. /\ Target \in Consumers /\ unconsumed \in [Consumers -> Seq(Messages)]
      /\ \A m \in Dispatching : ConsumerOf[m] = Target
  BY <1>5, ConsumerOfIs DEF Target, PlaceInv, TypeInv, ConsumerTypes
<1>7. Waiting = {m \in Messages : m \in ToSet(unconsumed[ConsumerOf[m]])}
      /\ Dispatching \cap Waiting = {}
      /\ ToSet(unconsumed[Target]) = {m \in Waiting : ConsumerOf[m] = Target}
  BY <1>6, WaitingIs DEF Waiting, PlaceInv, Apart
<1>8. /\ ToSet(unconsumed'[Target]) = ToSet(unconsumed[Target]) \cup Dispatching
      /\ IsInjective(unconsumed'[Target])
  <2>1. unconsumed'[Target] = unconsumed[Target] \o current
    BY <1>6
  <2>2. ToSet(unconsumed[Target]) \cap ToSet(current) = {} /\ IsInjective(unconsumed[Target])
    BY <1>6, <1>7 DEF PlaceInv, Singly, Dispatching
  <2> QED
    BY <1>5, <1>6, <2>1, <2>2, JoinedPlaces DEF Dispatching
<1>9. \A c \in Consumers \ {Target} : unconsumed'[c] = unconsumed[c]
  BY <1>6
<1>10. Waiting' = Waiting \cup Dispatching
  <2>1. ASSUME NEW m \in Messages
        PROVE  m \in ToSet(unconsumed'[ConsumerOf[m]]) <=>
                 m \in ToSet(unconsumed[ConsumerOf[m]]) \/ m \in Dispatching
    BY <1>6, <1>8, <1>9, ConsumerOfIs
  <2> QED
    BY <1>5, <2>1 DEF Waiting
<1>11. Singly'
  BY <1>6, <1>8, <1>9 DEF PlaceInv, Singly
<1>12. Apart'
  BY <1>1, <1>3, <1>4, <1>10 DEF PlaceInv, Apart
<1> QED
  BY <1>1, <1>3, <1>4, <1>10, <1>11, <1>12

\* What a consumer's list loses is no longer waiting.
LEMMA WaitingShrinks ==
    ASSUME PlaceInv, NEW c \in Consumers, NEW s \in Seq(Messages),
           unconsumed' = [unconsumed EXCEPT ![c] = s],
           IsInjective(s), ToSet(s) \subseteq ToSet(unconsumed[c])
    PROVE  /\ Waiting' = (Waiting \ ToSet(unconsumed[c])) \cup ToSet(s)
           /\ \A d \in Consumers :
                /\ IsInjective(unconsumed'[d])
                /\ \A m \in ToSet(unconsumed'[d]) : ConsumerOf[m] = d
<1>1. /\ unconsumed'[c] = s
      /\ \A d \in Consumers \ {c} : unconsumed'[d] = unconsumed[d]
  BY DEF PlaceInv, TypeInv, ConsumerTypes
<1>2. /\ \A d \in Consumers : ToSet(unconsumed[d]) = {m \in Waiting : ConsumerOf[m] = d}
      /\ \A m \in Messages : ConsumerOf[m] \in Consumers
  BY WaitingIs, ConsumerOfIs DEF PlaceInv
<1>3. ASSUME NEW m \in Messages
      PROVE  m \in ToSet(unconsumed'[ConsumerOf[m]]) <=>
               m \in (Waiting \ ToSet(unconsumed[c])) \cup ToSet(s)
  <2>1. CASE ConsumerOf[m] = c
    BY <1>1, <1>2, <2>1
  <2>2. CASE ConsumerOf[m] # c
    BY <1>1, <1>2, <2>2
  <2> QED
    BY <2>1, <2>2
<1>4. Waiting' = {m \in Messages : m \in ToSet(unconsumed'[ConsumerOf[m]])}
  BY DEF Waiting
<1>5. Waiting \subseteq Messages /\ ToSet(s) \subseteq Messages
  BY DEF Waiting, ToSet
<1>6. Waiting' = (Waiting \ ToSet(unconsumed[c])) \cup ToSet(s)
  BY <1>3, <1>4, <1>5
<1>7. ASSUME NEW d \in Consumers
      PROVE  /\ IsInjective(unconsumed'[d])
             /\ \A m \in ToSet(unconsumed'[d]) : ConsumerOf[m] = d
  <2>1. CASE d = c
    BY <1>1, <1>2, <2>1
  <2>2. CASE d # c
    BY <1>1, <1>2, <1>7, <2>2 DEF PlaceInv, Singly
  <2> QED
    BY <2>1, <2>2
<1> QED
  BY <1>6, <1>7

\* The first message of a consumer that is received from.
LEMMA FirstUnconsumed ==
    ASSUME PlaceInv, receiver.at = "testing", unconsumed[receiver.on] # <<>>
    PROVE  LET q == unconsumed[receiver.on] IN
           /\ receiver.on \in Consumers /\ Tail(q) \in Seq(Messages)
           /\ IsInjective(Tail(q)) /\ ToSet(Tail(q)) \subseteq ToSet(q)
           /\ Head(q) \in Waiting /\ ConsumerOf[Head(q)] = receiver.on
           /\ (Waiting \ ToSet(q)) \cup ToSet(Tail(q)) = Waiting \ {Head(q)}
           /\ Taken = {}
<1> DEFINE q == unconsumed[receiver.on]
<1>1. receiver.on \in Consumers
  BY DEF PlaceInv, TypeInv, ThreadTypes
<1>2. Taken = {}
  BY PlacesTyped DEF PlaceInv, TypeInv, ThreadTypes
<1>3. q \in Seq(Messages) /\ IsInjective(q) /\ q # <<>>
  BY <1>1, PlacesTyped DEF PlaceInv, Singly
<1>4. ToSet(q) = {m \in Waiting : ConsumerOf[m] = receiver.on}
  BY <1>1, WaitingIs DEF PlaceInv
<1> HIDE DEF q
<1>5. /\ Tail(q) \in Seq(Messages) /\ ToSet(q) = {Head(q)} \cup ToSet(Tail(q))
      /\ IsInjective(Tail(q)) /\ Head(q) \notin ToSet(Tail(q))
  BY <1>3, FirstAndRest
<1>6. /\ ToSet(Tail(q)) \subseteq ToSet(q) /\ Head(q) \in Waiting
      /\ ConsumerOf[Head(q)] = receiver.on
      /\ (Waiting \ ToSet(q)) \cup ToSet(Tail(q)) = Waiting \ {Head(q)}
  BY <1>4, <1>5
<1> QED
  BY <1>1, <1>2, <1>5, <1>6 DEF q

\* receive() takes the first message...
LEMMA DequeueTakesMoves ==
    ASSUME PlaceInv, DequeueTakes
    PROVE  /\ Singly' /\ Apart' /\ Taken = {} /\ Taken' \subseteq Waiting
           /\ \A m \in Taken' : ConsumerOf[m] = receiver'.on
           /\ Waiting' = Waiting \ Taken'
           /\ UNCHANGED <<Reading, Dispatching, Batch, Queued, Turned>>
<1> USE DEF DequeueTakes, executorVars
<1> DEFINE q == unconsumed[receiver.on]
<1>1. UNCHANGED <<Reading, Dispatching, Batch, Queued, Turned>>
  BY DEF Reading, Dispatching, Batch, Queued, Turned
<1>2. /\ receiver.on \in Consumers /\ Tail(q) \in Seq(Messages)
      /\ IsInjective(Tail(q)) /\ ToSet(Tail(q)) \subseteq ToSet(q)
      /\ Head(q) \in Waiting /\ ConsumerOf[Head(q)] = receiver.on
      /\ (Waiting \ ToSet(q)) \cup ToSet(Tail(q)) = Waiting \ {Head(q)}
      /\ Taken = {}
  BY FirstUnconsumed
<1>3. unconsumed' = [unconsumed EXCEPT ![receiver.on] = Tail(q)]
  OBVIOUS
<1>4. receiver'.message = <<Head(q)>> /\ receiver'.on = receiver.on
  BY DEF PlaceInv, TypeInv, ThreadTypes
<1>5. Taken' = {Head(q)}
  BY <1>4, OnePlace DEF Taken
<1>6. /\ Waiting' = (Waiting \ ToSet(q)) \cup ToSet(Tail(q))
      /\ \A d \in Consumers :
           /\ IsInjective(unconsumed'[d])
           /\ \A m \in ToSet(unconsumed'[d]) : ConsumerOf[m] = d
  BY <1>2, <1>3, WaitingShrinks
<1> HIDE DEF q
<1>7. Singly'
  BY <1>6 DEF PlaceInv, Singly
<1>8. Apart'
  BY <1>1, <1>2, <1>5, <1>6 DEF PlaceInv, Apart
<1> QED
  BY <1>1, <1>2, <1>4, <1>5, <1>6, <1>7, <1>8

\* ... or lets it expire...
LEMMA DequeueExpiredMoves ==
    ASSUME PlaceInv, DequeueExpired
    PROVE  LET m == Head(unconsumed[receiver.on]) IN
           /\ Singly' /\ Apart' /\ m \in Waiting /\ ConsumerOf[m] = receiver.on
           /\ Waiting' = Waiting \ {m} /\ Taken = {}
           /\ UNCHANGED <<Reading, Dispatching, Batch, Queued, Turned, Taken>>
<1> USE DEF DequeueExpired, executorVars
<1> DEFINE q == unconsumed[receiver.on]
<1>1. UNCHANGED <<Reading, Dispatching, Batch, Queued, Turned>>
  BY DEF Reading, Dispatching, Batch, Queued, Turned
<1>2. /\ receiver.on \in Consumers /\ Tail(q) \in Seq(Messages)
      /\ IsInjective(Tail(q)) /\ ToSet(Tail(q)) \subseteq ToSet(q)
      /\ Head(q) \in Waiting /\ ConsumerOf[Head(q)] = receiver.on
      /\ (Waiting \ ToSet(q)) \cup ToSet(Tail(q)) = Waiting \ {Head(q)}
      /\ Taken = {}
  BY FirstUnconsumed
<1>3. unconsumed' = [unconsumed EXCEPT ![receiver.on] = Tail(q)]
  OBVIOUS
<1>4. receiver.message = <<>> /\ receiver'.message = <<>>
  BY DEF PlaceInv, TypeInv, ThreadTypes, NoReceive
<1>5. Taken' = {}
  BY <1>4, EmptyPlace DEF Taken
<1>6. /\ Waiting' = (Waiting \ ToSet(q)) \cup ToSet(Tail(q))
      /\ \A d \in Consumers :
           /\ IsInjective(unconsumed'[d])
           /\ \A m \in ToSet(unconsumed'[d]) : ConsumerOf[m] = d
  BY <1>2, <1>3, WaitingShrinks
<1> HIDE DEF q
<1>7. Singly'
  BY <1>6 DEF PlaceInv, Singly
<1>8. Apart'
  BY <1>1, <1>2, <1>5, <1>6 DEF PlaceInv, Apart
<1> QED
  BY <1>1, <1>2, <1>5, <1>6, <1>7, <1>8 DEF q

\* ... and returns it.
LEMMA ReceiveReturnsMoves ==
    ASSUME PlaceInv, ReceiveReturns
    PROVE  /\ Singly' /\ Apart' /\ Taken' = {}
           /\ UNCHANGED <<Reading, Dispatching, Batch, Queued, Turned, Waiting>>
<1> USE DEF ReceiveReturns, executorVars, consumerVars, PlaceInv, NoReceive
<1>1. UNCHANGED <<Reading, Dispatching, Batch, Queued, Turned, Waiting>>
  BY DEF Reading, Dispatching, Batch, Queued, Turned, Waiting
<1>2. Taken' = {}
  BY EmptyPlace DEF Taken
<1>3. Singly'
  BY DEF Singly
<1>4. Apart'
  BY <1>1, <1>2 DEF Apart
<1> QED
  BY <1>1, <1>2, <1>3, <1>4

\* redispatch turns a consumer's messages round...
LEMMA ReverseUnconsumedMoves ==
    ASSUME PlaceInv, ReverseUnconsumed
    PROVE  /\ Singly' /\ Apart' /\ Turned = {} /\ Turned' \subseteq Waiting
           /\ \A m \in Turned' : ConsumerOf[m] = call'.on
           /\ Waiting' = Waiting \ Turned'
           /\ call.on \in Consumers /\ call'.on = call.on
           /\ Turned' = ToSet(unconsumed[call.on]) /\ unconsumed'[call.on] = <<>>
           /\ UNCHANGED <<Reading, Dispatching, Batch, Queued, Taken>>
<1> USE DEF ReverseUnconsumed, At, GoTo, executorVars
<1> DEFINE q == unconsumed[call.on]
<1>1. UNCHANGED <<Reading, Dispatching, Batch, Queued, Taken>>
  BY DEF Reading, Dispatching, Batch, Queued, Taken
<1>2. call.on \in Consumers /\ call'.on = call.on
  BY DEF PlaceInv, TypeInv, CallTypes
<1>3. q \in Seq(Messages) /\ IsInjective(q)
  BY <1>2, PlacesTyped DEF PlaceInv, Singly
<1>4. ToSet(q) = {m \in Waiting : ConsumerOf[m] = call.on}
  BY <1>2, WaitingIs DEF PlaceInv
<1>5. Turned = {}
  <2>1. reversedList = <<>>
    BY DEF PlaceInv, TypeInv, Calling
  <2> QED
    BY <2>1, PlacesTyped DEF PlaceInv
<1>6. <<>> \in Seq(Messages) /\ IsInjective(<<>>) /\ ToSet(<<>>) = {}
  BY EmptyPlace
<1>7. unconsumed' = [unconsumed EXCEPT ![call.on] = <<>>] /\ reversedList' = Reverse(q)
  OBVIOUS
<1>8. unconsumed'[call.on] = <<>>
  BY <1>2 DEF PlaceInv, TypeInv, ConsumerTypes
<1>9. /\ Waiting' = (Waiting \ ToSet(q)) \cup ToSet(<<>>)
      /\ \A d \in Consumers :
           /\ IsInjective(unconsumed'[d])
           /\ \A m \in ToSet(unconsumed'[d]) : ConsumerOf[m] = d
  BY <1>2, <1>6, <1>7, WaitingShrinks
<1> HIDE DEF q
<1>10. Turned' = ToSet(q) /\ IsInjective(reversedList')
  BY <1>3, <1>7, ReversedPlaces DEF Turned
<1>11. Singly'
  BY <1>9, <1>10 DEF PlaceInv, Singly
<1>12. Apart'
  BY <1>1, <1>4, <1>6, <1>9, <1>10 DEF PlaceInv, Apart
<1> QED
  BY <1>1, <1>2, <1>4, <1>5, <1>6, <1>8, <1>9, <1>10, <1>11, <1>12 DEF q

\* ... and puts them back, one by one.
LEMMA RedispatchMoves ==
    ASSUME PlaceInv, Redispatch
    PROVE  /\ Singly' /\ Apart'
           /\ Turned' \subseteq Turned /\ Queued' = Queued \cup (Turned \ Turned')
           /\ UNCHANGED <<Reading, Dispatching, Batch, Taken, Waiting>>
<1> USE DEF Redispatch, Executor!ExecuteFirst, consumerVars
<1> DEFINE h == Head(reversedList)
<1>1. UNCHANGED <<Reading, Dispatching, Batch, Taken, Waiting>>
  BY DEF Reading, Dispatching, Batch, Taken, Waiting
<1>2. reversedList \in Seq(Messages) /\ messageQueue \in Seq(Messages)
  BY PlacesTyped DEF PlaceInv
<1>3. /\ h \in Messages /\ Turned = {h} \cup Turned' /\ h \notin Turned'
      /\ IsInjective(reversedList')
  BY <1>2, FirstAndRest DEF Turned, PlaceInv, Singly
<1>4. messageQueue' = <<h>> \o messageQueue
  OBVIOUS
<1> HIDE DEF h
<1>5. /\ ToSet(<<h>> \o messageQueue) = {h} \cup Queued
      /\ IsInjective(messageQueue) /\ h \notin Queued => IsInjective(<<h>> \o messageQueue)
  <2>1. <<h>> \in Seq(Messages) /\ ToSet(<<h>>) = {h} /\ IsInjective(<<h>>)
    BY <1>3, OnePlace
  <2>2. /\ ToSet(<<h>> \o messageQueue) = ToSet(<<h>>) \cup ToSet(messageQueue)
        /\ IsInjective(<<h>> \o messageQueue) <=>
             /\ IsInjective(<<h>>) /\ IsInjective(messageQueue)
             /\ ToSet(<<h>>) \cap ToSet(messageQueue) = {}
    BY <1>2, <2>1, JoinedPlaces
  <2> QED
    BY <2>1, <2>2 DEF Queued
<1>6. Queued' = {h} \cup Queued /\ IsInjective(messageQueue')
  <2>1. Queued' = {h} \cup Queued
    BY <1>4, <1>5 DEF Queued
  <2>2. h \notin Queued
    BY <1>3 DEF PlaceInv, Apart
  <2> QED
    BY <1>4, <1>5, <2>1, <2>2 DEF PlaceInv, Singly
<1>7. Singly'
  BY <1>3, <1>6 DEF PlaceInv, Singly
<1>8. Apart'
  BY <1>1, <1>3, <1>6 DEF PlaceInv, Apart
<1> QED
  BY <1>1, <1>3, <1>6, <1>7, <1>8

\* A close takes the consumer's messages from the queue...
LEMMA PurgeConsumerMessagesMoves ==
    ASSUME PlaceInv, PurgeConsumerMessages
    PROVE  /\ Singly' /\ Apart'
           /\ Queued' = {m \in Queued : ConsumerOf[m] # call.on}
           /\ lost' = lost \cup {m \in Queued : ConsumerOf[m] = call.on}
           /\ UNCHANGED <<Reading, Dispatching, Batch, Turned, Taken, Waiting>>
<1> USE DEF PurgeConsumerMessages, Executor!Purge, consumerVars
<1> DEFINE I == {i \in DOMAIN messageQueue : ConsumerOf[messageQueue[i]] # call.on}
<1>1. UNCHANGED <<Reading, Dispatching, Batch, Turned, Taken, Waiting>>
  BY DEF Reading, Dispatching, Batch, Turned, Taken, Waiting
<1>2. messageQueue \in Seq(Messages) /\ messageQueue' \in Executor!Selected(messageQueue, I)
  BY PlacesTyped DEF PlaceInv
<1>3. I \in SUBSET DOMAIN messageQueue
  OBVIOUS
<1>4. ToSet(messageQueue') = {messageQueue[i] : i \in I} /\ IsInjective(messageQueue')
  <2> HIDE DEF I
  <2> QED
    BY <1>2, <1>3, SelectedPlaces DEF PlaceInv, Singly
<1>5. Queued' = {m \in Queued : ConsumerOf[m] # call.on}
  BY <1>4 DEF Queued, ToSet
<1>6. lost' = lost \cup {m \in Queued : ConsumerOf[m] = call.on}
  BY DEF For, Queued
<1>7. Singly'
  BY <1>4 DEF PlaceInv, Singly
<1>8. Apart'
  BY <1>1, <1>5 DEF PlaceInv, Apart
<1> QED
  BY <1>1, <1>5, <1>6, <1>7, <1>8

\* ... and from its list.
LEMMA PurgeMessagesMoves ==
    ASSUME PlaceInv, PurgeMessages
    PROVE  /\ Singly' /\ Apart'
           /\ call.on \in Consumers /\ unconsumed'[call.on] = <<>>
           /\ Waiting' = {m \in Waiting : ConsumerOf[m] # call.on}
           /\ lost' = lost \cup {m \in Waiting : ConsumerOf[m] = call.on}
           /\ UNCHANGED <<Reading, Dispatching, Batch, Queued, Turned, Taken>>
<1> USE DEF PurgeMessages, At, executorVars
<1> DEFINE q == unconsumed[call.on]
<1>1. UNCHANGED <<Reading, Dispatching, Batch, Queued, Turned, Taken>>
  BY DEF Reading, Dispatching, Batch, Queued, Turned, Taken
<1>2. call.on \in Consumers
  BY DEF PlaceInv, TypeInv, CallTypes
<1>3. ToSet(q) = {m \in Waiting : ConsumerOf[m] = call.on}
  BY <1>2, WaitingIs DEF PlaceInv
<1>4. <<>> \in Seq(Messages) /\ IsInjective(<<>>) /\ ToSet(<<>>) = {}
  BY EmptyPlace
<1>5. unconsumed' = [unconsumed EXCEPT ![call.on] = <<>>] /\ lost' = lost \cup ToSet(q)
  OBVIOUS
<1>6. unconsumed'[call.on] = <<>>
  BY <1>2 DEF PlaceInv, TypeInv, ConsumerTypes
<1>7. /\ Waiting' = (Waiting \ ToSet(q)) \cup ToSet(<<>>)
      /\ \A d \in Consumers :
           /\ IsInjective(unconsumed'[d])
           /\ \A m \in ToSet(unconsumed'[d]) : ConsumerOf[m] = d
  BY <1>2, <1>4, <1>5, WaitingShrinks
<1> HIDE DEF q
<1>8. Singly'
  BY <1>7 DEF PlaceInv, Singly
<1>9. Apart'
  BY <1>1, <1>3, <1>4, <1>7 DEF PlaceInv, Apart
<1> QED
  BY <1>1, <1>2, <1>3, <1>4, <1>5, <1>6, <1>7, <1>8, <1>9

-----------------------------------------------------------------------------
(* What becomes of the messages *)

\* A step that neither moves a message nor brings one to its end.
Kept ==
    /\ Stay /\ UNCHANGED <<sent, given, acked, expired, lost>>
    /\ receiver'.on = receiver.on \/ receiver.message = <<>>
    /\ call'.on = call.on \/ reversedList = <<>>
    /\ position = "listening" <=> position' = "listening"

\* A step that moves no message, and ends none.
LEMMA KeptTracked ==
    ASSUME PlaceInv, Tracked, Kept
    PROVE  Singly' /\ Apart' /\ Tracked'
<1>1. /\ Singly' /\ Apart'
      /\ UNCHANGED <<Reading, Dispatching, Batch, Queued, Turned, Taken, Waiting,
                     Everywhere>>
  BY StayKeeps DEF Kept
<1>2. /\ receiver'.on = receiver.on \/ Taken = {}
      /\ call'.on = call.on \/ Turned = {}
  BY PlacesTyped DEF Kept, PlaceInv
<1> QED
  BY <1>1, <1>2 DEF Tracked, Kept

\* The connection's steps do not,
LEMMA ConnectionKeeps ==
    ASSUME PlaceInv,
           \/ ReaderUsesDeleted \/ OnTransportException \/ ConnectionBreaks
           \/ ConnectionStart \/ ConnectionStop \/ ListenerStops
    PROVE  Kept
  BY DEF ReaderUsesDeleted, OnTransportException, ConnectionBreaks, ConnectionStart,
     ConnectionStop, ListenerStops, Executor!Start, Executor!Stop, Kept, Stay,
     executorVars, connectionVars, consumerVars, historyVars

\* nor do these of the Dispatcher's,
LEMMA DispatcherKeeps ==
    ASSUME PlaceInv, SpuriousWakeup \/ NoListener \/ UsesDeleted
    PROVE  Kept
<1>1. CASE SpuriousWakeup
  <2>1. receiver'.on = receiver.on /\ receiver'.message = receiver.message
    BY <1>1 DEF SpuriousWakeup, PlaceInv, TypeInv, ThreadTypes
  <2> QED
    BY <1>1, <2>1 DEF SpuriousWakeup, Executor!SpuriousWakeup, Kept, Stay,
       executorVars, connectionVars, consumerVars, historyVars
<1>2. CASE NoListener \/ UsesDeleted
  BY <1>2 DEF NoListener, UsesDeleted, IsAt, Kept, Stay, executorVars,
     connectionVars, consumerVars, historyVars
<1> QED
  BY <1>1, <1>2

\* these of a receive's,
LEMMA ReceiverKeeps ==
    ASSUME PlaceInv, Receive \/ DequeueWaits \/ DequeueReturnsNull
    PROVE  Kept
<1>1. receiver.message = <<>> /\ receiver'.message = <<>>
  BY DEF Receive, DequeueWaits, DequeueReturnsNull, NoReceive, PlaceInv, TypeInv,
     ThreadTypes
<1> QED
  BY <1>1 DEF Receive, DequeueWaits, DequeueReturnsNull, Kept, Stay,
     executorVars, connectionVars, consumerVars, historyVars

\* the beginning of a call,
LEMMA CallKeeps ==
    ASSUME PlaceInv,
           \/ \E t \in {App, Dispatcher}, c \in Consumers :
                SetMessageListener(t, c) \/ CloseConsumer(t, c)
           \/ \E c \in Consumers : DeleteConsumer(c)
    PROVE  Kept
<1>1. reversedList = <<>>
  BY DEF SetMessageListener, CloseConsumer, DeleteConsumer, MayCall, PlaceInv,
     TypeInv,
     Calling
<1> QED
  BY <1>1 DEF SetMessageListener, CloseConsumer, DeleteConsumer, Kept, Stay,
     executorVars, connectionVars, consumerVars, historyVars

\* and these of a call's steps.
LEMMA CallStepKeeps ==
    ASSUME PlaceInv,
           \/ AskStarted \/ StopForCall \/ Restart \/ Redispatched
           \/ CloseResource \/ RemoveDispatcher \/ RemoveConsumer
           \/ MarkClosed \/ NotifyReceivers
    PROVE  Kept
<1> USE DEF Kept, Stay, At, GoTo, executorVars, connectionVars, consumerVars, historyVars
<1>1. CASE \/ AskStarted \/ StopForCall \/ Redispatched \/ CloseResource
           \/ RemoveDispatcher \/ RemoveConsumer \/ MarkClosed
  <2>1. call'.on = call.on
    BY <1>1 DEF AskStarted, StopForCall, Redispatched, CloseResource,
       RemoveDispatcher, RemoveConsumer, MarkClosed, PlaceInv, TypeInv, CallTypes
  <2> QED
    BY <1>1, <2>1 DEF AskStarted, StopForCall, Redispatched, CloseResource,
       RemoveDispatcher, RemoveConsumer, MarkClosed, Executor!Stop
<1>2. CASE Restart
  <2>1. reversedList = <<>>
    BY <1>2 DEF Restart, PlaceInv, TypeInv, Calling
  <2> QED
    BY <1>2, <2>1 DEF Restart, Executor!Start
<1>3. CASE NotifyReceivers
  <2>1. reversedList = <<>>
    BY <1>3 DEF NotifyReceivers, PlaceInv, TypeInv, Calling
  <2>2. receiver'.on = receiver.on /\ receiver'.message = receiver.message
    BY <1>3 DEF NotifyReceivers, WakeReceiver, PlaceInv, TypeInv, ThreadTypes
  <2> QED
    BY <1>3, <2>1, <2>2 DEF NotifyReceivers
<1> QED
  BY <1>1, <1>2, <1>3

\* The reader's steps.
LEMMA ReaderTracked ==
    ASSUME PlaceInv, Tracked, OnCommand \/ OnConsumerMessage
    PROVE  Singly' /\ Apart' /\ Tracked'
<1>1. CASE OnCommand
  <2>1. /\ Singly' /\ Apart' /\ Reading = {} /\ Reading' \subseteq sent' \ sent
        /\ UNCHANGED <<Dispatching, Batch, Queued, Turned, Taken, Waiting>>
    BY <1>1, OnCommandMoves DEF Tracked
  <2>2. PICK m \in Messages \ sent :
          /\ sent' = sent \cup {m}
          /\ IF ConsumerOf[m] \in consumerInfoMap
             THEN reader' = <<m>> /\ UNCHANGED lost
             ELSE lost' = lost \cup {m} /\ UNCHANGED reader
    BY <1>1 DEF OnCommand
  <2>3. IF ConsumerOf[m] \in consumerInfoMap THEN Reading' = {m} ELSE Reading' = {}
    BY <2>1, <2>2, OnePlace DEF Reading
  <2>4. UNCHANGED <<given, acked, expired, position, receiver, call>>
    BY <1>1 DEF OnCommand
  <2>5. IF ConsumerOf[m] \in consumerInfoMap
        THEN Everywhere' = Everywhere \cup {m} /\ lost' = lost
        ELSE Everywhere' = Everywhere /\ lost' = lost \cup {m}
    BY <2>1, <2>2, <2>3 DEF Everywhere
  <2>6. Tracked'
    BY <2>1, <2>2, <2>4, <2>5 DEF Tracked
  <2> QED
    BY <2>1, <2>6
<1>2. CASE OnConsumerMessage
  <2>1. /\ Singly' /\ Apart' /\ Reading' = {}
        /\ \/ Queued' = Queued \cup Reading /\ UNCHANGED lost
           \/ Queued' = Queued /\ lost' = lost \cup Reading
        /\ UNCHANGED <<Dispatching, Batch, Turned, Taken, Waiting>>
    BY <1>2, OnConsumerMessageMoves
  <2>2. UNCHANGED <<sent, given, acked, expired, position, receiver, call>>
    BY <1>2 DEF OnConsumerMessage
  <2>3. \/ Everywhere' = Everywhere /\ lost' = lost
        \/ Everywhere' = Everywhere \ Reading /\ lost' = lost \cup Reading
    BY <2>1 DEF Everywhere, PlaceInv, Apart
  <2>4. Reading \subseteq Everywhere /\ Reading \cap Dispatching = {}
    BY DEF Everywhere, PlaceInv, Apart
  <2>5. Tracked'
    BY <2>1, <2>2, <2>3, <2>4 DEF Tracked
  <2> QED
    BY <2>1, <2>5
<1> QED
  BY <1>1, <1>2

\* The executor's.
LEMMA BatchTracked ==
    ASSUME PlaceInv, Tracked, ExecutorStep \/ Dispatch
    PROVE  Singly' /\ Apart' /\ Tracked'
<1>1. CASE ExecutorStep
  <2>1. /\ Singly' /\ Apart'
        /\ \/ Batch = {} /\ Batch' = Queued /\ Queued' = {}
           \/ UNCHANGED <<Batch, Queued>>
        /\ UNCHANGED <<Reading, Dispatching, Turned, Taken, Waiting>>
    BY <1>1, ExecutorStepMoves
  <2>2. UNCHANGED <<sent, given, acked, expired, lost, position, receiver, call>>
    BY <1>1 DEF ExecutorStep, historyVars
  <2>3. Everywhere' = Everywhere
    BY <2>1 DEF Everywhere
  <2> QED
    BY <2>1, <2>2, <2>3 DEF Tracked
<1>2. CASE Dispatch
  <2>1. /\ Singly' /\ Apart' /\ Dispatching = {}
        /\ Batch = Dispatching' \cup Batch'
        /\ UNCHANGED <<Reading, Queued, Turned, Taken, Waiting>>
    BY <1>2, DispatchMoves
  <2>2. UNCHANGED <<sent, given, acked, expired, lost, receiver, call>>
    BY <1>2 DEF Dispatch, historyVars
  <2>3. Everywhere' = Everywhere
    BY <2>1 DEF Everywhere
  <2>4. position' = "entered" /\ position = "idle"
    BY <1>2, <2>1 DEF Dispatch, Executor!Dispatch, PlaceInv, TypeInv, ThreadTypes
  <2> QED
    BY <2>1, <2>2, <2>3, <2>4 DEF Tracked
<1> QED
  BY <1>1, <1>2

\* A message that is dispatched.
LEMMA DispatchTracked ==
    ASSUME PlaceInv, Tracked,
           \/ LookUp \/ DispatchExpired \/ OnMessage \/ PushUnconsumed
           \/ OnMessageReturns
    PROVE  Singly' /\ Apart' /\ Tracked'
<1>0. position # "idle" => current[1] \in Dispatching /\ Dispatching = {current[1]}
  BY PlacesTyped DEF PlaceInv, TypeInv, ThreadTypes
<1>a. ASSUME Executor!DispatchReturns,
             UNCHANGED <<reader, reversedList, unconsumed, receiver.message>>
      PROVE  /\ Singly' /\ Apart' /\ Dispatching' = {}
             /\ UNCHANGED <<Reading, Batch, Queued, Turned, Taken, Waiting>>
             /\ Everywhere' = Everywhere \ Dispatching
             /\ Dispatching \subseteq Everywhere
  <2>1. /\ Singly' /\ Apart' /\ Dispatching' = {}
        /\ UNCHANGED <<Reading, Batch, Queued, Turned, Taken, Waiting>>
    BY <1>a, ReturnMoves
  <2>2. Everywhere' = Everywhere \ Dispatching /\ Dispatching \subseteq Everywhere
    BY <2>1 DEF Everywhere, PlaceInv, Apart
  <2> QED
    BY <2>1, <2>2
<1>1. CASE LookUp
  <2>1. CASE Target \in consumers
    <3>1. Kept
      BY <1>1, <2>1 DEF LookUp, IsAt, Kept, Stay, executorVars, consumerVars
    <3> QED
      BY <3>1, KeptTracked
  <2>2. CASE Target \notin consumers
    <3>1. /\ Executor!DispatchReturns /\ lost' = lost \cup Dispatching
          /\ UNCHANGED <<reader, reversedList, unconsumed, receiver, call, sent, given,
                         acked, expired>>
          /\ position = "entered" /\ position' = "idle"
      BY <1>1, <2>2 DEF LookUp, IsAt, consumerVars, Dispatching
    <3> QED
      BY <1>a, <3>1 DEF Tracked
  <2> QED
    BY <2>1, <2>2
<1>2. CASE DispatchExpired
  <2>1. /\ Executor!DispatchReturns
        /\ UNCHANGED <<reader, reversedList, unconsumed, receiver, call, sent, given>>
        /\ position = "found" /\ position' = "idle"
        /\ \/ /\ acked' = acked \cup Dispatching /\ expired' = expired \cup Dispatching
              /\ UNCHANGED lost
           \/ lost' = lost \cup Dispatching /\ UNCHANGED <<acked, expired>>
    BY <1>0, <1>2 DEF DispatchExpired, IsAt, Expires, consumerVars
  <2> QED
    BY <1>a, <2>1 DEF Tracked
<1>3. CASE OnMessage
  <2>1. Stay /\ given' = given \cup Dispatching /\ position' = "listening"
        /\ UNCHANGED <<sent, acked, expired, lost, receiver, call>>
    BY <1>3 DEF OnMessage, Stay, executorVars, consumerVars, Dispatching
  <2>2. /\ Singly' /\ Apart'
        /\ UNCHANGED <<Dispatching, Turned, Taken, Everywhere>>
    BY <2>1, StayKeeps
  <2>3. Dispatching \subseteq Everywhere
    BY DEF Everywhere
  <2> QED
    BY <2>1, <2>2, <2>3 DEF Tracked
<1>4. CASE PushUnconsumed
  <2>1. /\ Singly' /\ Apart' /\ Dispatching' = {}
        /\ Waiting' = Waiting \cup Dispatching
        /\ UNCHANGED <<Reading, Batch, Queued, Turned, Taken>>
    BY <1>4, PushUnconsumedMoves
  <2>2. Everywhere' = Everywhere
    BY <2>1 DEF Everywhere
  <2>3. /\ UNCHANGED <<sent, given, acked, expired, lost, call>>
        /\ position = "pushing" /\ receiver'.on = receiver.on
    BY <1>4 DEF PushUnconsumed, IsAt, WakeReceiver, historyVars, PlaceInv, TypeInv,
       ThreadTypes
  <2> QED
    BY <2>1, <2>2, <2>3 DEF Tracked
<1>5. CASE OnMessageReturns
  <2>1. /\ Executor!DispatchReturns
        /\ UNCHANGED <<reader, reversedList, unconsumed, receiver, call, sent, given,
                       expired, lost>>
        /\ position' = "idle"
        /\ acked' = acked \/ acked' = acked \cup Dispatching
        /\ Dispatching \subseteq given /\ position = "listening"
    BY <1>5 DEF OnMessageReturns, IsAt, consumerVars, Dispatching, Tracked
  <2> QED
    BY <1>a, <2>1 DEF Tracked
<1> QED
  BY <1>1, <1>2, <1>3, <1>4, <1>5

\* A message that is received.
LEMMA ReceiveTracked ==
    ASSUME PlaceInv, Tracked, DequeueTakes \/ DequeueExpired \/ ReceiveReturns
    PROVE  Singly' /\ Apart' /\ Tracked'
<1>1. CASE DequeueTakes
  <2>1. /\ Singly' /\ Apart' /\ Taken = {} /\ Taken' \subseteq Waiting
        /\ \A m \in Taken' : ConsumerOf[m] = receiver'.on
        /\ Waiting' = Waiting \ Taken'
        /\ UNCHANGED <<Reading, Dispatching, Batch, Queued, Turned>>
    BY <1>1, DequeueTakesMoves
  <2>2. UNCHANGED <<sent, given, acked, expired, lost, position, call>>
    BY <1>1 DEF DequeueTakes, historyVars
  <2>3. Everywhere' = Everywhere
    BY <2>1 DEF Everywhere
  <2> QED
    BY <2>1, <2>2, <2>3 DEF Tracked
<1>2. CASE DequeueExpired
  <2> DEFINE m == Head(unconsumed[receiver.on])
  <2>1. /\ Singly' /\ Apart' /\ m \in Waiting
        /\ Waiting' = Waiting \ {m} /\ Taken = {}
        /\ UNCHANGED <<Reading, Dispatching, Batch, Queued, Turned, Taken>>
    BY <1>2, DequeueExpiredMoves
  <2>2. /\ UNCHANGED <<sent, given, position, call>>
        /\ \/ /\ acked' = acked \cup {m} /\ expired' = expired \cup {m}
              /\ UNCHANGED lost
           \/ lost' = lost \cup {m} /\ UNCHANGED <<acked, expired>>
    BY <1>2 DEF DequeueExpired, Expires
  <2> HIDE DEF m
  <2>3. /\ Everywhere' = Everywhere \ {m} /\ m \in Everywhere /\ m \notin Dispatching
        /\ m \notin given
    BY <2>1 DEF Everywhere, PlaceInv, Apart, Tracked
  <2> QED
    BY <2>1, <2>2, <2>3 DEF Tracked
<1>3. CASE ReceiveReturns
  <2>1. /\ Singly' /\ Apart' /\ Taken' = {}
        /\ UNCHANGED <<Reading, Dispatching, Batch, Queued, Turned, Waiting>>
    BY <1>3, ReceiveReturnsMoves
  <2>2. /\ UNCHANGED <<sent, expired, position, call>>
        /\ \/ /\ acked' = acked \cup Taken /\ given' = given \cup Taken
              /\ UNCHANGED lost
           \/ lost' = lost \cup Taken /\ UNCHANGED <<acked, given>>
    BY <1>3 DEF ReceiveReturns, Taken
  <2>3. /\ Everywhere' = Everywhere \ Taken /\ Taken \subseteq Everywhere
        /\ Taken \cap Dispatching = {}
    BY <2>1 DEF Everywhere, PlaceInv, Apart
  <2> QED
    BY <2>1, <2>2, <2>3 DEF Tracked
<1> QED
  BY <1>1, <1>2, <1>3

\* The calls' own steps.
LEMMA CallTracked ==
    ASSUME PlaceInv, Tracked,
           \/ ReverseUnconsumed \/ Redispatch \/ PurgeConsumerMessages
           \/ PurgeMessages
    PROVE  Singly' /\ Apart' /\ Tracked'
<1>1. CASE ReverseUnconsumed
  <2>1. /\ Singly' /\ Apart' /\ Turned = {} /\ Turned' \subseteq Waiting
        /\ \A m \in Turned' : ConsumerOf[m] = call'.on
        /\ Waiting' = Waiting \ Turned'
        /\ UNCHANGED <<Reading, Dispatching, Batch, Queued, Taken>>
    BY <1>1, ReverseUnconsumedMoves
  <2>2. UNCHANGED <<sent, given, acked, expired, lost, position, receiver>>
    BY <1>1 DEF ReverseUnconsumed, historyVars
  <2>3. Everywhere' = Everywhere
    BY <2>1 DEF Everywhere
  <2> QED
    BY <2>1, <2>2, <2>3 DEF Tracked
<1>2. CASE Redispatch
  <2>1. /\ Singly' /\ Apart'
        /\ Turned' \subseteq Turned /\ Queued' = Queued \cup (Turned \ Turned')
        /\ UNCHANGED <<Reading, Dispatching, Batch, Taken, Waiting>>
    BY <1>2, RedispatchMoves
  <2>2. UNCHANGED <<sent, given, acked, expired, lost, position, receiver, call>>
    BY <1>2 DEF Redispatch, historyVars
  <2>3. Everywhere' = Everywhere
    BY <2>1 DEF Everywhere
  <2> QED
    BY <2>1, <2>2, <2>3 DEF Tracked
<1>3. CASE PurgeConsumerMessages
  <2> DEFINE purged == {m \in Queued : ConsumerOf[m] = call.on}
  <2>1. /\ Singly' /\ Apart'
        /\ Queued' = {m \in Queued : ConsumerOf[m] # call.on}
        /\ lost' = lost \cup purged
        /\ UNCHANGED <<Reading, Dispatching, Batch, Turned, Taken, Waiting>>
    BY <1>3, PurgeConsumerMessagesMoves
  <2>2. /\ UNCHANGED <<sent, given, acked, expired, position, receiver>>
        /\ call'.on = call.on
    BY <1>3 DEF PurgeConsumerMessages, GoTo, PlaceInv, TypeInv, CallTypes
  <2>3. /\ Everywhere' = Everywhere \ purged /\ purged \subseteq Everywhere
        /\ purged \cap Dispatching = {}
    BY <2>1 DEF Everywhere, PlaceInv, Apart
  <2> HIDE DEF purged
  <2> QED
    BY <2>1, <2>2, <2>3 DEF Tracked
<1>4. CASE PurgeMessages
  <2> DEFINE purged == {m \in Waiting : ConsumerOf[m] = call.on}
  <2>1. /\ Singly' /\ Apart'
        /\ Waiting' = {m \in Waiting : ConsumerOf[m] # call.on}
        /\ lost' = lost \cup purged
        /\ UNCHANGED <<Reading, Dispatching, Batch, Queued, Turned, Taken>>
    BY <1>4, PurgeMessagesMoves
  <2>2. /\ UNCHANGED <<sent, given, acked, expired, position, receiver>>
        /\ call'.on = call.on
    BY <1>4 DEF PurgeMessages, GoTo, PlaceInv, TypeInv, CallTypes
  <2>3. /\ Everywhere' = Everywhere \ purged /\ purged \subseteq Everywhere
        /\ purged \cap Dispatching = {}
    BY <2>1 DEF Everywhere, PlaceInv, Apart
  <2> HIDE DEF purged
  <2> QED
    BY <2>1, <2>2, <2>3 DEF Tracked
<1> QED
  BY <1>1, <1>2, <1>3, <1>4

-----------------------------------------------------------------------------
(* What a call has done when, and what the other threads can no longer do *)

TrackInv == PlaceInv /\ Tracked

\* A consumer leaves a map only when it is being closed.
Missing ==
    \A c \in Consumers \ (consumerInfoMap \cap dispatchers \cap consumers) :
        c \in closedConsumers \/ (call.op = "close" /\ call.on = c)

Dropped ==
    \A m \in lost :
        \/ ConsumerOf[m] \in closedConsumers
        \/ ConsumerOf[m] = call.on /\ call.op = "close"
        \/ state # "connected"

Losing == Missing /\ Dropped

\* A batch is dispatched in a session that is started, a call from inside a
\* listener apart, which starts it again; and the push that a listener comes
\* too late for is over before redispatch looks at the list.
Stranding ==
    \/ "stop" \in mishaps
    \/ /\ thread = "dispatching" =>
            \/ started
            \/ /\ call.op # "none" /\ call.by = Dispatcher /\ call.wasStarted
               /\ call.at \in {"working", "redispatching", "removing", "purging",
                               "restarting"}
       /\ call.at = "stopping" => call.wasStarted
       /\ position = "pushing" /\ Target \in listening =>
            /\ call.op = "listen" /\ call.on = Target
            /\ call.at \in {"asking", "stopping"}
       /\ call.op = "listen" /\ call.at \in {"redispatching", "restarting"} =>
            unconsumed[call.on] = <<>>
       /\ \A c \in listening :
            \/ call.op = "listen" /\ call.on = c
            \/ unconsumed[c] = <<>>

\* c is closed, or its close has come to one of the given positions.
Gone(c, at) ==
    \/ c \in closedConsumers /\ ~(call.op = "close" /\ call.on = c)
    \/ call.op = "close" /\ call.on = c /\ call.at \in at

AfterMarking == {"marking", "emptying", "notifying"}
AfterPurging == {"restarting"} \cup AfterMarking
AfterRemoving == {"purging"} \cup AfterPurging
AfterDispatchers == {"removing"} \cup AfterRemoving

Unharmed == mishaps \subseteq {"inside"}

\* While App's call has the session stopped nothing is dispatched...
Stopped ==
    Unharmed /\ call.by = App
      /\ call.at \in {"working", "redispatching", "removing", "purging", "restarting"} =>
        ~started /\ thread # "dispatching"

\* ... and what a close has taken away does not come back: the dispatcher of
\* the consumer, the consumer, and its messages.
Disconnected ==
    Unharmed =>
      \A c \in Consumers : Gone(c, AfterDispatchers) => c \notin dispatchers

Removed ==
    Unharmed =>
      \A c \in Consumers : Gone(c, AfterRemoving) =>
        c \notin consumers /\ (position \in {"found", "pushing"} => Target # c)

Purged ==
    Unharmed =>
      \A m \in Queued : ~Gone(ConsumerOf[m], AfterPurging)

Emptied ==
    Unharmed =>
      \A c \in Consumers : Gone(c, {"notifying"}) => unconsumed[c] = <<>>

Silent == Disconnected /\ Removed /\ Purged /\ Emptied

\* With no mishap at all the executor's batch is free of it, too.
Harmless == mishaps = {} /\ call.op = "close" => call.by = App

Cleared ==
    mishaps = {} => \A m \in Batch \cup Dispatching : ~Gone(ConsumerOf[m], AfterPurging)

Unused == mishaps = {} => undefined # "dispatcher"

Safe == Harmless /\ Cleared /\ Unused

\* What any step does to the maps, to a message that is dispatched...
Narrows ==
    /\ dispatchers' \subseteq dispatchers /\ consumers' \subseteq consumers
    /\ mishaps \subseteq mishaps' /\ raced \subseteq raced'
    /\ closedConsumers \subseteq closedConsumers'
    /\ state # "connected" => state' # "connected"
    /\ position' \in {"found", "pushing"} =>
         /\ Target' = Target
         /\ position \in {"found", "pushing"} \/ Target \in consumers'
    /\ undefined' = "dispatcher" =>
         undefined = "dispatcher" \/ (position # "idle" /\ Target \in deleted)
    /\ call'.op = "close" /\ call'.by # App =>
         (call.op = "close" /\ call.by # App) \/ "inside" \in mishaps'

\* ... and to the messages in the queue, in the batch and in the lists.
Passes ==
    /\ \A m \in Queued' :
         \/ m \in Queued \/ ConsumerOf[m] \in dispatchers
         \/ /\ call.op = "listen" /\ ConsumerOf[m] = call.on
            /\ UNCHANGED <<call, closedConsumers>>
    /\ \A m \in Batch' \cup Dispatching' : m \in Batch \cup Dispatching \cup Queued
    /\ \A c \in Consumers : unconsumed'[c] # <<>> =>
         unconsumed[c] # <<>> \/ (position = "pushing" /\ Target = c)

\* What a step has done that brings the close of c on.
Closes ==
    \A c \in Consumers : Unharmed' =>
      /\ Gone(c, AfterDispatchers)' => Gone(c, AfterDispatchers) \/ c \notin dispatchers'
      /\ Gone(c, AfterRemoving)' =>
           \/ Gone(c, AfterRemoving)
           \/ /\ c \notin consumers' /\ call.op = "close" /\ call.at = "removing"
              /\ UNCHANGED <<position, current>>
      /\ Gone(c, AfterPurging)' =>
           \/ Gone(c, AfterPurging)
           \/ /\ call.op = "close" /\ call.at = "purging"
              /\ UNCHANGED <<Batch, Dispatching>>
              /\ \A m \in Queued' : ConsumerOf[m] # c
      /\ Gone(c, {"notifying"})' => Gone(c, {"notifying"}) \/ unconsumed'[c] = <<>>

\* The reader, and the loss of the connection.
LEMMA ReaderLosing ==
    ASSUME TrackInv, Losing,
           \/ OnCommand \/ OnConsumerMessage \/ ReaderUsesDeleted
           \/ OnTransportException \/ ConnectionBreaks
    PROVE  Losing'
<1> USE DEF OnCommand, OnConsumerMessage, Executor!Execute, Executor!Notified,
        ReaderUsesDeleted, OnTransportException, ConnectionBreaks, executorVars,
        connectionVars, consumerVars, historyVars
<1>1. Missing'
  BY DEF Losing, Missing, ConnectionTypes, TrackInv, PlaceInv, TypeInv, CallTypes,
     CallPositions, NoCall, Calling
<1>2. Dropped'
  <2>1. CASE OnCommand
    <3>1. PICK m \in Messages \ sent :
            IF ConsumerOf[m] \in consumerInfoMap THEN UNCHANGED lost
            ELSE lost' = lost \cup {m}
      BY <2>1
    <3>2. ConsumerOf[m] \in Consumers
      BY ConsumerOfIs
    <3> QED
      BY <2>1, <3>1, <3>2 DEF Losing, Missing, Dropped, AckWorks, TrackInv,
         PlaceInv, TypeInv, CallTypes, CallPositions, NoCall, Calling
  <2>2. CASE OnConsumerMessage
    <3>1. reader[1] \in Messages /\ ToSet(reader) = {reader[1]}
      BY <2>2, PlacesTyped DEF Reading, TrackInv, PlaceInv
    <3>2. ConsumerOf[reader[1]] \in Consumers
      BY <3>1, ConsumerOfIs
    <3>3. \/ UNCHANGED lost
          \/ ConsumerOf[reader[1]] \notin dispatchers /\ lost' = lost \cup {reader[1]}
      BY <2>2, <3>1
    <3> QED
      BY <2>2, <3>2, <3>3 DEF Losing, Missing, Dropped, AckWorks, TrackInv,
         PlaceInv, TypeInv, CallTypes, CallPositions, NoCall, Calling
  <2>3. CASE ReaderUsesDeleted
    BY <2>3 DEF Losing, Missing, Dropped, AckWorks, TrackInv, PlaceInv, TypeInv,
       CallTypes, CallPositions, NoCall, Calling
  <2>4. CASE OnTransportException
    BY <2>4 DEF Losing, Missing, Dropped, AckWorks, TrackInv, PlaceInv, TypeInv,
       CallTypes, CallPositions, NoCall, Calling
  <2>5. CASE ConnectionBreaks
    BY <2>5 DEF Losing, Missing, Dropped, AckWorks, TrackInv, PlaceInv, TypeInv,
       CallTypes, CallPositions, NoCall, Calling
  <2> QED
    BY <2>1, <2>2, <2>3, <2>4, <2>5
<1> QED
  BY <1>1, <1>2 DEF Losing

\* The connection is started and stopped.
LEMMA ConnectionLosing ==
    ASSUME TrackInv, Losing,
           \/ ConnectionStart \/ ConnectionStop \/ ListenerStops
    PROVE  Losing'
<1> USE DEF ConnectionStart, Executor!Start, Executor!Notified, ConnectionStop,
        Executor!Stop, ListenerStops, executorVars, connectionVars, consumerVars,
        historyVars
<1>1. Missing'
  BY DEF Losing, Missing, ConnectionTypes, TrackInv, PlaceInv, TypeInv, CallTypes,
     CallPositions, NoCall, Calling
<1>2. Dropped'
  BY DEF Losing, Missing, Dropped, AckWorks, TrackInv, PlaceInv, TypeInv,
     CallTypes, CallPositions, NoCall, Calling
<1> QED
  BY <1>1, <1>2 DEF Losing

\* The executor takes a batch, and a message from it.
LEMMA BatchLosing ==
    ASSUME TrackInv, Losing,
           \/ ExecutorStep \/ Dispatch \/ SpuriousWakeup
    PROVE  Losing'
<1> USE DEF ExecutorStep, Executor!TakeBatch, Executor!EndBatch, Executor!Decide,
        Dispatch, Executor!Dispatch, SpuriousWakeup, Executor!SpuriousWakeup,
        executorVars, connectionVars, consumerVars, historyVars
<1>1. Missing'
  BY DEF Losing, Missing, ConnectionTypes, TrackInv, PlaceInv, TypeInv, CallTypes,
     CallPositions, NoCall, Calling
<1>2. Dropped'
  BY DEF Losing, Missing, Dropped, AckWorks, TrackInv, PlaceInv, TypeInv,
     CallTypes, CallPositions, NoCall, Calling
<1> QED
  BY <1>1, <1>2 DEF Losing

\* A message is dispatched.
LEMMA DispatchLosing ==
    ASSUME TrackInv, Losing,
           \/ LookUp \/ DispatchExpired \/ OnMessage \/ NoListener
           \/ PushUnconsumed \/ OnMessageReturns \/ UsesDeleted
    PROVE  Losing'
<1> USE DEF LookUp, Executor!DispatchReturns, IsAt, DispatchExpired, Expires,
        OnMessage, NoListener, PushUnconsumed, WakeReceiver, OnMessageReturns,
        UsesDeleted, executorVars, connectionVars, consumerVars, historyVars
<1>1. Missing'
  BY DEF Losing, Missing, ConnectionTypes, TrackInv, PlaceInv, TypeInv, CallTypes,
     CallPositions, NoCall, Calling
<1>2. Dropped'
  <2>1. CASE LookUp
    <3>1. current[1] \in Messages /\ ToSet(current) = {current[1]}
      BY <2>1, PlacesTyped DEF Dispatching, TrackInv, PlaceInv, TypeInv, ThreadTypes
    <3>2. Target \in Consumers /\ Target = ConsumerOf[current[1]]
      BY <3>1, ConsumerOfIs DEF Target
    <3>3. \/ UNCHANGED lost
          \/ Target \notin consumers /\ lost' = lost \cup {current[1]}
      BY <2>1, <3>1
    <3> QED
      BY <2>1, <3>2, <3>3 DEF Losing, Missing, Dropped, AckWorks, TrackInv,
         PlaceInv, TypeInv, CallTypes, CallPositions, NoCall, Calling
  <2>2. CASE DispatchExpired
    BY <2>2 DEF Losing, Missing, Dropped, AckWorks, TrackInv, PlaceInv, TypeInv,
       CallTypes, CallPositions, NoCall, Calling
  <2>3. CASE OnMessage
    BY <2>3 DEF Losing, Missing, Dropped, AckWorks, TrackInv, PlaceInv, TypeInv,
       CallTypes, CallPositions, NoCall, Calling
  <2>4. CASE NoListener
    BY <2>4 DEF Losing, Missing, Dropped, AckWorks, TrackInv, PlaceInv, TypeInv,
       CallTypes, CallPositions, NoCall, Calling
  <2>5. CASE PushUnconsumed
    BY <2>5 DEF Losing, Missing, Dropped, AckWorks, TrackInv, PlaceInv, TypeInv,
       CallTypes, CallPositions, NoCall, Calling
  <2>6. CASE OnMessageReturns
    BY <2>6 DEF Losing, Missing, Dropped, AckWorks, TrackInv, PlaceInv, TypeInv,
       CallTypes, CallPositions, NoCall, Calling
  <2>7. CASE UsesDeleted
    BY <2>7 DEF Losing, Missing, Dropped, AckWorks, TrackInv, PlaceInv, TypeInv,
       CallTypes, CallPositions, NoCall, Calling
  <2> QED
    BY <2>1, <2>2, <2>3, <2>4, <2>5, <2>6, <2>7
<1> QED
  BY <1>1, <1>2 DEF Losing

\* A message is received.
LEMMA ReceiveLosing ==
    ASSUME TrackInv, Losing,
           \/ Receive \/ DequeueWaits \/ DequeueReturnsNull \/ DequeueTakes
           \/ DequeueExpired \/ ReceiveReturns
    PROVE  Losing'
<1> USE DEF Receive, DequeueWaits, DequeueReturnsNull, NoReceive, DequeueTakes,
        DequeueExpired, Expires, ReceiveReturns, executorVars, connectionVars,
        consumerVars, historyVars
<1>1. Missing'
  BY DEF Losing, Missing, ConnectionTypes, TrackInv, PlaceInv, TypeInv, CallTypes,
     CallPositions, NoCall, Calling
<1>2. Dropped'
  <2>1. CASE Receive
    BY <2>1 DEF Losing, Missing, Dropped, AckWorks, TrackInv, PlaceInv, TypeInv,
       CallTypes, CallPositions, NoCall, Calling
  <2>2. CASE DequeueWaits
    BY <2>2 DEF Losing, Missing, Dropped, AckWorks, TrackInv, PlaceInv, TypeInv,
       CallTypes, CallPositions, NoCall, Calling
  <2>3. CASE DequeueReturnsNull
    BY <2>3 DEF Losing, Missing, Dropped, AckWorks, TrackInv, PlaceInv, TypeInv,
       CallTypes, CallPositions, NoCall, Calling
  <2>4. CASE DequeueTakes
    BY <2>4 DEF Losing, Missing, Dropped, AckWorks, TrackInv, PlaceInv, TypeInv,
       CallTypes, CallPositions, NoCall, Calling
  <2>5. CASE DequeueExpired
    <3> DEFINE m == Head(unconsumed[receiver.on])
    <3>1. \/ UNCHANGED lost
          \/ ~AckWorks(ConsumerOf[m]) /\ lost' = lost \cup {m}
      BY <2>5
    <3> HIDE DEF m
    <3> QED
      BY <2>5, <3>1 DEF Losing, Missing, Dropped, AckWorks, TrackInv, PlaceInv,
         TypeInv, CallTypes, CallPositions, NoCall, Calling
  <2>6. CASE ReceiveReturns
    <3>1. \/ UNCHANGED lost
          \/ ~AckWorks(receiver.on) /\ lost' = lost \cup Taken
      BY <2>6 DEF Taken
    <3>2. \A m \in Taken : ConsumerOf[m] = receiver.on
      BY DEF TrackInv, Tracked
    <3> QED
      BY <2>6, <3>1, <3>2 DEF Losing, Missing, Dropped, AckWorks, TrackInv,
         PlaceInv, TypeInv, CallTypes, CallPositions, NoCall, Calling
  <2> QED
    BY <2>1, <2>2, <2>3, <2>4, <2>5, <2>6
<1> QED
  BY <1>1, <1>2 DEF Losing

\* A call begins, or a consumer is deleted.
LEMMA CallLosing ==
    ASSUME TrackInv, Losing, NEW t \in {App, Dispatcher}, NEW c \in Consumers,
           \/ SetMessageListener(t, c) \/ CloseConsumer(t, c) \/ DeleteConsumer(c)
    PROVE  Losing'
<1> USE DEF SetMessageListener, MayCall, IsAt, CloseConsumer, DeleteConsumer,
        executorVars, connectionVars, consumerVars, historyVars
<1>1. Missing'
  BY DEF Losing, Missing, ConnectionTypes, TrackInv, PlaceInv, TypeInv, CallTypes,
     CallPositions, NoCall, Calling
<1>2. Dropped'
  BY DEF Losing, Missing, Dropped, AckWorks, TrackInv, PlaceInv, TypeInv,
     CallTypes, CallPositions, NoCall, Calling
<1> QED
  BY <1>1, <1>2 DEF Losing

\* A call stops the session, and starts it again.
LEMMA StoppingLosing ==
    ASSUME TrackInv, Losing,
           \/ AskStarted \/ StopForCall \/ Restart
    PROVE  Losing'
<1> USE DEF AskStarted, At, StopForCall, GoTo, Executor!Stop, Restart, NoCall,
        Executor!Start, Executor!Notified, executorVars, connectionVars,
        consumerVars, historyVars
<1>1. Missing'
  BY DEF Losing, Missing, ConnectionTypes, TrackInv, PlaceInv, TypeInv, CallTypes,
     CallPositions, NoCall, Calling
<1>2. Dropped'
  BY DEF Losing, Missing, Dropped, AckWorks, TrackInv, PlaceInv, TypeInv,
     CallTypes, CallPositions, NoCall, Calling
<1> QED
  BY <1>1, <1>2 DEF Losing

\* The messages that a listener missed are dispatched again.
LEMMA RedispatchLosing ==
    ASSUME TrackInv, Losing,
           \/ ReverseUnconsumed \/ Redispatch \/ Redispatched
    PROVE  Losing'
<1> USE DEF ReverseUnconsumed, At, GoTo, Redispatch, Executor!ExecuteFirst,
        Executor!Notified, Redispatched, executorVars, connectionVars,
        consumerVars, historyVars
<1>1. Missing'
  BY DEF Losing, Missing, ConnectionTypes, TrackInv, PlaceInv, TypeInv, CallTypes,
     CallPositions, NoCall, Calling
<1>2. Dropped'
  BY DEF Losing, Missing, Dropped, AckWorks, TrackInv, PlaceInv, TypeInv,
     CallTypes, CallPositions, NoCall, Calling
<1> QED
  BY <1>1, <1>2 DEF Losing

\* The connector, the connection and the session forget a consumer.
LEMMA ClosingLosing ==
    ASSUME TrackInv, Losing,
           \/ CloseResource \/ RemoveDispatcher \/ RemoveConsumer
           \/ PurgeConsumerMessages
    PROVE  Losing'
<1> USE DEF CloseResource, At, GoTo, RemoveDispatcher, RemoveConsumer,
        PurgeConsumerMessages, Executor!Purge, executorVars, connectionVars,
        consumerVars, historyVars
<1>1. Missing'
  BY DEF Losing, Missing, ConnectionTypes, TrackInv, PlaceInv, TypeInv, CallTypes,
     CallPositions, NoCall, Calling
<1>2. Dropped'
  <2>1. CASE CloseResource
    BY <2>1 DEF Losing, Missing, Dropped, AckWorks, TrackInv, PlaceInv, TypeInv,
       CallTypes, CallPositions, NoCall, Calling
  <2>2. CASE RemoveDispatcher
    BY <2>2 DEF Losing, Missing, Dropped, AckWorks, TrackInv, PlaceInv, TypeInv,
       CallTypes, CallPositions, NoCall, Calling
  <2>3. CASE RemoveConsumer
    BY <2>3 DEF Losing, Missing, Dropped, AckWorks, TrackInv, PlaceInv, TypeInv,
       CallTypes, CallPositions, NoCall, Calling
  <2>4. CASE PurgeConsumerMessages
    <3>1. lost' = lost \cup {m \in Queued : ConsumerOf[m] = call.on}
      BY <2>4, PurgeConsumerMessagesMoves DEF TrackInv
    <3>2. call.op = "close" /\ call'.op = "close" /\ call'.on = call.on
      BY <2>4 DEF TrackInv, PlaceInv, TypeInv, Calling, CallTypes, NoCall
    <3> QED
      BY <2>4, <3>1, <3>2 DEF Losing, Dropped
  <2> QED
    BY <2>1, <2>2, <2>3, <2>4
<1> QED
  BY <1>1, <1>2 DEF Losing

\* A consumer is closed.
LEMMA MarkingLosing ==
    ASSUME TrackInv, Losing,
           \/ MarkClosed \/ PurgeMessages \/ NotifyReceivers
    PROVE  Losing'
<1> USE DEF MarkClosed, At, GoTo, PurgeMessages, NotifyReceivers, NoCall,
        WakeReceiver, executorVars, connectionVars, consumerVars, historyVars
<1>1. Missing'
  BY DEF Losing, Missing, ConnectionTypes, TrackInv, PlaceInv, TypeInv, CallTypes,
     CallPositions, NoCall, Calling
<1>2. Dropped'
  <2>1. CASE MarkClosed
    BY <2>1 DEF Losing, Missing, Dropped, AckWorks, TrackInv, PlaceInv, TypeInv,
       CallTypes, CallPositions, NoCall, Calling
  <2>2. CASE PurgeMessages
    <3>1. lost' = lost \cup {m \in Waiting : ConsumerOf[m] = call.on}
      BY <2>2, PurgeMessagesMoves DEF TrackInv
    <3>2. call.op = "close" /\ call'.op = "close" /\ call'.on = call.on
      BY <2>2 DEF TrackInv, PlaceInv, TypeInv, Calling, CallTypes, NoCall
    <3> QED
      BY <2>2, <3>1, <3>2 DEF Losing, Dropped
  <2>3. CASE NotifyReceivers
    BY <2>3 DEF Losing, Missing, Dropped, AckWorks, TrackInv, PlaceInv, TypeInv,
       CallTypes, CallPositions, NoCall, Calling
  <2> QED
    BY <2>1, <2>2, <2>3
<1> QED
  BY <1>1, <1>2 DEF Losing

\* The Dispatcher is in dispatch() for a consumer.
LEMMA WhereDispatching ==
    ASSUME TypeInv
    PROVE  position # "idle" => thread = "dispatching" /\ Target \in Consumers
<1>1. position # "idle" => current # <<>>
  BY DEF TypeInv, ThreadTypes
<1>2. current # <<>> => thread = "dispatching" /\ current[1] \in Messages
  BY PlacesTyped
<1> QED
  BY <1>1, <1>2, ConsumerOfIs DEF Target

\* What is in the executor is for some consumer.
LEMMA QueuedFor ==
    ASSUME TypeInv
    PROVE  \A m \in Batch \cup Dispatching \cup Queued :
              m \in Messages /\ ConsumerOf[m] \in Consumers
<1>1. /\ current \in Seq(Messages) /\ dataList \in Seq(Messages)
      /\ messageQueue \in Seq(Messages)
  BY PlacesTyped
<1>2. Batch \cup Dispatching \cup Queued \subseteq Messages
  BY <1>1 DEF Batch, Dispatching, Queued, ToSet
<1> QED
  BY <1>2, ConsumerOfIs

\* The reader, and the loss of the connection.
LEMMA ReaderStranding ==
    ASSUME TrackInv, Stranding,
           \/ OnCommand \/ OnConsumerMessage \/ ReaderUsesDeleted
           \/ OnTransportException \/ ConnectionBreaks
    PROVE  Stranding'
<1>a. position # "idle" => thread = "dispatching" /\ Target \in Consumers
  BY WhereDispatching DEF TrackInv, PlaceInv
<1>b. ~closed /\ closer = "open" /\ App # Dispatcher /\ Owner # Dispatcher
  BY ThreadsDiffer DEF TrackInv, PlaceInv, TypeInv, ExecutorTypes
<1> USE DEF OnCommand, OnConsumerMessage, Executor!Execute, Executor!Notified,
        ReaderUsesDeleted, OnTransportException, ConnectionBreaks, executorVars,
        connectionVars, consumerVars, historyVars
<1> QED
  BY <1>a, <1>b DEF Stranding, TrackInv, PlaceInv, TypeInv, CallTypes,
     CallPositions, NoCall, Calling, Target

\* The connection is started and stopped.
LEMMA ConnectionStranding ==
    ASSUME TrackInv, Stranding,
           \/ ConnectionStart \/ ConnectionStop \/ ListenerStops
    PROVE  Stranding'
<1>a. position # "idle" => thread = "dispatching" /\ Target \in Consumers
  BY WhereDispatching DEF TrackInv, PlaceInv
<1>b. ~closed /\ closer = "open" /\ App # Dispatcher /\ Owner # Dispatcher
  BY ThreadsDiffer DEF TrackInv, PlaceInv, TypeInv, ExecutorTypes
<1> USE DEF ConnectionStart, Executor!Start, Executor!Notified, ConnectionStop,
        Executor!Stop, ListenerStops, executorVars, connectionVars, consumerVars,
        historyVars
<1> QED
  BY <1>a, <1>b DEF Stranding, TrackInv, PlaceInv, TypeInv, CallTypes,
     CallPositions, NoCall, Calling, Target

\* The executor takes a batch, and a message from it.
LEMMA BatchStranding ==
    ASSUME TrackInv, Stranding,
           \/ ExecutorStep \/ Dispatch \/ SpuriousWakeup
    PROVE  Stranding'
<1>a. position # "idle" => thread = "dispatching" /\ Target \in Consumers
  BY WhereDispatching DEF TrackInv, PlaceInv
<1>b. ~closed /\ closer = "open" /\ App # Dispatcher /\ Owner # Dispatcher
  BY ThreadsDiffer DEF TrackInv, PlaceInv, TypeInv, ExecutorTypes
<1> USE DEF ExecutorStep, Executor!TakeBatch, Executor!EndBatch, Executor!Decide,
        Dispatch, Executor!Dispatch, SpuriousWakeup, Executor!SpuriousWakeup,
        executorVars, connectionVars, consumerVars, historyVars
<1> QED
  BY <1>a, <1>b DEF Stranding, TrackInv, PlaceInv, TypeInv, CallTypes,
     CallPositions, NoCall, Calling, Target

\* A message is dispatched.
LEMMA DispatchStranding ==
    ASSUME TrackInv, Stranding,
           \/ LookUp \/ DispatchExpired \/ OnMessage \/ NoListener
           \/ PushUnconsumed \/ OnMessageReturns \/ UsesDeleted
    PROVE  Stranding'
<1>a. position # "idle" => thread = "dispatching" /\ Target \in Consumers
  BY WhereDispatching DEF TrackInv, PlaceInv
<1>b. ~closed /\ closer = "open" /\ App # Dispatcher /\ Owner # Dispatcher
  BY ThreadsDiffer DEF TrackInv, PlaceInv, TypeInv, ExecutorTypes
<1> USE DEF LookUp, Executor!DispatchReturns, IsAt, DispatchExpired, Expires,
        OnMessage, NoListener, PushUnconsumed, WakeReceiver, OnMessageReturns,
        UsesDeleted, executorVars, connectionVars, consumerVars, historyVars
<1>1. CASE LookUp
  BY <1>1, <1>a, <1>b DEF Stranding, TrackInv, PlaceInv, TypeInv, CallTypes,
     CallPositions, NoCall, Calling, Target
<1>2. CASE DispatchExpired
  BY <1>2, <1>a, <1>b DEF Stranding, TrackInv, PlaceInv, TypeInv, CallTypes,
     CallPositions, NoCall, Calling, Target
<1>3. CASE OnMessage
  BY <1>3, <1>a, <1>b DEF Stranding, TrackInv, PlaceInv, TypeInv, CallTypes,
     CallPositions, NoCall, Calling, Target
<1>4. CASE NoListener
  BY <1>4, <1>a, <1>b DEF Stranding, TrackInv, PlaceInv, TypeInv, CallTypes,
     CallPositions, NoCall, Calling, Target
<1>5. CASE PushUnconsumed
  BY <1>5, <1>a, <1>b DEF Stranding, TrackInv, PlaceInv, TypeInv, CallTypes,
     CallPositions, NoCall, Calling, Target
<1>6. CASE OnMessageReturns
  BY <1>6, <1>a, <1>b DEF Stranding, TrackInv, PlaceInv, TypeInv, CallTypes,
     CallPositions, NoCall, Calling, Target
<1>7. CASE UsesDeleted
  BY <1>7, <1>a, <1>b DEF Stranding, TrackInv, PlaceInv, TypeInv, CallTypes,
     CallPositions, NoCall, Calling, Target
<1> QED
  BY <1>1, <1>2, <1>3, <1>4, <1>5, <1>6, <1>7

\* A message is received.
LEMMA ReceiveStranding ==
    ASSUME TrackInv, Stranding,
           \/ Receive \/ DequeueWaits \/ DequeueReturnsNull \/ DequeueTakes
           \/ DequeueExpired \/ ReceiveReturns
    PROVE  Stranding'
<1>a. position # "idle" => thread = "dispatching" /\ Target \in Consumers
  BY WhereDispatching DEF TrackInv, PlaceInv
<1>b. ~closed /\ closer = "open" /\ App # Dispatcher /\ Owner # Dispatcher
  BY ThreadsDiffer DEF TrackInv, PlaceInv, TypeInv, ExecutorTypes
<1> USE DEF Receive, DequeueWaits, DequeueReturnsNull, NoReceive, DequeueTakes,
        DequeueExpired, Expires, ReceiveReturns, executorVars, connectionVars,
        consumerVars, historyVars
<1>1. CASE Receive
  BY <1>1, <1>a, <1>b, <1>a, <1>b DEF Stranding, TrackInv, PlaceInv, TypeInv,
     CallTypes, CallPositions, NoCall, Calling, Target
<1>2. CASE DequeueWaits
  BY <1>2, <1>a, <1>b DEF Stranding, TrackInv, PlaceInv, TypeInv, CallTypes,
     CallPositions, NoCall, Calling, Target
<1>3. CASE DequeueReturnsNull
  BY <1>3, <1>a, <1>b DEF Stranding, TrackInv, PlaceInv, TypeInv, CallTypes,
     CallPositions, NoCall, Calling, Target
<1>4. CASE DequeueTakes
  BY <1>4, <1>a, <1>b DEF Stranding, TrackInv, PlaceInv, TypeInv, CallTypes,
     CallPositions, NoCall, Calling, Target
<1>5. CASE DequeueExpired
  BY <1>5, <1>a, <1>b DEF Stranding, TrackInv, PlaceInv, TypeInv, CallTypes,
     CallPositions, NoCall, Calling, Target
<1>6. CASE ReceiveReturns
  BY <1>6, <1>a, <1>b DEF Stranding, TrackInv, PlaceInv, TypeInv, CallTypes,
     CallPositions, NoCall, Calling, Target
<1> QED
  BY <1>1, <1>2, <1>3, <1>4, <1>5, <1>6

\* A call begins, or a consumer is deleted.
LEMMA CallStranding ==
    ASSUME TrackInv, Stranding, NEW t \in {App, Dispatcher}, NEW c \in Consumers,
           \/ SetMessageListener(t, c) \/ CloseConsumer(t, c) \/ DeleteConsumer(c)
    PROVE  Stranding'
<1>a. position # "idle" => thread = "dispatching" /\ Target \in Consumers
  BY WhereDispatching DEF TrackInv, PlaceInv
<1>b. ~closed /\ closer = "open" /\ App # Dispatcher /\ Owner # Dispatcher
  BY ThreadsDiffer DEF TrackInv, PlaceInv, TypeInv, ExecutorTypes
<1> USE DEF SetMessageListener, MayCall, IsAt, CloseConsumer, DeleteConsumer,
        executorVars, connectionVars, consumerVars, historyVars
<1> QED
  BY <1>a, <1>b DEF Stranding, TrackInv, PlaceInv, TypeInv, CallTypes,
     CallPositions, NoCall, Calling, Target

\* A call stops the session, and starts it again.
LEMMA StoppingStranding ==
    ASSUME TrackInv, Stranding,
           \/ AskStarted \/ StopForCall \/ Restart
    PROVE  Stranding'
<1>a. position # "idle" => thread = "dispatching" /\ Target \in Consumers
  BY WhereDispatching DEF TrackInv, PlaceInv
<1>b. ~closed /\ closer = "open" /\ App # Dispatcher /\ Owner # Dispatcher
  BY ThreadsDiffer DEF TrackInv, PlaceInv, TypeInv, ExecutorTypes
<1> USE DEF AskStarted, At, StopForCall, GoTo, Executor!Stop, Restart, NoCall,
        Executor!Start, Executor!Notified, executorVars, connectionVars,
        consumerVars, historyVars
<1>1. CASE AskStarted
  BY <1>1, <1>a, <1>b DEF Stranding, TrackInv, PlaceInv, TypeInv, CallTypes,
     CallPositions, NoCall, Calling, Target
<1>2. CASE StopForCall
  BY <1>2, <1>a, <1>b DEF Stranding, TrackInv, PlaceInv, TypeInv, CallTypes,
     CallPositions, NoCall, Calling, Target
<1>3. CASE Restart
  BY <1>3, <1>a, <1>b DEF Stranding, TrackInv, PlaceInv, TypeInv, CallTypes,
     CallPositions, NoCall, Calling, Target
<1> QED
  BY <1>1, <1>2, <1>3

\* The messages that a listener missed are dispatched again.
LEMMA RedispatchStranding ==
    ASSUME TrackInv, Stranding,
           \/ ReverseUnconsumed \/ Redispatch \/ Redispatched
    PROVE  Stranding'
<1>a. position # "idle" => thread = "dispatching" /\ Target \in Consumers
  BY WhereDispatching DEF TrackInv, PlaceInv
<1>b. ~closed /\ closer = "open" /\ App # Dispatcher /\ Owner # Dispatcher
  BY ThreadsDiffer DEF TrackInv, PlaceInv, TypeInv, ExecutorTypes
<1> USE DEF ReverseUnconsumed, At, GoTo, Redispatch, Executor!ExecuteFirst,
        Executor!Notified, Redispatched, executorVars, connectionVars,
        consumerVars, historyVars
<1>1. CASE ReverseUnconsumed
  <2>1. call.on \in Consumers /\ unconsumed \in [Consumers -> Seq(Messages)]
    BY DEF TrackInv, PlaceInv, TypeInv, CallTypes, ConsumerTypes
  <2>2. /\ unconsumed'[call.on] = <<>> /\ call'.on = call.on /\ call'.op = "listen"
        /\ \A c \in Consumers : c # call.on => unconsumed'[c] = unconsumed[c]
    BY <1>1, <2>1 DEF TrackInv, PlaceInv, TypeInv, CallTypes
  <2>3. listening \subseteq Consumers
    BY DEF TrackInv, PlaceInv, TypeInv, ConsumerTypes
  <2> QED
    BY <1>1, <1>a, <1>b, <2>1, <2>2, <2>3 DEF Stranding, TrackInv, PlaceInv,
       TypeInv, CallTypes, CallPositions, NoCall, Calling, Target
<1>2. CASE Redispatch
  BY <1>2, <1>a, <1>b, <1>a, <1>b DEF Stranding, TrackInv, PlaceInv, TypeInv,
     CallTypes, CallPositions, NoCall, Calling, Target
<1>3. CASE Redispatched
  BY <1>3, <1>a, <1>b DEF Stranding, TrackInv, PlaceInv, TypeInv, CallTypes,
     CallPositions, NoCall, Calling, Target
<1> QED
  BY <1>1, <1>2, <1>3

\* The connector, the connection and the session forget a consumer.
LEMMA ClosingStranding ==
    ASSUME TrackInv, Stranding,
           \/ CloseResource \/ RemoveDispatcher \/ RemoveConsumer
           \/ PurgeConsumerMessages
    PROVE  Stranding'
<1>a. position # "idle" => thread = "dispatching" /\ Target \in Consumers
  BY WhereDispatching DEF TrackInv, PlaceInv
<1>b. ~closed /\ closer = "open" /\ App # Dispatcher /\ Owner # Dispatcher
  BY ThreadsDiffer DEF TrackInv, PlaceInv, TypeInv, ExecutorTypes
<1> USE DEF CloseResource, At, GoTo, RemoveDispatcher, RemoveConsumer,
        PurgeConsumerMessages, Executor!Purge, executorVars, connectionVars,
        consumerVars, historyVars
<1> QED
  BY <1>a, <1>b DEF Stranding, TrackInv, PlaceInv, TypeInv, CallTypes,
     CallPositions, NoCall, Calling, Target

\* A consumer is closed.
LEMMA MarkingStranding ==
    ASSUME TrackInv, Stranding,
           \/ MarkClosed \/ PurgeMessages \/ NotifyReceivers
    PROVE  Stranding'
<1>a. position # "idle" => thread = "dispatching" /\ Target \in Consumers
  BY WhereDispatching DEF TrackInv, PlaceInv
<1>b. ~closed /\ closer = "open" /\ App # Dispatcher /\ Owner # Dispatcher
  BY ThreadsDiffer DEF TrackInv, PlaceInv, TypeInv, ExecutorTypes
<1> USE DEF MarkClosed, At, GoTo, PurgeMessages, NotifyReceivers, NoCall,
        WakeReceiver, executorVars, connectionVars, consumerVars, historyVars
<1>1. CASE MarkClosed
  BY <1>1, <1>a, <1>b DEF Stranding, TrackInv, PlaceInv, TypeInv, CallTypes,
     CallPositions, NoCall, Calling, Target
<1>2. CASE PurgeMessages
  BY <1>2, <1>a, <1>b DEF Stranding, TrackInv, PlaceInv, TypeInv, CallTypes,
     CallPositions, NoCall, Calling, Target
<1>3. CASE NotifyReceivers
  BY <1>3, <1>a, <1>b DEF Stranding, TrackInv, PlaceInv, TypeInv, CallTypes,
     CallPositions, NoCall, Calling, Target
<1> QED
  BY <1>1, <1>2, <1>3

\* The reader, and the loss of the connection.
LEMMA ReaderStopped ==
    ASSUME TrackInv, Stranding, Stopped,
           \/ OnCommand \/ OnConsumerMessage \/ ReaderUsesDeleted
           \/ OnTransportException \/ ConnectionBreaks
    PROVE  Stopped'
<1>a. position # "idle" => thread = "dispatching" /\ Target \in Consumers
  BY WhereDispatching DEF TrackInv, PlaceInv
<1>b. ~closed /\ closer = "open" /\ App # Dispatcher /\ Owner # Dispatcher
  BY ThreadsDiffer DEF TrackInv, PlaceInv, TypeInv, ExecutorTypes
<1> USE DEF OnCommand, OnConsumerMessage, Executor!Execute, Executor!Notified,
        ReaderUsesDeleted, OnTransportException, ConnectionBreaks, executorVars,
        connectionVars, consumerVars, historyVars
<1> QED
  BY <1>a, <1>b DEF Stopped, Stranding, Unharmed, TrackInv, PlaceInv, TypeInv,
     CallTypes, CallPositions, NoCall, Calling, Target

\* The connection is started and stopped.
LEMMA ConnectionStopped ==
    ASSUME TrackInv, Stranding, Stopped,
           \/ ConnectionStart \/ ConnectionStop \/ ListenerStops
    PROVE  Stopped'
<1>a. position # "idle" => thread = "dispatching" /\ Target \in Consumers
  BY WhereDispatching DEF TrackInv, PlaceInv
<1>b. ~closed /\ closer = "open" /\ App # Dispatcher /\ Owner # Dispatcher
  BY ThreadsDiffer DEF TrackInv, PlaceInv, TypeInv, ExecutorTypes
<1> USE DEF ConnectionStart, Executor!Start, Executor!Notified, ConnectionStop,
        Executor!Stop, ListenerStops, executorVars, connectionVars, consumerVars,
        historyVars
<1>1. CASE ConnectionStart
  BY <1>1, <1>a, <1>b DEF Stopped, Stranding, Unharmed, TrackInv, PlaceInv,
     TypeInv, CallTypes, CallPositions, NoCall, Calling, Target
<1>2. CASE ConnectionStop
  BY <1>2, <1>a, <1>b DEF Stopped, Stranding, Unharmed, TrackInv, PlaceInv,
     TypeInv, CallTypes, CallPositions, NoCall, Calling, Target
<1>3. CASE ListenerStops
  BY <1>3, <1>a, <1>b DEF Stopped, Stranding, Unharmed, TrackInv, PlaceInv,
     TypeInv, CallTypes, CallPositions, NoCall, Calling, Target
<1> QED
  BY <1>1, <1>2, <1>3

\* The executor takes a batch, and a message from it.
LEMMA BatchStopped ==
    ASSUME TrackInv, Stranding, Stopped,
           \/ ExecutorStep \/ Dispatch \/ SpuriousWakeup
    PROVE  Stopped'
<1>a. position # "idle" => thread = "dispatching" /\ Target \in Consumers
  BY WhereDispatching DEF TrackInv, PlaceInv
<1>b. ~closed /\ closer = "open" /\ App # Dispatcher /\ Owner # Dispatcher
  BY ThreadsDiffer DEF TrackInv, PlaceInv, TypeInv, ExecutorTypes
<1> USE DEF ExecutorStep, Executor!TakeBatch, Executor!EndBatch, Executor!Decide,
        Dispatch, Executor!Dispatch, SpuriousWakeup, Executor!SpuriousWakeup,
        executorVars, connectionVars, consumerVars, historyVars
<1> QED
  BY <1>a, <1>b DEF Stopped, Stranding, Unharmed, TrackInv, PlaceInv, TypeInv,
     CallTypes, CallPositions, NoCall, Calling, Target

\* A message is dispatched.
LEMMA DispatchStopped ==
    ASSUME TrackInv, Stranding, Stopped,
           \/ LookUp \/ DispatchExpired \/ OnMessage \/ NoListener
           \/ PushUnconsumed \/ OnMessageReturns \/ UsesDeleted
    PROVE  Stopped'
<1>a. position # "idle" => thread = "dispatching" /\ Target \in Consumers
  BY WhereDispatching DEF TrackInv, PlaceInv
<1>b. ~closed /\ closer = "open" /\ App # Dispatcher /\ Owner # Dispatcher
  BY ThreadsDiffer DEF TrackInv, PlaceInv, TypeInv, ExecutorTypes
<1> USE DEF LookUp, Executor!DispatchReturns, IsAt, DispatchExpired, Expires,
        OnMessage, NoListener, PushUnconsumed, WakeReceiver, OnMessageReturns,
        UsesDeleted, executorVars, connectionVars, consumerVars, historyVars
<1> QED
  BY <1>a, <1>b DEF Stopped, Stranding, Unharmed, TrackInv, PlaceInv, TypeInv,
     CallTypes, CallPositions, NoCall, Calling, Target

\* A message is received.
LEMMA ReceiveStopped ==
    ASSUME TrackInv, Stranding, Stopped,
           \/ Receive \/ DequeueWaits \/ DequeueReturnsNull \/ DequeueTakes
           \/ DequeueExpired \/ ReceiveReturns
    PROVE  Stopped'
<1>a. position # "idle" => thread = "dispatching" /\ Target \in Consumers
  BY WhereDispatching DEF TrackInv, PlaceInv
<1>b. ~closed /\ closer = "open" /\ App # Dispatcher /\ Owner # Dispatcher
  BY ThreadsDiffer DEF TrackInv, PlaceInv, TypeInv, ExecutorTypes
<1> USE DEF Receive, DequeueWaits, DequeueReturnsNull, NoReceive, DequeueTakes,
        DequeueExpired, Expires, ReceiveReturns, executorVars, connectionVars,
        consumerVars, historyVars
<1> QED
  BY <1>a, <1>b DEF Stopped, Stranding, Unharmed, TrackInv, PlaceInv, TypeInv,
     CallTypes, CallPositions, NoCall, Calling, Target

\* A call begins, or a consumer is deleted.
LEMMA CallStopped ==
    ASSUME TrackInv, Stranding, Stopped, NEW t \in {App, Dispatcher},
           NEW c \in Consumers,
           \/ SetMessageListener(t, c) \/ CloseConsumer(t, c) \/ DeleteConsumer(c)
    PROVE  Stopped'
<1>a. position # "idle" => thread = "dispatching" /\ Target \in Consumers
  BY WhereDispatching DEF TrackInv, PlaceInv
<1>b. ~closed /\ closer = "open" /\ App # Dispatcher /\ Owner # Dispatcher
  BY ThreadsDiffer DEF TrackInv, PlaceInv, TypeInv, ExecutorTypes
<1> USE DEF SetMessageListener, MayCall, IsAt, CloseConsumer, DeleteConsumer,
        executorVars, connectionVars, consumerVars, historyVars
<1> QED
  BY <1>a, <1>b DEF Stopped, Stranding, Unharmed, TrackInv, PlaceInv, TypeInv,
     CallTypes, CallPositions, NoCall, Calling, Target

\* A call stops the session, and starts it again.
LEMMA StoppingStopped ==
    ASSUME TrackInv, Stranding, Stopped,
           \/ AskStarted \/ StopForCall \/ Restart
    PROVE  Stopped'
<1>a. position # "idle" => thread = "dispatching" /\ Target \in Consumers
  BY WhereDispatching DEF TrackInv, PlaceInv
<1>b. ~closed /\ closer = "open" /\ App # Dispatcher /\ Owner # Dispatcher
  BY ThreadsDiffer DEF TrackInv, PlaceInv, TypeInv, ExecutorTypes
<1> USE DEF AskStarted, At, StopForCall, GoTo, Executor!Stop, Restart, NoCall,
        Executor!Start, Executor!Notified, executorVars, connectionVars,
        consumerVars, historyVars
<1>1. CASE AskStarted
  BY <1>1, <1>a, <1>b DEF Stopped, Stranding, Unharmed, TrackInv, PlaceInv,
     TypeInv, CallTypes, CallPositions, NoCall, Calling, Target
<1>2. CASE StopForCall
  BY <1>2, <1>a, <1>b DEF Stopped, Stranding, Unharmed, TrackInv, PlaceInv,
     TypeInv, CallTypes, CallPositions, NoCall, Calling, Target
<1>3. CASE Restart
  BY <1>3, <1>a, <1>b DEF Stopped, Stranding, Unharmed, TrackInv, PlaceInv,
     TypeInv, CallTypes, CallPositions, NoCall, Calling, Target
<1> QED
  BY <1>1, <1>2, <1>3

\* The messages that a listener missed are dispatched again.
LEMMA RedispatchStopped ==
    ASSUME TrackInv, Stranding, Stopped,
           \/ ReverseUnconsumed \/ Redispatch \/ Redispatched
    PROVE  Stopped'
<1>a. position # "idle" => thread = "dispatching" /\ Target \in Consumers
  BY WhereDispatching DEF TrackInv, PlaceInv
<1>b. ~closed /\ closer = "open" /\ App # Dispatcher /\ Owner # Dispatcher
  BY ThreadsDiffer DEF TrackInv, PlaceInv, TypeInv, ExecutorTypes
<1> USE DEF ReverseUnconsumed, At, GoTo, Redispatch, Executor!ExecuteFirst,
        Executor!Notified, Redispatched, executorVars, connectionVars,
        consumerVars, historyVars
<1> QED
  BY <1>a, <1>b DEF Stopped, Stranding, Unharmed, TrackInv, PlaceInv, TypeInv,
     CallTypes, CallPositions, NoCall, Calling, Target

\* The connector, the connection and the session forget a consumer.
LEMMA ClosingStopped ==
    ASSUME TrackInv, Stranding, Stopped,
           \/ CloseResource \/ RemoveDispatcher \/ RemoveConsumer
           \/ PurgeConsumerMessages
    PROVE  Stopped'
<1>a. position # "idle" => thread = "dispatching" /\ Target \in Consumers
  BY WhereDispatching DEF TrackInv, PlaceInv
<1>b. ~closed /\ closer = "open" /\ App # Dispatcher /\ Owner # Dispatcher
  BY ThreadsDiffer DEF TrackInv, PlaceInv, TypeInv, ExecutorTypes
<1> USE DEF CloseResource, At, GoTo, RemoveDispatcher, RemoveConsumer,
        PurgeConsumerMessages, Executor!Purge, executorVars, connectionVars,
        consumerVars, historyVars
<1> QED
  BY <1>a, <1>b DEF Stopped, Stranding, Unharmed, TrackInv, PlaceInv, TypeInv,
     CallTypes, CallPositions, NoCall, Calling, Target

\* A consumer is closed.
LEMMA MarkingStopped ==
    ASSUME TrackInv, Stranding, Stopped,
           \/ MarkClosed \/ PurgeMessages \/ NotifyReceivers
    PROVE  Stopped'
<1>a. position # "idle" => thread = "dispatching" /\ Target \in Consumers
  BY WhereDispatching DEF TrackInv, PlaceInv
<1>b. ~closed /\ closer = "open" /\ App # Dispatcher /\ Owner # Dispatcher
  BY ThreadsDiffer DEF TrackInv, PlaceInv, TypeInv, ExecutorTypes
<1> USE DEF MarkClosed, At, GoTo, PurgeMessages, NotifyReceivers, NoCall,
        WakeReceiver, executorVars, connectionVars, consumerVars, historyVars
<1> QED
  BY <1>a, <1>b DEF Stopped, Stranding, Unharmed, TrackInv, PlaceInv, TypeInv,
     CallTypes, CallPositions, NoCall, Calling, Target

\* The reader, and the loss of the connection.
LEMMA ReaderNarrows ==
    ASSUME TrackInv,
           \/ OnCommand \/ OnConsumerMessage \/ ReaderUsesDeleted
           \/ OnTransportException \/ ConnectionBreaks
    PROVE  Narrows
<1>a. position # "idle" => thread = "dispatching" /\ Target \in Consumers
  BY WhereDispatching DEF TrackInv, PlaceInv
<1>b. ~closed /\ closer = "open" /\ App # Dispatcher /\ Owner # Dispatcher
  BY ThreadsDiffer DEF TrackInv, PlaceInv, TypeInv, ExecutorTypes
<1> USE DEF OnCommand, OnConsumerMessage, Executor!Execute, Executor!Notified,
        ReaderUsesDeleted, OnTransportException, ConnectionBreaks, executorVars,
        connectionVars, consumerVars, historyVars
<1> QED
  BY <1>a, <1>b DEF Narrows, TrackInv, PlaceInv, TypeInv, CallTypes,
     CallPositions, NoCall, Calling, Target

\* The connection is started and stopped.
LEMMA ConnectionNarrows ==
    ASSUME TrackInv,
           \/ ConnectionStart \/ ConnectionStop \/ ListenerStops
    PROVE  Narrows
<1>a. position # "idle" => thread = "dispatching" /\ Target \in Consumers
  BY WhereDispatching DEF TrackInv, PlaceInv
<1>b. ~closed /\ closer = "open" /\ App # Dispatcher /\ Owner # Dispatcher
  BY ThreadsDiffer DEF TrackInv, PlaceInv, TypeInv, ExecutorTypes
<1> USE DEF ConnectionStart, Executor!Start, Executor!Notified, ConnectionStop,
        Executor!Stop, ListenerStops, executorVars, connectionVars, consumerVars,
        historyVars
<1> QED
  BY <1>a, <1>b DEF Narrows, TrackInv, PlaceInv, TypeInv, CallTypes,
     CallPositions, NoCall, Calling, Target

\* The executor takes a batch, and a message from it.
LEMMA BatchNarrows ==
    ASSUME TrackInv,
           \/ ExecutorStep \/ Dispatch \/ SpuriousWakeup
    PROVE  Narrows
<1>a. position # "idle" => thread = "dispatching" /\ Target \in Consumers
  BY WhereDispatching DEF TrackInv, PlaceInv
<1>b. ~closed /\ closer = "open" /\ App # Dispatcher /\ Owner # Dispatcher
  BY ThreadsDiffer DEF TrackInv, PlaceInv, TypeInv, ExecutorTypes
<1> USE DEF ExecutorStep, Executor!TakeBatch, Executor!EndBatch, Executor!Decide,
        Dispatch, Executor!Dispatch, SpuriousWakeup, Executor!SpuriousWakeup,
        executorVars, connectionVars, consumerVars, historyVars
<1> QED
  BY <1>a, <1>b DEF Narrows, TrackInv, PlaceInv, TypeInv, CallTypes,
     CallPositions, NoCall, Calling, Target

\* A message is dispatched.
LEMMA DispatchNarrows ==
    ASSUME TrackInv,
           \/ LookUp \/ DispatchExpired \/ OnMessage \/ NoListener
           \/ PushUnconsumed \/ OnMessageReturns \/ UsesDeleted
    PROVE  Narrows
<1>a. position # "idle" => thread = "dispatching" /\ Target \in Consumers
  BY WhereDispatching DEF TrackInv, PlaceInv
<1>b. ~closed /\ closer = "open" /\ App # Dispatcher /\ Owner # Dispatcher
  BY ThreadsDiffer DEF TrackInv, PlaceInv, TypeInv, ExecutorTypes
<1> USE DEF LookUp, Executor!DispatchReturns, IsAt, DispatchExpired, Expires,
        OnMessage, NoListener, PushUnconsumed, WakeReceiver, OnMessageReturns,
        UsesDeleted, executorVars, connectionVars, consumerVars, historyVars
<1> QED
  BY <1>a, <1>b DEF Narrows, TrackInv, PlaceInv, TypeInv, CallTypes,
     CallPositions, NoCall, Calling, Target

\* A message is received.
LEMMA ReceiveNarrows ==
    ASSUME TrackInv,
           \/ Receive \/ DequeueWaits \/ DequeueReturnsNull \/ DequeueTakes
           \/ DequeueExpired \/ ReceiveReturns
    PROVE  Narrows
<1>a. position # "idle" => thread = "dispatching" /\ Target \in Consumers
  BY WhereDispatching DEF TrackInv, PlaceInv
<1>b. ~closed /\ closer = "open" /\ App # Dispatcher /\ Owner # Dispatcher
  BY ThreadsDiffer DEF TrackInv, PlaceInv, TypeInv, ExecutorTypes
<1> USE DEF Receive, DequeueWaits, DequeueReturnsNull, NoReceive, DequeueTakes,
        DequeueExpired, Expires, ReceiveReturns, executorVars, connectionVars,
        consumerVars, historyVars
<1> QED
  BY <1>a, <1>b DEF Narrows, TrackInv, PlaceInv, TypeInv, CallTypes,
     CallPositions, NoCall, Calling, Target

\* A call begins, or a consumer is deleted.
LEMMA CallNarrows ==
    ASSUME TrackInv, NEW t \in {App, Dispatcher}, NEW c \in Consumers,
           \/ SetMessageListener(t, c) \/ CloseConsumer(t, c) \/ DeleteConsumer(c)
    PROVE  Narrows
<1>a. position # "idle" => thread = "dispatching" /\ Target \in Consumers
  BY WhereDispatching DEF TrackInv, PlaceInv
<1>b. ~closed /\ closer = "open" /\ App # Dispatcher /\ Owner # Dispatcher
  BY ThreadsDiffer DEF TrackInv, PlaceInv, TypeInv, ExecutorTypes
<1> USE DEF SetMessageListener, MayCall, IsAt, CloseConsumer, DeleteConsumer,
        executorVars, connectionVars, consumerVars, historyVars
<1> QED
  BY <1>a, <1>b DEF Narrows, TrackInv, PlaceInv, TypeInv, CallTypes,
     CallPositions, NoCall, Calling, Target

\* A call stops the session, and starts it again.
LEMMA StoppingNarrows ==
    ASSUME TrackInv,
           \/ AskStarted \/ StopForCall \/ Restart
    PROVE  Narrows
<1>a. position # "idle" => thread = "dispatching" /\ Target \in Consumers
  BY WhereDispatching DEF TrackInv, PlaceInv
<1>b. ~closed /\ closer = "open" /\ App # Dispatcher /\ Owner # Dispatcher
  BY ThreadsDiffer DEF TrackInv, PlaceInv, TypeInv, ExecutorTypes
<1> USE DEF AskStarted, At, StopForCall, GoTo, Executor!Stop, Restart, NoCall,
        Executor!Start, Executor!Notified, executorVars, connectionVars,
        consumerVars, historyVars
<1>1. CASE AskStarted
  BY <1>1, <1>a, <1>b DEF Narrows, TrackInv, PlaceInv, TypeInv, CallTypes,
     CallPositions, NoCall, Calling, Target
<1>2. CASE StopForCall
  BY <1>2, <1>a, <1>b DEF Narrows, TrackInv, PlaceInv, TypeInv, CallTypes,
     CallPositions, NoCall, Calling, Target
<1>3. CASE Restart
  BY <1>3, <1>a, <1>b DEF Narrows, TrackInv, PlaceInv, TypeInv, CallTypes,
     CallPositions, NoCall, Calling, Target
<1> QED
  BY <1>1, <1>2, <1>3

\* The messages that a listener missed are dispatched again.
LEMMA RedispatchNarrows ==
    ASSUME TrackInv,
           \/ ReverseUnconsumed \/ Redispatch \/ Redispatched
    PROVE  Narrows
<1>a. position # "idle" => thread = "dispatching" /\ Target \in Consumers
  BY WhereDispatching DEF TrackInv, PlaceInv
<1>b. ~closed /\ closer = "open" /\ App # Dispatcher /\ Owner # Dispatcher
  BY ThreadsDiffer DEF TrackInv, PlaceInv, TypeInv, ExecutorTypes
<1> USE DEF ReverseUnconsumed, At, GoTo, Redispatch, Executor!ExecuteFirst,
        Executor!Notified, Redispatched, executorVars, connectionVars,
        consumerVars, historyVars
<1> QED
  BY <1>a, <1>b DEF Narrows, TrackInv, PlaceInv, TypeInv, CallTypes,
     CallPositions, NoCall, Calling, Target

\* The connector, the connection and the session forget a consumer.
LEMMA ClosingNarrows ==
    ASSUME TrackInv,
           \/ CloseResource \/ RemoveDispatcher \/ RemoveConsumer
           \/ PurgeConsumerMessages
    PROVE  Narrows
<1>a. position # "idle" => thread = "dispatching" /\ Target \in Consumers
  BY WhereDispatching DEF TrackInv, PlaceInv
<1>b. ~closed /\ closer = "open" /\ App # Dispatcher /\ Owner # Dispatcher
  BY ThreadsDiffer DEF TrackInv, PlaceInv, TypeInv, ExecutorTypes
<1> USE DEF CloseResource, At, GoTo, RemoveDispatcher, RemoveConsumer,
        PurgeConsumerMessages, Executor!Purge, executorVars, connectionVars,
        consumerVars, historyVars
<1> QED
  BY <1>a, <1>b DEF Narrows, TrackInv, PlaceInv, TypeInv, CallTypes,
     CallPositions, NoCall, Calling, Target

\* A consumer is closed.
LEMMA MarkingNarrows ==
    ASSUME TrackInv,
           \/ MarkClosed \/ PurgeMessages \/ NotifyReceivers
    PROVE  Narrows
<1>a. position # "idle" => thread = "dispatching" /\ Target \in Consumers
  BY WhereDispatching DEF TrackInv, PlaceInv
<1>b. ~closed /\ closer = "open" /\ App # Dispatcher /\ Owner # Dispatcher
  BY ThreadsDiffer DEF TrackInv, PlaceInv, TypeInv, ExecutorTypes
<1> USE DEF MarkClosed, At, GoTo, PurgeMessages, NotifyReceivers, NoCall,
        WakeReceiver, executorVars, connectionVars, consumerVars, historyVars
<1> QED
  BY <1>a, <1>b DEF Narrows, TrackInv, PlaceInv, TypeInv, CallTypes,
     CallPositions, NoCall, Calling, Target

\* A step that moves no message passes none on.
LEMMA StayPasses ==
    ASSUME PlaceInv, Stay
    PROVE  Passes
<1>1. UNCHANGED <<Queued, Batch, Dispatching>>
  BY StayKeeps
<1> QED
  BY <1>1 DEF Passes, Stay

\* The reader puts a message in the queue of a session that it finds.
LEMMA ReaderPasses ==
    ASSUME PlaceInv, Tracked, OnCommand \/ OnConsumerMessage
    PROVE  Passes
<1>1. CASE OnCommand
  <2>1. UNCHANGED <<Queued, Batch, Dispatching>>
    BY <1>1, OnCommandMoves DEF Tracked
  <2> QED
    BY <1>1, <2>1 DEF Passes, OnCommand, consumerVars
<1>2. CASE OnConsumerMessage
  <2>1. Reading = {reader[1]}
    BY <1>2, PlacesTyped DEF OnConsumerMessage, PlaceInv
  <2>2. \/ Queued' = Queued
        \/ Queued' = Queued \cup Reading /\ ConsumerOf[reader[1]] \in dispatchers
    <3>1. CASE ConsumerOf[reader[1]] \in dispatchers
      BY <1>2, <3>1, OnConsumerMessageMoves
    <3>2. CASE ConsumerOf[reader[1]] \notin dispatchers
      BY <1>2, <3>2 DEF OnConsumerMessage, executorVars, Queued
    <3> QED
      BY <3>1, <3>2
  <2>3. UNCHANGED <<Batch, Dispatching>>
    BY <1>2, OnConsumerMessageMoves
  <2> QED
    BY <1>2, <2>1, <2>2, <2>3 DEF Passes, OnConsumerMessage, consumerVars
<1> QED
  BY <1>1, <1>2

\* The executor takes its messages from its queue.
LEMMA BatchPasses ==
    ASSUME PlaceInv, ExecutorStep \/ Dispatch
    PROVE  Passes
<1>1. CASE ExecutorStep
  <2>1. /\ \/ Batch = {} /\ Batch' = Queued /\ Queued' = {}
           \/ UNCHANGED <<Batch, Queued>>
        /\ Dispatching' = Dispatching
    BY <1>1, ExecutorStepMoves
  <2> QED
    BY <1>1, <2>1 DEF Passes, ExecutorStep, consumerVars
<1>2. CASE Dispatch
  <2>1. Batch = Dispatching' \cup Batch' /\ Queued' = Queued
    BY <1>2, DispatchMoves
  <2> QED
    BY <1>2, <2>1 DEF Passes, Dispatch, consumerVars
<1> QED
  BY <1>1, <1>2

\* A message waits with the consumer that it is pushed to.
LEMMA DispatchPasses ==
    ASSUME PlaceInv,
           \/ LookUp \/ DispatchExpired \/ OnMessage \/ PushUnconsumed
           \/ OnMessageReturns
    PROVE  Passes
<1>1. CASE LookUp /\ position' = "found"
  <2>1. Stay
    BY <1>1 DEF LookUp, Stay, executorVars, consumerVars
  <2> QED
    BY <2>1, StayPasses
<1>2. CASE (LookUp /\ position' # "found") \/ DispatchExpired \/ OnMessageReturns
  <2>1. /\ Executor!DispatchReturns
        /\ UNCHANGED <<reader, reversedList, unconsumed, receiver>>
    BY <1>2 DEF LookUp, DispatchExpired, OnMessageReturns, consumerVars
  <2>2. Dispatching' = {} /\ UNCHANGED <<Batch, Queued>>
    BY <2>1, ReturnMoves
  <2> QED
    BY <2>1, <2>2 DEF Passes
<1>3. CASE OnMessage
  <2>1. Stay
    BY <1>3 DEF OnMessage, Stay, executorVars, consumerVars
  <2> QED
    BY <2>1, StayPasses
<1>4. CASE PushUnconsumed
  <2>1. Dispatching' = {} /\ UNCHANGED <<Batch, Queued>>
    BY <1>4, PushUnconsumedMoves
  <2>2. \A c \in Consumers : c # Target => unconsumed'[c] = unconsumed[c]
    BY <1>4 DEF PushUnconsumed, PlaceInv, TypeInv, ConsumerTypes
  <2> QED
    BY <1>4, <2>1, <2>2 DEF Passes, PushUnconsumed, IsAt
<1> QED
  BY <1>1, <1>2, <1>3, <1>4

\* A receive only takes messages away.
LEMMA ReceivePasses ==
    ASSUME PlaceInv, DequeueTakes \/ DequeueExpired \/ ReceiveReturns
    PROVE  Passes
<1>1. UNCHANGED <<Queued, Batch, Dispatching>>
  BY DequeueTakesMoves, DequeueExpiredMoves, ReceiveReturnsMoves
<1>2. \A c \in Consumers : unconsumed'[c] # <<>> => unconsumed[c] # <<>>
  BY DEF DequeueTakes, DequeueExpired, ReceiveReturns, consumerVars, PlaceInv,
     TypeInv, ConsumerTypes
<1> QED
  BY <1>1, <1>2 DEF Passes

\* A call puts back the messages of its own consumer.
LEMMA CallPasses ==
    ASSUME PlaceInv, Tracked,
           \/ ReverseUnconsumed \/ Redispatch \/ PurgeConsumerMessages
           \/ PurgeMessages
    PROVE  Passes
<1>1. CASE ReverseUnconsumed \/ PurgeMessages
  <2>1. UNCHANGED <<Queued, Batch, Dispatching>>
    BY <1>1, ReverseUnconsumedMoves, PurgeMessagesMoves
  <2>2. \A c \in Consumers : unconsumed'[c] # <<>> => unconsumed[c] # <<>>
    BY <1>1 DEF ReverseUnconsumed, PurgeMessages, PlaceInv, TypeInv, ConsumerTypes
  <2> QED
    BY <2>1, <2>2 DEF Passes
<1>2. CASE Redispatch
  <2>1. /\ Turned' \subseteq Turned /\ Queued' = Queued \cup (Turned \ Turned')
        /\ UNCHANGED <<Batch, Dispatching>>
    BY <1>2, RedispatchMoves
  <2>2. call.op = "listen"
    BY <1>2 DEF Redispatch, PlaceInv, TypeInv, Calling
  <2>3. \A m \in Turned : ConsumerOf[m] = call.on
    BY DEF Tracked
  <2> QED
    BY <1>2, <2>1, <2>2, <2>3 DEF Passes, Redispatch, consumerVars
<1>3. CASE PurgeConsumerMessages
  <2>1. Queued' \subseteq Queued /\ UNCHANGED <<Batch, Dispatching>>
    BY <1>3, PurgeConsumerMessagesMoves
  <2> QED
    BY <1>3, <2>1 DEF Passes, PurgeConsumerMessages, consumerVars
<1> QED
  BY <1>1, <1>2, <1>3

\* The reader, and the loss of the connection.
LEMMA ReaderCloses ==
    ASSUME TrackInv,
           \/ OnCommand \/ OnConsumerMessage \/ ReaderUsesDeleted
           \/ OnTransportException \/ ConnectionBreaks
    PROVE  Closes
<1> USE DEF OnCommand, OnConsumerMessage, Executor!Execute, Executor!Notified,
        ReaderUsesDeleted, OnTransportException, ConnectionBreaks, executorVars,
        connectionVars, consumerVars, historyVars
<1> QED
  BY DEF Closes, Gone, AfterDispatchers, AfterRemoving, AfterPurging,
     AfterMarking, Unharmed, TrackInv, PlaceInv, TypeInv, CallTypes,
     CallPositions, NoCall, Calling

\* The connection is started and stopped.
LEMMA ConnectionCloses ==
    ASSUME TrackInv,
           \/ ConnectionStart \/ ConnectionStop \/ ListenerStops
    PROVE  Closes
<1> USE DEF ConnectionStart, Executor!Start, Executor!Notified, ConnectionStop,
        Executor!Stop, ListenerStops, executorVars, connectionVars, consumerVars,
        historyVars
<1> QED
  BY DEF Closes, Gone, AfterDispatchers, AfterRemoving, AfterPurging,
     AfterMarking, Unharmed, TrackInv, PlaceInv, TypeInv, CallTypes,
     CallPositions, NoCall, Calling

\* The executor takes a batch, and a message from it.
LEMMA BatchCloses ==
    ASSUME TrackInv,
           \/ ExecutorStep \/ Dispatch \/ SpuriousWakeup
    PROVE  Closes
<1> USE DEF ExecutorStep, Executor!TakeBatch, Executor!EndBatch, Executor!Decide,
        Dispatch, Executor!Dispatch, SpuriousWakeup, Executor!SpuriousWakeup,
        executorVars, connectionVars, consumerVars, historyVars
<1> QED
  BY DEF Closes, Gone, AfterDispatchers, AfterRemoving, AfterPurging,
     AfterMarking, Unharmed, TrackInv, PlaceInv, TypeInv, CallTypes,
     CallPositions, NoCall, Calling

\* A message is dispatched.
LEMMA DispatchCloses ==
    ASSUME TrackInv,
           \/ LookUp \/ DispatchExpired \/ OnMessage \/ NoListener
           \/ PushUnconsumed \/ OnMessageReturns \/ UsesDeleted
    PROVE  Closes
<1> USE DEF LookUp, Executor!DispatchReturns, IsAt, DispatchExpired, Expires,
        OnMessage, NoListener, PushUnconsumed, WakeReceiver, OnMessageReturns,
        UsesDeleted, executorVars, connectionVars, consumerVars, historyVars
<1> QED
  BY DEF Closes, Gone, AfterDispatchers, AfterRemoving, AfterPurging,
     AfterMarking, Unharmed, TrackInv, PlaceInv, TypeInv, CallTypes,
     CallPositions, NoCall, Calling

\* A message is received.
LEMMA ReceiveCloses ==
    ASSUME TrackInv,
           \/ Receive \/ DequeueWaits \/ DequeueReturnsNull \/ DequeueTakes
           \/ DequeueExpired \/ ReceiveReturns
    PROVE  Closes
<1> USE DEF Receive, DequeueWaits, DequeueReturnsNull, NoReceive, DequeueTakes,
        DequeueExpired, Expires, ReceiveReturns, executorVars, connectionVars,
        consumerVars, historyVars
<1> QED
  BY DEF Closes, Gone, AfterDispatchers, AfterRemoving, AfterPurging,
     AfterMarking, Unharmed, TrackInv, PlaceInv, TypeInv, CallTypes,
     CallPositions, NoCall, Calling

\* A call begins, or a consumer is deleted.
LEMMA CallCloses ==
    ASSUME TrackInv, NEW t \in {App, Dispatcher}, NEW c \in Consumers,
           \/ SetMessageListener(t, c) \/ CloseConsumer(t, c) \/ DeleteConsumer(c)
    PROVE  Closes
<1> USE DEF SetMessageListener, MayCall, IsAt, CloseConsumer, DeleteConsumer,
        executorVars, connectionVars, consumerVars, historyVars
<1> QED
  BY DEF Closes, Gone, AfterDispatchers, AfterRemoving, AfterPurging,
     AfterMarking, Unharmed, TrackInv, PlaceInv, TypeInv, CallTypes,
     CallPositions, NoCall, Calling

\* A call stops the session, and starts it again.
LEMMA StoppingCloses ==
    ASSUME TrackInv,
           \/ AskStarted \/ StopForCall \/ Restart
    PROVE  Closes
<1> USE DEF AskStarted, At, StopForCall, GoTo, Executor!Stop, Restart, NoCall,
        Executor!Start, Executor!Notified, executorVars, connectionVars,
        consumerVars, historyVars
<1>1. CASE AskStarted
  BY <1>1 DEF Closes, Gone, AfterDispatchers, AfterRemoving, AfterPurging,
     AfterMarking, Unharmed, TrackInv, PlaceInv, TypeInv, CallTypes,
     CallPositions, NoCall, Calling
<1>2. CASE StopForCall
  BY <1>2 DEF Closes, Gone, AfterDispatchers, AfterRemoving, AfterPurging,
     AfterMarking, Unharmed, TrackInv, PlaceInv, TypeInv, CallTypes,
     CallPositions, NoCall, Calling
<1>3. CASE Restart
  BY <1>3 DEF Closes, Gone, AfterDispatchers, AfterRemoving, AfterPurging,
     AfterMarking, Unharmed, TrackInv, PlaceInv, TypeInv, CallTypes,
     CallPositions, NoCall, Calling
<1> QED
  BY <1>1, <1>2, <1>3

\* The messages that a listener missed are dispatched again.
LEMMA RedispatchCloses ==
    ASSUME TrackInv,
           \/ ReverseUnconsumed \/ Redispatch \/ Redispatched
    PROVE  Closes
<1> USE DEF ReverseUnconsumed, At, GoTo, Redispatch, Executor!ExecuteFirst,
        Executor!Notified, Redispatched, executorVars, connectionVars,
        consumerVars, historyVars
<1> QED
  BY DEF Closes, Gone, AfterDispatchers, AfterRemoving, AfterPurging,
     AfterMarking, Unharmed, TrackInv, PlaceInv, TypeInv, CallTypes,
     CallPositions, NoCall, Calling

\* The connector, the connection and the session forget a consumer.
LEMMA ClosingCloses ==
    ASSUME TrackInv,
           \/ CloseResource \/ RemoveDispatcher \/ RemoveConsumer
           \/ PurgeConsumerMessages
    PROVE  Closes
<1> USE DEF CloseResource, At, GoTo, RemoveDispatcher, RemoveConsumer,
        PurgeConsumerMessages, Executor!Purge, executorVars, connectionVars,
        consumerVars, historyVars
<1>1. CASE CloseResource
  BY <1>1 DEF Closes, Gone, AfterDispatchers, AfterRemoving, AfterPurging,
     AfterMarking, Unharmed, TrackInv, PlaceInv, TypeInv, CallTypes,
     CallPositions, NoCall, Calling
<1>2. CASE RemoveDispatcher
  BY <1>2 DEF Closes, Gone, AfterDispatchers, AfterRemoving, AfterPurging,
     AfterMarking, Unharmed, TrackInv, PlaceInv, TypeInv, CallTypes,
     CallPositions, NoCall, Calling
<1>3. CASE RemoveConsumer
  BY <1>3 DEF Closes, Gone, AfterDispatchers, AfterRemoving, AfterPurging,
     AfterMarking, Unharmed, TrackInv, PlaceInv, TypeInv, CallTypes,
     CallPositions, NoCall, Calling
<1>4. CASE PurgeConsumerMessages
  <2>1. /\ Queued' = {m \in Queued : ConsumerOf[m] # call.on}
        /\ UNCHANGED <<Batch, Dispatching>>
    BY <1>4, PurgeConsumerMessagesMoves DEF TrackInv
  <2> QED
    BY <1>4, <2>1 DEF Closes, Gone, AfterDispatchers, AfterRemoving, AfterPurging,
       AfterMarking, Unharmed, TrackInv, PlaceInv, TypeInv, CallTypes,
       CallPositions, NoCall, Calling
<1> QED
  BY <1>1, <1>2, <1>3, <1>4

\* A consumer is closed.
LEMMA MarkingCloses ==
    ASSUME TrackInv,
           \/ MarkClosed \/ PurgeMessages \/ NotifyReceivers
    PROVE  Closes
<1> USE DEF MarkClosed, At, GoTo, PurgeMessages, NotifyReceivers, NoCall,
        WakeReceiver, executorVars, connectionVars, consumerVars, historyVars
<1>1. CASE MarkClosed
  BY <1>1 DEF Closes, Gone, AfterDispatchers, AfterRemoving, AfterPurging,
     AfterMarking, Unharmed, TrackInv, PlaceInv, TypeInv, CallTypes,
     CallPositions, NoCall, Calling
<1>2. CASE PurgeMessages
  <2>1. unconsumed'[call.on] = <<>>
    BY <1>2, PurgeMessagesMoves DEF TrackInv
  <2> QED
    BY <1>2, <2>1 DEF Closes, Gone, AfterDispatchers, AfterRemoving, AfterPurging,
       AfterMarking, Unharmed, TrackInv, PlaceInv, TypeInv, CallTypes,
       CallPositions, NoCall, Calling
<1>3. CASE NotifyReceivers
  BY <1>3 DEF Closes, Gone, AfterDispatchers, AfterRemoving, AfterPurging,
     AfterMarking, Unharmed, TrackInv, PlaceInv, TypeInv, CallTypes,
     CallPositions, NoCall, Calling
<1> QED
  BY <1>1, <1>2, <1>3

\* What a close has taken away stays away.
LEMMA SilentHolds ==
    ASSUME TrackInv, TypeInv', Stopped, Silent, Narrows, Passes, Closes
    PROVE  Silent'
<1>1. Unharmed' => Unharmed
  BY DEF Narrows, Unharmed
<1>2. Disconnected'
  BY <1>1 DEF Silent, Disconnected, Narrows, Closes
<1>3. Removed'
  <2> SUFFICES ASSUME Unharmed', NEW c \in Consumers, Gone(c, AfterRemoving)'
               PROVE  /\ c \notin consumers'
                      /\ position' \in {"found", "pushing"} => Target' # c
    BY DEF Removed
  <2>1. CASE Gone(c, AfterRemoving)
    BY <1>1, <2>1 DEF Silent, Removed, Narrows
  <2>2. CASE /\ c \notin consumers' /\ call.op = "close" /\ call.at = "removing"
             /\ UNCHANGED <<position, current>>
    <3>1. position \notin {"found", "pushing"}
      <4>1. call.by = App \/ call.by = Dispatcher
        BY DEF TrackInv, PlaceInv, TypeInv, CallTypes
      <4>2. call.by = App => thread # "dispatching"
        BY <1>1, <2>2 DEF Stopped
      <4>3. position # "idle" => thread = "dispatching"
        BY WhereDispatching DEF TrackInv, PlaceInv
      <4>4. call.by = Dispatcher => position = "listening"
        BY <2>2 DEF TrackInv, PlaceInv, TypeInv, Calling
      <4> QED
        BY <4>1, <4>2, <4>3, <4>4
    <3> QED
      BY <2>2, <3>1
  <2> QED
    BY <2>1, <2>2 DEF Closes
<1>4. Purged'
  <2> SUFFICES ASSUME Unharmed', NEW m \in Queued', Gone(ConsumerOf[m], AfterPurging)'
               PROVE  FALSE
    BY DEF Purged
  <2>1. ConsumerOf[m] \in Consumers
    <3>1. messageQueue' \in Seq(Messages)
      BY DEF TypeInv, ExecutorTypes, Executor!TypeOK, Executor!QueueTypeOK
    <3>2. Queued' \subseteq Messages
      BY <3>1 DEF Queued, ToSet
    <3> QED
      BY <3>2, ConsumerOfIs
  <2>2. Gone(ConsumerOf[m], AfterPurging)
    BY <2>1 DEF Closes
  <2>3. Gone(ConsumerOf[m], AfterDispatchers)
    BY <2>2 DEF Gone, AfterDispatchers, AfterRemoving
  <2>4. m \notin Queued /\ ConsumerOf[m] \notin dispatchers
    BY <1>1, <2>1, <2>2, <2>3 DEF Silent, Purged, Disconnected
  <2>5. /\ call.op = "listen" /\ ConsumerOf[m] = call.on
        /\ UNCHANGED <<call, closedConsumers>>
    BY <2>4 DEF Passes
  <2>6. call.on \notin closedConsumers
    BY <2>5 DEF TrackInv, PlaceInv, TypeInv, Calling
  <2> QED
    BY <2>2, <2>5, <2>6 DEF Gone
<1>5. Emptied'
  <2> SUFFICES ASSUME Unharmed', NEW c \in Consumers, Gone(c, {"notifying"})',
                      unconsumed'[c] # <<>>
               PROVE  FALSE
    BY DEF Emptied
  <2>1. Gone(c, {"notifying"})
    BY DEF Closes
  <2>2. Gone(c, AfterRemoving)
    BY <2>1 DEF Gone, AfterRemoving, AfterPurging, AfterMarking
  <2>3. unconsumed[c] = <<>> /\ (position \in {"found", "pushing"} => Target # c)
    BY <1>1, <2>1, <2>2 DEF Silent, Emptied, Removed
  <2> QED
    BY <2>3 DEF Passes
<1> QED
  BY <1>2, <1>3, <1>4, <1>5 DEF Silent

\* The executor does not come across a consumer that is closed.
LEMMA SafeHolds ==
    ASSUME TrackInv, TypeInv', Stopped, Silent, Safe, Narrows, Passes, Closes
    PROVE  Safe'
<1>1. mishaps' = {} => mishaps = {} /\ Unharmed /\ Unharmed'
  BY DEF Narrows, Unharmed
<1>2. Harmless'
  BY <1>1 DEF Safe, Harmless, Narrows
<1>3. Cleared'
  <2> SUFFICES ASSUME mishaps' = {}, NEW m \in (Batch \cup Dispatching)',
                      Gone(ConsumerOf[m], AfterPurging)'
               PROVE  FALSE
    BY DEF Cleared
  <2>1. m \in Batch \cup Dispatching \cup Queued
    BY DEF Passes
  <2>2. ConsumerOf[m] \in Consumers
    BY <2>1, QueuedFor DEF TrackInv, PlaceInv
  <2>3. ~Gone(ConsumerOf[m], AfterPurging)
    BY <1>1, <2>1 DEF Safe, Cleared, Silent, Purged
  <2>4. /\ call.op = "close" /\ call.at = "purging"
        /\ UNCHANGED <<Batch, Dispatching>>
    BY <1>1, <2>2, <2>3 DEF Closes
  <2>5. thread # "dispatching"
    BY <1>1, <2>4 DEF Stopped, Safe, Harmless
  <2>6. Batch = {} /\ Dispatching = {}
    BY <2>5, PlacesTyped DEF TrackInv, PlaceInv
  <2> QED
    BY <2>4, <2>6
<1>4. Unused'
  <2> SUFFICES ASSUME mishaps' = {}, position # "idle", Target \in deleted
               PROVE  FALSE
    BY <1>1 DEF Unused, Safe, Narrows
  <2>1. Gone(Target, AfterPurging)
    BY DEF Gone, AfterPurging, AfterMarking, TrackInv, PlaceInv, TypeInv,
       ConsumerTypes,
       Calling
  <2>2. current[1] \in Dispatching
    BY PlacesTyped DEF TrackInv, PlaceInv, TypeInv, ThreadTypes
  <2> QED
    BY <1>1, <2>1, <2>2 DEF Safe, Cleared, Target
<1> QED
  BY <1>2, <1>3, <1>4 DEF Safe

-----------------------------------------------------------------------------
(* The order of a consumer's messages *)

\* Of the messages in q those for one consumer are in the order in which they
\* were sent, or in the reverse one; consumers in R do not count.
Rising(q, R) ==
    \A i, j \in DOMAIN q :
        i < j /\ ConsumerOf[q[i]] = ConsumerOf[q[j]] /\ ConsumerOf[q[i]] \notin R
          => q[i] < q[j]
Falling(q, R) ==
    \A i, j \in DOMAIN q :
        i < j /\ ConsumerOf[q[i]] = ConsumerOf[q[j]] /\ ConsumerOf[q[i]] \notin R
          => q[j] < q[i]

\* Those in A were sent before those in B.
Before(A, B, R) ==
    \A m \in A, n \in B :
        ConsumerOf[m] = ConsumerOf[n] /\ ConsumerOf[m] \notin R => m < n

\* Up to one message is in order.
LEMMA ShortRises ==
    ASSUME NEW R
    PROVE  /\ Rising(<<>>, R) /\ Falling(<<>>, R)
           /\ \A m \in Messages : Rising(<<m>>, R)
<1>1. Rising(<<>>, R) /\ Falling(<<>>, R)
  BY DEF Rising, Falling
<1>2. ASSUME NEW m \in Messages PROVE Rising(<<m>>, R)
  <2>1. \A i, j \in DOMAIN <<m>> : ~(i < j)
    OBVIOUS
  <2> QED
    BY <2>1 DEF Rising
<1> QED
  BY <1>1, <1>2

\* Two rows in order, the first before the second.
LEMMA JoinedRises ==
    ASSUME NEW R, NEW s \in Seq(Messages), NEW t \in Seq(Messages),
           Rising(s, R), Rising(t, R), Before(ToSet(s), ToSet(t), R)
    PROVE  Rising(s \o t, R)
<1> SUFFICES ASSUME NEW i \in DOMAIN (s \o t), NEW j \in DOMAIN (s \o t), i < j,
                    ConsumerOf[(s \o t)[i]] = ConsumerOf[(s \o t)[j]],
                    ConsumerOf[(s \o t)[i]] \notin R
             PROVE  (s \o t)[i] < (s \o t)[j]
  BY DEF Rising
<1>1. /\ Len(s) \in Nat /\ Len(t) \in Nat /\ DOMAIN s = 1..Len(s) /\ DOMAIN t = 1..Len(t)
      /\ DOMAIN (s \o t) = 1..(Len(s) + Len(t)) /\ i \in Nat /\ j \in Nat
  OBVIOUS
<1>2. /\ i \in 1..Len(s) => (s \o t)[i] = s[i]
      /\ j \in 1..Len(s) => (s \o t)[j] = s[j]
      /\ i \notin 1..Len(s) => i - Len(s) \in 1..Len(t) /\ (s \o t)[i] = t[i - Len(s)]
      /\ j \notin 1..Len(s) => j - Len(s) \in 1..Len(t) /\ (s \o t)[j] = t[j - Len(s)]
  BY <1>1
<1>3. CASE i \in 1..Len(s) /\ j \in 1..Len(s)
  BY <1>1, <1>2, <1>3 DEF Rising
<1>4. CASE i \notin 1..Len(s) /\ j \notin 1..Len(s)
  <2>1. i - Len(s) < j - Len(s)
    BY <1>1
  <2> QED
    BY <1>1, <1>2, <1>4, <2>1 DEF Rising
<1>5. CASE i \in 1..Len(s) /\ j \notin 1..Len(s)
  <2>1. s[i] \in ToSet(s) /\ t[j - Len(s)] \in ToSet(t)
    BY <1>1, <1>2, <1>5 DEF ToSet
  <2> QED
    BY <1>2, <1>5, <2>1 DEF Before
<1>6. CASE i \notin 1..Len(s) /\ j \in 1..Len(s)
  BY <1>1, <1>6
<1> QED
  BY <1>3, <1>4, <1>5, <1>6

\* The first of a row, and the others.
LEMMA RestRises ==
    ASSUME NEW R, NEW s \in Seq(Messages), s # <<>>
    PROVE  /\ Rising(s, R) =>
                Rising(Tail(s), R) /\ Before({Head(s)}, ToSet(Tail(s)), R)
           /\ Falling(s, R) =>
                Falling(Tail(s), R) /\ Before(ToSet(Tail(s)), {Head(s)}, R)
<1>1. /\ Len(s) \in Nat \ {0} /\ DOMAIN s = 1..Len(s)
      /\ Tail(s) \in Seq(Messages) /\ Len(Tail(s)) = Len(s) - 1
      /\ DOMAIN Tail(s) = 1..(Len(s) - 1) /\ Head(s) = s[1]
      /\ \A i \in 1..(Len(s) - 1) : i + 1 \in 1..Len(s) /\ Tail(s)[i] = s[i + 1]
  OBVIOUS
<1>2. \A i, j \in 1..(Len(s) - 1) : i < j => i + 1 < j + 1
  BY <1>1
<1>3. 1 \in DOMAIN s /\ \A i \in 1..(Len(s) - 1) : 1 < i + 1
  BY <1>1
<1>4. \A m \in ToSet(Tail(s)) : \E i \in 1..(Len(s) - 1) : m = s[i + 1]
  BY <1>1 DEF ToSet
<1>5. ASSUME Rising(s, R)
      PROVE  Rising(Tail(s), R) /\ Before({Head(s)}, ToSet(Tail(s)), R)
  <2>1. Rising(Tail(s), R)
    BY <1>1, <1>2, <1>5 DEF Rising
  <2>2. Before({Head(s)}, ToSet(Tail(s)), R)
    BY <1>1, <1>3, <1>4, <1>5 DEF Rising, Before
  <2> QED
    BY <2>1, <2>2
<1>6. ASSUME Falling(s, R)
      PROVE  Falling(Tail(s), R) /\ Before(ToSet(Tail(s)), {Head(s)}, R)
  <2>1. Falling(Tail(s), R)
    BY <1>1, <1>2, <1>6 DEF Falling
  <2>2. Before(ToSet(Tail(s)), {Head(s)}, R)
    <3> SUFFICES ASSUME NEW i \in 1..(Len(s) - 1), ConsumerOf[s[i + 1]] = ConsumerOf[s[1]],
                        ConsumerOf[s[i + 1]] \notin R
                 PROVE  s[i + 1] < s[1]
      BY <1>1, <1>4 DEF Before
    <3> QED
      BY <1>1, <1>3, <1>6 DEF Falling
  <2> QED
    BY <2>1, <2>2
<1> QED
  BY <1>5, <1>6

\* A row turned round.
LEMMA ReversedFalls ==
    ASSUME NEW R, NEW s \in Seq(Messages), Rising(s, R)
    PROVE  Falling(Reverse(s), R)
<1> SUFFICES ASSUME NEW i \in DOMAIN Reverse(s), NEW j \in DOMAIN Reverse(s), i < j,
                    ConsumerOf[Reverse(s)[i]] = ConsumerOf[Reverse(s)[j]],
                    ConsumerOf[Reverse(s)[i]] \notin R
             PROVE  Reverse(s)[j] < Reverse(s)[i]
  BY DEF Falling
<1>1. /\ Len(s) \in Nat /\ DOMAIN s = 1..Len(s) /\ DOMAIN Reverse(s) = 1..Len(s)
      /\ i \in 1..Len(s) /\ j \in 1..Len(s)
  BY DEF Reverse
<1>2. /\ Reverse(s)[i] = s[(Len(s) - i) + 1] /\ Reverse(s)[j] = s[(Len(s) - j) + 1]
  BY <1>1 DEF Reverse
<1>3. /\ (Len(s) - i) + 1 \in 1..Len(s) /\ (Len(s) - j) + 1 \in 1..Len(s)
      /\ (Len(s) - j) + 1 < (Len(s) - i) + 1
  BY <1>1
<1> QED
  BY <1>1, <1>2, <1>3 DEF Rising

\* What is kept of a row is in order.
LEMMA SelectedRises ==
    ASSUME NEW R, NEW q \in Seq(Messages), NEW I \in SUBSET DOMAIN q,
           NEW r \in Executor!Selected(q, I), Rising(q, R)
    PROVE  Rising(r, R)
<1>1. r \in Seq(Messages)
  BY SelectedPlaces
<1>2. PICK f \in [1..Len(r) -> I] :
        /\ \A i, j \in 1..Len(r) : i < j => f[i] < f[j]
        /\ \A i \in 1..Len(r) : r[i] = q[f[i]]
  BY SelectedPlaces
<1>3. DOMAIN r = 1..Len(r) /\ \A i \in 1..Len(r) : f[i] \in DOMAIN q
  BY <1>1, <1>2
<1> QED
  BY <1>2, <1>3 DEF Rising

\* A consumer with a listener is not received from, what a listener is given
\* is for a consumer with one, and nothing is dispatched while a listener is
\* set in a session that was stopped.
ReceiverAlone == receiver.at # "idle" => receiver.on \notin listening
Listened == position = "listening" => Target \in listening
Unraced ==
    mishaps = {} /\ call.op = "listen" /\ call.on \notin raced =>
        ~started /\ thread # "dispatching"

Settled == ReceiverAlone /\ Listened /\ Unraced

\* The reader, and the loss of the connection.
LEMMA ReaderSettled ==
    ASSUME TrackInv, Stranding, Settled,
           \/ OnCommand \/ OnConsumerMessage \/ ReaderUsesDeleted
           \/ OnTransportException \/ ConnectionBreaks
    PROVE  Settled'
<1>a. position # "idle" => thread = "dispatching" /\ Target \in Consumers
  BY WhereDispatching DEF TrackInv, PlaceInv
<1>b. ~closed /\ closer = "open" /\ App # Dispatcher /\ Owner # Dispatcher
  BY ThreadsDiffer DEF TrackInv, PlaceInv, TypeInv, ExecutorTypes
<1> USE DEF OnCommand, OnConsumerMessage, Executor!Execute, Executor!Notified,
        ReaderUsesDeleted, OnTransportException, ConnectionBreaks, executorVars,
        connectionVars, consumerVars, historyVars
<1>1. ReceiverAlone'
  BY <1>a, <1>b DEF ReceiverAlone, Settled, NoReceive, ThreadTypes, TrackInv,
     PlaceInv, TypeInv, CallTypes, CallPositions, NoCall, Calling, Target
<1>2. Listened'
  BY <1>a, <1>b DEF Listened, Settled, TrackInv, PlaceInv, TypeInv, CallTypes,
     CallPositions, NoCall, Calling, Target
<1>3. Unraced'
  BY <1>a, <1>b DEF Unraced, Settled, Stranding, TrackInv, PlaceInv, TypeInv,
     CallTypes, CallPositions, NoCall, Calling, Target
<1> QED
  BY <1>1, <1>2, <1>3 DEF Settled

\* The connection is started and stopped.
LEMMA ConnectionSettled ==
    ASSUME TrackInv, Stranding, Settled,
           \/ ConnectionStart \/ ConnectionStop \/ ListenerStops
    PROVE  Settled'
<1>a. position # "idle" => thread = "dispatching" /\ Target \in Consumers
  BY WhereDispatching DEF TrackInv, PlaceInv
<1>b. ~closed /\ closer = "open" /\ App # Dispatcher /\ Owner # Dispatcher
  BY ThreadsDiffer DEF TrackInv, PlaceInv, TypeInv, ExecutorTypes
<1> USE DEF ConnectionStart, Executor!Start, Executor!Notified, ConnectionStop,
        Executor!Stop, ListenerStops, executorVars, connectionVars, consumerVars,
        historyVars
<1>1. ReceiverAlone'
  BY <1>a, <1>b DEF ReceiverAlone, Settled, NoReceive, ThreadTypes, TrackInv,
     PlaceInv, TypeInv, CallTypes, CallPositions, NoCall, Calling, Target
<1>2. Listened'
  BY <1>a, <1>b DEF Listened, Settled, TrackInv, PlaceInv, TypeInv, CallTypes,
     CallPositions, NoCall, Calling, Target
<1>3. Unraced'
  <2>1. CASE ConnectionStart
    BY <2>1, <1>a, <1>b DEF Unraced, Settled, Stranding, TrackInv, PlaceInv,
       TypeInv, CallTypes, CallPositions, NoCall, Calling, Target
  <2>2. CASE ConnectionStop
    BY <2>2, <1>a, <1>b DEF Unraced, Settled, Stranding, TrackInv, PlaceInv,
       TypeInv, CallTypes, CallPositions, NoCall, Calling, Target
  <2>3. CASE ListenerStops
    BY <2>3, <1>a, <1>b DEF Unraced, Settled, Stranding, TrackInv, PlaceInv,
       TypeInv, CallTypes, CallPositions, NoCall, Calling, Target
  <2> QED
    BY <2>1, <2>2, <2>3
<1> QED
  BY <1>1, <1>2, <1>3 DEF Settled

\* The executor takes a batch, and a message from it.
LEMMA BatchSettled ==
    ASSUME TrackInv, Stranding, Settled,
           \/ ExecutorStep \/ Dispatch \/ SpuriousWakeup
    PROVE  Settled'
<1>a. position # "idle" => thread = "dispatching" /\ Target \in Consumers
  BY WhereDispatching DEF TrackInv, PlaceInv
<1>b. ~closed /\ closer = "open" /\ App # Dispatcher /\ Owner # Dispatcher
  BY ThreadsDiffer DEF TrackInv, PlaceInv, TypeInv, ExecutorTypes
<1> USE DEF ExecutorStep, Executor!TakeBatch, Executor!EndBatch, Executor!Decide,
        Dispatch, Executor!Dispatch, SpuriousWakeup, Executor!SpuriousWakeup,
        executorVars, connectionVars, consumerVars, historyVars
<1>1. ReceiverAlone'
  BY <1>a, <1>b DEF ReceiverAlone, Settled, NoReceive, ThreadTypes, TrackInv,
     PlaceInv, TypeInv, CallTypes, CallPositions, NoCall, Calling, Target
<1>2. Listened'
  BY <1>a, <1>b DEF Listened, Settled, TrackInv, PlaceInv, TypeInv, CallTypes,
     CallPositions, NoCall, Calling, Target
<1>3. Unraced'
  BY <1>a, <1>b DEF Unraced, Settled, Stranding, TrackInv, PlaceInv, TypeInv,
     CallTypes, CallPositions, NoCall, Calling, Target
<1> QED
  BY <1>1, <1>2, <1>3 DEF Settled

\* A message is dispatched.
LEMMA DispatchSettled ==
    ASSUME TrackInv, Stranding, Settled,
           \/ LookUp \/ DispatchExpired \/ OnMessage \/ NoListener
           \/ PushUnconsumed \/ OnMessageReturns \/ UsesDeleted
    PROVE  Settled'
<1>a. position # "idle" => thread = "dispatching" /\ Target \in Consumers
  BY WhereDispatching DEF TrackInv, PlaceInv
<1>b. ~closed /\ closer = "open" /\ App # Dispatcher /\ Owner # Dispatcher
  BY ThreadsDiffer DEF TrackInv, PlaceInv, TypeInv, ExecutorTypes
<1> USE DEF LookUp, Executor!DispatchReturns, IsAt, DispatchExpired, Expires,
        OnMessage, NoListener, PushUnconsumed, WakeReceiver, OnMessageReturns,
        UsesDeleted, executorVars, connectionVars, consumerVars, historyVars
<1>1. ReceiverAlone'
  BY <1>a, <1>b DEF ReceiverAlone, Settled, NoReceive, ThreadTypes, TrackInv,
     PlaceInv, TypeInv, CallTypes, CallPositions, NoCall, Calling, Target
<1>2. Listened'
  BY <1>a, <1>b DEF Listened, Settled, TrackInv, PlaceInv, TypeInv, CallTypes,
     CallPositions, NoCall, Calling, Target
<1>3. Unraced'
  BY <1>a, <1>b DEF Unraced, Settled, Stranding, TrackInv, PlaceInv, TypeInv,
     CallTypes, CallPositions, NoCall, Calling, Target
<1> QED
  BY <1>1, <1>2, <1>3 DEF Settled

\* A message is received.
LEMMA ReceiveSettled ==
    ASSUME TrackInv, Stranding, Settled,
           \/ Receive \/ DequeueWaits \/ DequeueReturnsNull \/ DequeueTakes
           \/ DequeueExpired \/ ReceiveReturns
    PROVE  Settled'
<1>a. position # "idle" => thread = "dispatching" /\ Target \in Consumers
  BY WhereDispatching DEF TrackInv, PlaceInv
<1>b. ~closed /\ closer = "open" /\ App # Dispatcher /\ Owner # Dispatcher
  BY ThreadsDiffer DEF TrackInv, PlaceInv, TypeInv, ExecutorTypes
<1> USE DEF Receive, DequeueWaits, DequeueReturnsNull, NoReceive, DequeueTakes,
        DequeueExpired, Expires, ReceiveReturns, executorVars, connectionVars,
        consumerVars, historyVars
<1>1. ReceiverAlone'
  <2>1. CASE Receive
    BY <2>1, <1>a, <1>b, <1>a, <1>b DEF ReceiverAlone, Settled, NoReceive,
       ThreadTypes, TrackInv, PlaceInv, TypeInv, CallTypes, CallPositions, NoCall,
       Calling, Target
  <2>2. CASE DequeueWaits
    BY <2>2, <1>a, <1>b DEF ReceiverAlone, Settled, NoReceive, ThreadTypes,
       TrackInv, PlaceInv, TypeInv, CallTypes, CallPositions, NoCall, Calling,
       Target
  <2>3. CASE DequeueReturnsNull
    BY <2>3, <1>a, <1>b DEF ReceiverAlone, Settled, NoReceive, ThreadTypes,
       TrackInv, PlaceInv, TypeInv, CallTypes, CallPositions, NoCall, Calling,
       Target
  <2>4. CASE DequeueTakes
    BY <2>4, <1>a, <1>b DEF ReceiverAlone, Settled, NoReceive, ThreadTypes,
       TrackInv, PlaceInv, TypeInv, CallTypes, CallPositions, NoCall, Calling,
       Target
  <2>5. CASE DequeueExpired
    BY <2>5, <1>a, <1>b DEF ReceiverAlone, Settled, NoReceive, ThreadTypes,
       TrackInv, PlaceInv, TypeInv, CallTypes, CallPositions, NoCall, Calling,
       Target
  <2>6. CASE ReceiveReturns
    BY <2>6, <1>a, <1>b DEF ReceiverAlone, Settled, NoReceive, ThreadTypes,
       TrackInv, PlaceInv, TypeInv, CallTypes, CallPositions, NoCall, Calling,
       Target
  <2> QED
    BY <2>1, <2>2, <2>3, <2>4, <2>5, <2>6
<1>2. Listened'
  BY <1>a, <1>b DEF Listened, Settled, TrackInv, PlaceInv, TypeInv, CallTypes,
     CallPositions, NoCall, Calling, Target
<1>3. Unraced'
  BY <1>a, <1>b DEF Unraced, Settled, Stranding, TrackInv, PlaceInv, TypeInv,
     CallTypes, CallPositions, NoCall, Calling, Target
<1> QED
  BY <1>1, <1>2, <1>3 DEF Settled

\* A call begins, or a consumer is deleted.
LEMMA CallSettled ==
    ASSUME TrackInv, Stranding, Settled, NEW t \in {App, Dispatcher},
           NEW c \in Consumers,
           \/ SetMessageListener(t, c) \/ CloseConsumer(t, c) \/ DeleteConsumer(c)
    PROVE  Settled'
<1>a. position # "idle" => thread = "dispatching" /\ Target \in Consumers
  BY WhereDispatching DEF TrackInv, PlaceInv
<1>b. ~closed /\ closer = "open" /\ App # Dispatcher /\ Owner # Dispatcher
  BY ThreadsDiffer DEF TrackInv, PlaceInv, TypeInv, ExecutorTypes
<1> USE DEF SetMessageListener, MayCall, IsAt, CloseConsumer, DeleteConsumer,
        executorVars, connectionVars, consumerVars, historyVars
<1>1. ReceiverAlone'
  BY <1>a, <1>b DEF ReceiverAlone, Settled, NoReceive, ThreadTypes, TrackInv,
     PlaceInv, TypeInv, CallTypes, CallPositions, NoCall, Calling, Target
<1>2. Listened'
  BY <1>a, <1>b DEF Listened, Settled, TrackInv, PlaceInv, TypeInv, CallTypes,
     CallPositions, NoCall, Calling, Target
<1>3. Unraced'
  BY <1>a, <1>b DEF Unraced, Settled, Stranding, TrackInv, PlaceInv, TypeInv,
     CallTypes, CallPositions, NoCall, Calling, Target
<1> QED
  BY <1>1, <1>2, <1>3 DEF Settled

\* A call stops the session, and starts it again.
LEMMA StoppingSettled ==
    ASSUME TrackInv, Stranding, Settled,
           \/ AskStarted \/ StopForCall \/ Restart
    PROVE  Settled'
<1>a. position # "idle" => thread = "dispatching" /\ Target \in Consumers
  BY WhereDispatching DEF TrackInv, PlaceInv
<1>b. ~closed /\ closer = "open" /\ App # Dispatcher /\ Owner # Dispatcher
  BY ThreadsDiffer DEF TrackInv, PlaceInv, TypeInv, ExecutorTypes
<1> USE DEF AskStarted, At, StopForCall, GoTo, Executor!Stop, Restart, NoCall,
        Executor!Start, Executor!Notified, executorVars, connectionVars,
        consumerVars, historyVars
<1>1. ReceiverAlone'
  BY <1>a, <1>b DEF ReceiverAlone, Settled, NoReceive, ThreadTypes, TrackInv,
     PlaceInv, TypeInv, CallTypes, CallPositions, NoCall, Calling, Target
<1>2. Listened'
  BY <1>a, <1>b DEF Listened, Settled, TrackInv, PlaceInv, TypeInv, CallTypes,
     CallPositions, NoCall, Calling, Target
<1>3. Unraced'
  <2>1. CASE AskStarted
    BY <2>1, <1>a, <1>b DEF Unraced, Settled, Stranding, TrackInv, PlaceInv,
       TypeInv, CallTypes, CallPositions, NoCall, Calling, Target
  <2>2. CASE StopForCall
    BY <2>2, <1>a, <1>b DEF Unraced, Settled, Stranding, TrackInv, PlaceInv,
       TypeInv, CallTypes, CallPositions, NoCall, Calling, Target
  <2>3. CASE Restart
    BY <2>3, <1>a, <1>b DEF Unraced, Settled, Stranding, TrackInv, PlaceInv,
       TypeInv, CallTypes, CallPositions, NoCall, Calling, Target
  <2> QED
    BY <2>1, <2>2, <2>3
<1> QED
  BY <1>1, <1>2, <1>3 DEF Settled

\* The messages that a listener missed are dispatched again.
LEMMA RedispatchSettled ==
    ASSUME TrackInv, Stranding, Settled,
           \/ ReverseUnconsumed \/ Redispatch \/ Redispatched
    PROVE  Settled'
<1>a. position # "idle" => thread = "dispatching" /\ Target \in Consumers
  BY WhereDispatching DEF TrackInv, PlaceInv
<1>b. ~closed /\ closer = "open" /\ App # Dispatcher /\ Owner # Dispatcher
  BY ThreadsDiffer DEF TrackInv, PlaceInv, TypeInv, ExecutorTypes
<1> USE DEF ReverseUnconsumed, At, GoTo, Redispatch, Executor!ExecuteFirst,
        Executor!Notified, Redispatched, executorVars, connectionVars,
        consumerVars, historyVars
<1>1. ReceiverAlone'
  BY <1>a, <1>b DEF ReceiverAlone, Settled, NoReceive, ThreadTypes, TrackInv,
     PlaceInv, TypeInv, CallTypes, CallPositions, NoCall, Calling, Target
<1>2. Listened'
  BY <1>a, <1>b DEF Listened, Settled, TrackInv, PlaceInv, TypeInv, CallTypes,
     CallPositions, NoCall, Calling, Target
<1>3. Unraced'
  BY <1>a, <1>b DEF Unraced, Settled, Stranding, TrackInv, PlaceInv, TypeInv,
     CallTypes, CallPositions, NoCall, Calling, Target
<1> QED
  BY <1>1, <1>2, <1>3 DEF Settled

\* The connector, the connection and the session forget a consumer.
LEMMA ClosingSettled ==
    ASSUME TrackInv, Stranding, Settled,
           \/ CloseResource \/ RemoveDispatcher \/ RemoveConsumer
           \/ PurgeConsumerMessages
    PROVE  Settled'
<1>a. position # "idle" => thread = "dispatching" /\ Target \in Consumers
  BY WhereDispatching DEF TrackInv, PlaceInv
<1>b. ~closed /\ closer = "open" /\ App # Dispatcher /\ Owner # Dispatcher
  BY ThreadsDiffer DEF TrackInv, PlaceInv, TypeInv, ExecutorTypes
<1> USE DEF CloseResource, At, GoTo, RemoveDispatcher, RemoveConsumer,
        PurgeConsumerMessages, Executor!Purge, executorVars, connectionVars,
        consumerVars, historyVars
<1>1. ReceiverAlone'
  BY <1>a, <1>b DEF ReceiverAlone, Settled, NoReceive, ThreadTypes, TrackInv,
     PlaceInv, TypeInv, CallTypes, CallPositions, NoCall, Calling, Target
<1>2. Listened'
  BY <1>a, <1>b DEF Listened, Settled, TrackInv, PlaceInv, TypeInv, CallTypes,
     CallPositions, NoCall, Calling, Target
<1>3. Unraced'
  BY <1>a, <1>b DEF Unraced, Settled, Stranding, TrackInv, PlaceInv, TypeInv,
     CallTypes, CallPositions, NoCall, Calling, Target
<1> QED
  BY <1>1, <1>2, <1>3 DEF Settled

\* A consumer is closed.
LEMMA MarkingSettled ==
    ASSUME TrackInv, Stranding, Settled,
           \/ MarkClosed \/ PurgeMessages \/ NotifyReceivers
    PROVE  Settled'
<1>a. position # "idle" => thread = "dispatching" /\ Target \in Consumers
  BY WhereDispatching DEF TrackInv, PlaceInv
<1>b. ~closed /\ closer = "open" /\ App # Dispatcher /\ Owner # Dispatcher
  BY ThreadsDiffer DEF TrackInv, PlaceInv, TypeInv, ExecutorTypes
<1> USE DEF MarkClosed, At, GoTo, PurgeMessages, NotifyReceivers, NoCall,
        WakeReceiver, executorVars, connectionVars, consumerVars, historyVars
<1>1. ReceiverAlone'
  BY <1>a, <1>b DEF ReceiverAlone, Settled, NoReceive, ThreadTypes, TrackInv,
     PlaceInv, TypeInv, CallTypes, CallPositions, NoCall, Calling, Target
<1>2. Listened'
  BY <1>a, <1>b DEF Listened, Settled, TrackInv, PlaceInv, TypeInv, CallTypes,
     CallPositions, NoCall, Calling, Target
<1>3. Unraced'
  BY <1>a, <1>b DEF Unraced, Settled, Stranding, TrackInv, PlaceInv, TypeInv,
     CallTypes, CallPositions, NoCall, Calling, Target
<1> QED
  BY <1>1, <1>2, <1>3 DEF Settled

-----------------------------------------------------------------------------
(* A message's place is behind those of its consumer that were sent before *)

Unsent == Messages \ sent

Rows ==
    /\ Rising(dataList, raced) /\ Rising(messageQueue, raced)
    /\ Falling(reversedList, raced)
    /\ \A c \in Consumers : Rising(unconsumed[c], raced)

Line ==
    /\ Before(given \ Dispatching,
              Taken \cup Waiting \cup Turned \cup Dispatching \cup Batch \cup Queued
                \cup Reading \cup Unsent, raced)
    /\ Before(Taken, Waiting \cup Turned \cup Dispatching \cup Batch \cup Queued
                       \cup Reading \cup Unsent, raced)
    /\ Before(Waiting \cup Turned,
              Dispatching \cup Batch \cup Queued \cup Reading \cup Unsent, raced)
    /\ Before(Dispatching, Batch \cup Queued \cup Reading \cup Unsent, raced)
    /\ Before(Batch, Queued \cup Reading \cup Unsent, raced)
    /\ Before(Queued, Reading \cup Unsent, raced)
    /\ Before(Reading, Unsent, raced)

Ordered == mishaps = {} => Rows /\ Line

\* What does not bring a message to another place keeps their order.
LEMMA StayOrdered ==
    ASSUME PlaceInv, Ordered, Stay, UNCHANGED sent,
           given' = given \/ given' = given \cup Dispatching,
           raced \subseteq raced', mishaps \subseteq mishaps'
    PROVE  Ordered'
<1> SUFFICES ASSUME mishaps = {} PROVE Rows' /\ Line'
  BY DEF Ordered
<1>1. /\ UNCHANGED <<Reading, Dispatching, Batch, Queued, Turned, Taken, Waiting>>
      /\ given' \ Dispatching' = given \ Dispatching
  BY StayKeeps
<1>2. Unsent' = Unsent
  BY DEF Unsent
<1>3. Rows'
  BY DEF Ordered, Rows, Rising, Falling, Stay
<1>4. Line'
  BY <1>1, <1>2 DEF Ordered, Line, Before
<1> QED
  BY <1>3, <1>4

\* The reader: a message is sent after all that its consumer was sent before.
LEMMA ReaderOrdered ==
    ASSUME PlaceInv, Tracked, Ordered, OnCommand \/ OnConsumerMessage
    PROVE  Ordered'
<1> SUFFICES ASSUME mishaps = {} PROVE Rows' /\ Line'
  BY DEF Ordered, OnCommand, OnConsumerMessage
<1>0. Rows /\ Line
  BY DEF Ordered
<1>1. CASE OnCommand
  <2>1. /\ Reading = {}
        /\ UNCHANGED <<Dispatching, Batch, Queued, Turned, Taken, Waiting, raced, given>>
    BY <1>1, OnCommandMoves DEF OnCommand, Tracked
  <2>2. PICK m \in Messages \ sent :
          /\ \A n \in Messages \ sent : ConsumerOf[n] = ConsumerOf[m] => m <= n
          /\ sent' = sent \cup {m}
          /\ reader' = <<m>> \/ reader' = reader
    BY <1>1 DEF OnCommand
  <2>3. Reading' = {m} \/ Reading' = {}
    BY <2>1, <2>2, OnePlace DEF Reading
  <2>4. Unsent' = Unsent \ {m} /\ m \in Unsent
    BY <2>2 DEF Unsent
  <2>5. Before(Reading', Unsent', raced)
    BY <2>2, <2>3, <2>4 DEF Before, Unsent, Messages
  <2>6. Line'
    BY <1>0, <2>1, <2>3, <2>4, <2>5 DEF Line, Before
  <2>7. Rows'
    BY <1>0, <1>1 DEF Rows, Rising, Falling, OnCommand, executorVars, consumerVars
  <2> QED
    BY <2>6, <2>7
<1>2. CASE OnConsumerMessage
  <2>1. /\ Reading' = {} /\ Queued' \subseteq Queued \cup Reading
        /\ UNCHANGED <<Dispatching, Batch, Turned, Taken, Waiting, raced, sent, given>>
    BY <1>2, OnConsumerMessageMoves DEF OnConsumerMessage
  <2>2. Unsent' = Unsent
    BY <2>1 DEF Unsent
  <2>3. Line'
    BY <1>0, <2>1, <2>2 DEF Line, Before
  <2>4. /\ reader[1] \in Messages /\ Reading = {reader[1]} /\ messageQueue \in Seq(Messages)
    BY <1>2, PlacesTyped DEF OnConsumerMessage, PlaceInv
  <2>5. Rising(messageQueue \o <<reader[1]>>, raced)
    <3>1. <<reader[1]>> \in Seq(Messages) /\ Rising(<<reader[1]>>, raced)
      BY <2>4, ShortRises
    <3>2. Before(ToSet(messageQueue), ToSet(<<reader[1]>>), raced)
      BY <1>0, <2>4, OnePlace DEF Line, Before, Queued
    <3> QED
      BY <1>0, <2>4, <3>1, <3>2, JoinedRises DEF Rows
  <2>6. messageQueue' = messageQueue \/ messageQueue' = messageQueue \o <<reader[1]>>
    BY <1>2, <2>4 DEF OnConsumerMessage, Executor!Execute, executorVars
  <2>7. Rising(messageQueue', raced')
    BY <1>0, <2>1, <2>5, <2>6 DEF Rows
  <2>8. UNCHANGED <<dataList, reversedList, unconsumed, raced>>
    BY <1>2 DEF OnConsumerMessage, Executor!Execute, executorVars, consumerVars
  <2>9. Rows'
    BY <1>0, <2>7, <2>8 DEF Rows, Rising, Falling
  <2> QED
    BY <2>3, <2>9
<1> QED
  BY <1>1, <1>2

\* The executor: the queue is behind the batch, and the batch in its order.
LEMMA BatchOrdered ==
    ASSUME PlaceInv, Tracked, Ordered, ExecutorStep \/ Dispatch
    PROVE  Ordered'
<1> SUFFICES ASSUME mishaps = {} PROVE Rows' /\ Line'
  BY DEF Ordered, ExecutorStep, Dispatch, historyVars
<1>0. Rows /\ Line
  BY DEF Ordered
<1>1. CASE ExecutorStep
  <2>1. /\ \/ Batch = {} /\ Batch' = Queued /\ Queued' = {}
           \/ UNCHANGED <<Batch, Queued>>
        /\ UNCHANGED <<Reading, Dispatching, Turned, Taken, Waiting, raced, sent, given>>
    BY <1>1, ExecutorStepMoves DEF ExecutorStep, historyVars
  <2>2. Unsent' = Unsent
    BY <2>1 DEF Unsent
  <2>3. Line'
    BY <1>0, <2>1, <2>2 DEF Line, Before
  <2>4. /\ \/ dataList' = messageQueue /\ messageQueue' = <<>>
           \/ UNCHANGED <<dataList, messageQueue>>
        /\ UNCHANGED <<reversedList, unconsumed, raced>>
    BY <1>1 DEF ExecutorStep, Executor!TakeBatch, Executor!EndBatch,
       Executor!Decide,
       consumerVars, historyVars
  <2>5. Rising(dataList', raced) /\ Rising(messageQueue', raced)
    BY <1>0, <2>4, ShortRises DEF Rows
  <2>6. Rows'
    BY <1>0, <2>4, <2>5 DEF Rows
  <2> QED
    BY <2>3, <2>6
<1>2. CASE Dispatch
  <2>1. /\ Dispatching = {} /\ Batch = Dispatching' \cup Batch'
        /\ UNCHANGED <<Reading, Queued, Turned, Taken, Waiting, raced, sent, given>>
    BY <1>2, DispatchMoves DEF Dispatch, historyVars
  <2>2. Unsent' = Unsent
    BY <2>1 DEF Unsent
  <2>3. dataList \in Seq(Messages) /\ dataList # <<>> /\ dataList' = Tail(dataList)
        /\ current' = <<Head(dataList)>>
    BY <1>2, PlacesTyped DEF Dispatch, Executor!Dispatch, PlaceInv
  <2>4. /\ Rising(dataList', raced) /\ Before(Dispatching', Batch', raced)
    BY <1>0, <2>3, RestRises, OnePlace DEF Rows, Dispatching, Batch
  <2>5. Line'
    BY <1>0, <2>1, <2>2, <2>4 DEF Line, Before
  <2>6. UNCHANGED <<messageQueue, reversedList, unconsumed, raced>>
    BY <1>2 DEF Dispatch, Executor!Dispatch, consumerVars, historyVars
  <2>7. Rows'
    BY <1>0, <2>4, <2>6 DEF Rows
  <2> QED
    BY <2>5, <2>7
<1> QED
  BY <1>1, <1>2

\* While a listener is given a message, its consumer has no other to give:
\* none that it missed, and none that is being received.
LEMMA ListenedAlone ==
    ASSUME TrackInv, Stranding, Settled, mishaps = {},
           position \in {"found", "listening"}, Target \in listening,
           Target \notin raced
    PROVE  \A m \in Taken \cup Waiting \cup Turned : ConsumerOf[m] # Target
<1>1. thread = "dispatching" /\ Target \in Consumers
  BY WhereDispatching DEF TrackInv, PlaceInv
<1>2. ~(call.op = "listen" /\ call.on = Target)
  BY <1>1 DEF Settled, Unraced
<1>3. unconsumed[Target] = <<>>
  BY <1>2 DEF Stranding
<1>4. ToSet(unconsumed[Target]) = {} /\
      ToSet(unconsumed[Target]) = {m \in Waiting : ConsumerOf[m] = Target}
  BY <1>1, <1>3, EmptyPlace, WaitingIs DEF TrackInv, PlaceInv
<1>5. \A m \in Turned : ConsumerOf[m] # Target
  <2>1. Turned # {} => call.op = "listen"
    BY PlacesTyped DEF TrackInv, PlaceInv, TypeInv, Calling
  <2> QED
    BY <1>2, <2>1 DEF TrackInv, Tracked
<1>6. \A m \in Taken : ConsumerOf[m] # Target
  <2>1. Taken # {} => receiver.at # "idle"
    BY PlacesTyped DEF TrackInv, PlaceInv, TypeInv, ThreadTypes
  <2> QED
    BY <2>1 DEF TrackInv, Tracked, Settled, ReceiverAlone
<1> QED
  BY <1>4, <1>5, <1>6

\* The Dispatcher: a listener whose messages are given has missed none.
LEMMA DispatchOrdered ==
    ASSUME TrackInv, Stranding, Settled, Ordered,
           \/ LookUp \/ DispatchExpired \/ OnMessage \/ PushUnconsumed
           \/ OnMessageReturns
    PROVE  Ordered'
<1> SUFFICES ASSUME mishaps = {} PROVE Rows' /\ Line'
  BY DEF Ordered, LookUp, DispatchExpired, OnMessage, PushUnconsumed,
     OnMessageReturns,
     historyVars
<1>0. Rows /\ Line /\ PlaceInv
  BY DEF Ordered, TrackInv
<1>a. given \cap Dispatching = IF position = "listening" THEN Dispatching ELSE {}
  <2>1. Dispatching \subseteq Everywhere
    BY DEF Everywhere
  <2> QED
    BY <2>1 DEF TrackInv, Tracked
<1>1. CASE OnMessage \/ (LookUp /\ position' = "found")
  <2>1. /\ Stay /\ UNCHANGED <<sent, raced, mishaps>>
        /\ given' = given \/ given' = given \cup Dispatching
    BY <1>1 DEF OnMessage, LookUp, Stay, executorVars, consumerVars, Dispatching
  <2> QED
    BY <1>0, <2>1, StayOrdered DEF Ordered
<1>2. CASE \/ LookUp /\ position' # "found"
           \/ DispatchExpired \/ OnMessageReturns
  <2>1. /\ Executor!DispatchReturns
        /\ UNCHANGED <<reader, reversedList, unconsumed, receiver, sent, given, raced>>
    BY <1>2 DEF LookUp, DispatchExpired, OnMessageReturns, consumerVars
  <2>2. /\ Dispatching' = {}
        /\ UNCHANGED <<Reading, Batch, Queued, Turned, Taken, Waiting>>
    BY <1>0, <2>1, ReturnMoves
  <2>3. Rows'
    BY <1>0, <2>1 DEF Rows, Rising, Falling, Executor!DispatchReturns
  <2>4. Unsent' = Unsent
    BY <2>1 DEF Unsent
  <2>5. Before(given', Taken \cup Waiting \cup Turned \cup Batch \cup Queued \cup Reading
                         \cup Unsent, raced)
    <3>1. CASE position # "listening"
      BY <1>0, <1>a, <2>1, <3>1 DEF Line, Before
    <3>2. CASE position = "listening"
      <4>1. \A m \in Dispatching : ConsumerOf[m] = Target
        BY <1>0, <3>2, PlacesTyped DEF PlaceInv, TypeInv, ThreadTypes, Target
      <4>2. Before(Dispatching, Taken \cup Waiting \cup Turned, raced)
        BY <3>2, <4>1, ListenedAlone DEF Before, Settled, Listened
      <4> QED
        BY <1>0, <2>1, <4>2 DEF Line, Before
    <3> QED
      BY <3>1, <3>2
  <2>6. Line'
    BY <1>0, <2>1, <2>2, <2>4, <2>5 DEF Line, Before
  <2> QED
    BY <2>3, <2>6
<1>3. CASE PushUnconsumed
  <2>1. /\ Dispatching' = {} /\ Waiting' = Waiting \cup Dispatching
        /\ UNCHANGED <<Reading, Batch, Queued, Turned, Taken, sent, given, raced>>
    BY <1>0, <1>3, PushUnconsumedMoves DEF PushUnconsumed, historyVars
  <2>2. Unsent' = Unsent
    BY <2>1 DEF Unsent
  <2>3. given \cap Dispatching = {}
    BY <1>3, <1>a DEF PushUnconsumed, IsAt
  <2>4. Line'
    BY <1>0, <2>1, <2>2, <2>3 DEF Line, Before
  <2>5. Target \in Consumers
    BY <1>0, <1>3, WhereDispatching DEF PushUnconsumed, IsAt, PlaceInv
  <2>6. unconsumed[Target] \in Seq(Messages) /\ current \in Seq(Messages)
    BY <1>0, <2>5, PlacesTyped DEF PlaceInv
  <2>7. Rising(current, raced)
    <3>1. PICK m \in Messages : current = <<m>>
      BY <1>0, <1>3 DEF PushUnconsumed, IsAt, PlaceInv, TypeInv, ThreadTypes,
         ExecutorTypes,
         Executor!TypeOK, Executor!QueueTypeOK
    <3> QED
      BY <3>1, ShortRises
  <2>8. Before(ToSet(unconsumed[Target]), ToSet(current), raced)
    <3>1. ToSet(unconsumed[Target]) \subseteq Waiting
      BY <1>0, <2>5, WaitingIs DEF PlaceInv
    <3> QED
      BY <1>0, <3>1 DEF Line, Before, Dispatching
  <2>9. Rising(unconsumed[Target] \o current, raced)
    BY <1>0, <2>5, <2>6, <2>7, <2>8, JoinedRises DEF Rows
  <2>10. \A c \in Consumers :
           unconsumed'[c] = IF c = Target THEN unconsumed[Target] \o current
                            ELSE unconsumed[c]
    BY <1>0, <1>3, <2>5 DEF PushUnconsumed, PlaceInv, TypeInv, ConsumerTypes
  <2>11. Rows'
    BY <1>0, <1>3, <2>1, <2>9, <2>10 DEF Rows, PushUnconsumed,
       Executor!DispatchReturns
  <2> QED
    BY <2>4, <2>11
<1> QED
  BY <1>1, <1>2, <1>3

\* A receive: it takes the oldest message.
LEMMA ReceiveOrdered ==
    ASSUME TrackInv, Settled, Ordered, DequeueTakes \/ DequeueExpired \/ ReceiveReturns
    PROVE  Ordered'
<1> SUFFICES ASSUME mishaps = {} PROVE Rows' /\ Line'
  BY DEF Ordered, DequeueTakes, DequeueExpired, ReceiveReturns, historyVars
<1>0. Rows /\ Line /\ PlaceInv
  BY DEF Ordered, TrackInv
<1>1. CASE ReceiveReturns
  <2>1. /\ Taken' = {}
        /\ UNCHANGED <<Reading, Dispatching, Batch, Queued, Turned, Waiting, sent, raced>>
        /\ given' = given \/ given' = given \cup Taken
    BY <1>0, <1>1, ReceiveReturnsMoves DEF ReceiveReturns, Taken
  <2>2. Unsent' = Unsent
    BY <2>1 DEF Unsent
  <2>3. Line'
    BY <1>0, <2>1, <2>2 DEF Line, Before
  <2>4. Rows'
    BY <1>0, <1>1 DEF Rows, Rising, Falling, ReceiveReturns, executorVars,
       consumerVars
  <2> QED
    BY <2>3, <2>4
<1>2. CASE DequeueTakes \/ DequeueExpired
  <2> DEFINE q == unconsumed[receiver.on]
  <2>1. receiver.at = "testing" /\ q # <<>>
    BY <1>2 DEF DequeueTakes, DequeueExpired
  <2>2. receiver.on \in Consumers /\ q \in Seq(Messages)
    BY <1>0, PlacesTyped DEF PlaceInv, TypeInv, ThreadTypes
  <2>3. Rising(Tail(q), raced) /\ Before({Head(q)}, ToSet(Tail(q)), raced)
    <3>1. Rising(q, raced)
      BY <1>0, <2>2 DEF Rows
    <3> HIDE DEF q
    <3> QED
      BY <2>1, <2>2, <3>1, RestRises
  <2>4. /\ \A c \in Consumers :
             unconsumed'[c] = IF c = receiver.on THEN Tail(q) ELSE unconsumed[c]
        /\ UNCHANGED <<dataList, messageQueue, reversedList, raced>>
    BY <1>0, <1>2, <2>2 DEF DequeueTakes, DequeueExpired, executorVars, historyVars,
       PlaceInv, TypeInv, ConsumerTypes
  <2>5. Rows'
    BY <1>0, <2>3, <2>4 DEF Rows
  <2>6. /\ UNCHANGED <<Reading, Dispatching, Batch, Queued, Turned, sent, raced, given>>
        /\ Taken = {} /\ Taken' \cup Waiting' \subseteq Waiting
    BY <1>0, <1>2, DequeueTakesMoves, DequeueExpiredMoves
    DEF DequeueTakes, DequeueExpired, historyVars
  <2>7. Unsent' = Unsent
    BY <2>6 DEF Unsent
  <2>8. Before(Taken', Waiting' \cup Turned, raced)
    <3>1. CASE DequeueExpired
      BY <1>0, <2>6, <3>1, DequeueExpiredMoves DEF Before
    <3>2. CASE DequeueTakes
      <4>1. Taken' = {Head(q)}
        <5>1. receiver'.message = <<Head(q)>>
          BY <1>0, <3>2 DEF DequeueTakes, PlaceInv, TypeInv, ThreadTypes
        <5> QED
          BY <5>1, OnePlace DEF Taken
      <4>2. \A m \in Waiting' : ConsumerOf[m] = receiver.on => m \in ToSet(Tail(q))
        BY <2>2, <2>4 DEF Waiting
      <4>3. ConsumerOf[Head(q)] = receiver.on
        BY <1>0, <2>1, FirstUnconsumed
      <4>4. \A m \in Turned : ConsumerOf[m] # receiver.on
        <5>1. Turned # {} => call.op = "listen" /\ call.on \in listening
          BY <1>0, PlacesTyped DEF PlaceInv, TypeInv, Calling
        <5> QED
          BY <2>1, <5>1 DEF TrackInv, Tracked, Settled, ReceiverAlone
      <4> HIDE DEF q
      <4> QED
        BY <2>3, <4>1, <4>2, <4>3, <4>4 DEF Before
    <3> QED
      BY <1>2, <3>1, <3>2
  <2>9. Line'
    BY <1>0, <2>6, <2>7, <2>8 DEF Line, Before
  <2> QED
    BY <2>5, <2>9
<1> QED
  BY <1>1, <1>2

\* A call: the messages that are put back, last first, are older than the queue.
LEMMA CallOrdered ==
    ASSUME TrackInv, Stranding, Settled, Ordered,
           \/ ReverseUnconsumed \/ Redispatch \/ PurgeConsumerMessages
           \/ PurgeMessages
    PROVE  Ordered'
<1> SUFFICES ASSUME mishaps = {} PROVE Rows' /\ Line'
  BY DEF Ordered, ReverseUnconsumed, Redispatch, PurgeConsumerMessages,
     PurgeMessages,
     historyVars
<1>0. Rows /\ Line /\ PlaceInv /\ call.on \in Consumers
  BY DEF Ordered, TrackInv, PlaceInv, TypeInv, CallTypes
<1>1. CASE ReverseUnconsumed
  <2>1. /\ Turned = {} /\ Turned' \subseteq Waiting /\ Waiting' = Waiting \ Turned'
        /\ UNCHANGED <<Reading, Dispatching, Batch, Queued, Taken, sent, raced, given>>
    BY <1>0, <1>1, ReverseUnconsumedMoves DEF ReverseUnconsumed, historyVars
  <2>2. Unsent' = Unsent
    BY <2>1 DEF Unsent
  <2>3. Line'
    BY <1>0, <2>1, <2>2 DEF Line, Before
  <2>4. Falling(Reverse(unconsumed[call.on]), raced)
    <3>1. unconsumed[call.on] \in Seq(Messages)
      BY <1>0, PlacesTyped DEF PlaceInv
    <3> QED
      BY <1>0, <3>1, ReversedFalls DEF Rows
  <2>5. \A c \in Consumers :
          unconsumed'[c] = IF c = call.on THEN <<>> ELSE unconsumed[c]
    BY <1>0, <1>1 DEF ReverseUnconsumed, PlaceInv, TypeInv, ConsumerTypes
  <2>6. Rows'
    BY <1>0, <1>1, <2>4, <2>5, ShortRises DEF Rows, ReverseUnconsumed, executorVars,
       historyVars
  <2> QED
    BY <2>3, <2>6
<1>2. CASE Redispatch
  <2> DEFINE h == Head(reversedList)
  <2>1. /\ reversedList \in Seq(Messages) /\ reversedList # <<>>
        /\ messageQueue \in Seq(Messages)
        /\ reversedList' = Tail(reversedList) /\ messageQueue' = <<h>> \o messageQueue
        /\ UNCHANGED <<dataList, unconsumed, sent, raced, given>>
    BY <1>0, <1>2, PlacesTyped DEF Redispatch, Executor!ExecuteFirst, consumerVars,
       historyVars, PlaceInv
  <2>2. /\ h \in Messages /\ Turned = {h} \cup Turned' /\ h \notin Turned'
        /\ Falling(reversedList', raced) /\ Before(Turned', {h}, raced)
    BY <1>0, <2>1, FirstAndRest, RestRises DEF Turned, Rows, PlaceInv, Singly
  <2>3. /\ Queued' = Queued \cup {h}
        /\ UNCHANGED <<Reading, Dispatching, Batch, Taken, Waiting>>
    <3> HIDE DEF h
    <3> QED
      BY <1>0, <1>2, <2>2, RedispatchMoves
  <2>4. /\ call.op = "listen" /\ call.at = "redispatching" /\ ConsumerOf[h] = call.on
    BY <1>2, <2>2 DEF Redispatch, At, TrackInv, Tracked, PlaceInv, TypeInv, Calling
  <2> HIDE DEF h
  <2>5. \A m \in Waiting : ConsumerOf[m] # call.on
    <3>1. unconsumed[call.on] = <<>>
      BY <2>4 DEF Stranding
    <3> QED
      BY <1>0, <3>1, EmptyPlace, WaitingIs DEF PlaceInv
  <2>6. call.on \notin raced => Dispatching = {} /\ Batch = {}
    <3>1. call.on \notin raced => thread # "dispatching"
      BY <2>4 DEF Settled, Unraced
    <3> QED
      BY <1>0, <3>1, PlacesTyped DEF PlaceInv
  <2>7. Unsent' = Unsent
    BY <2>1 DEF Unsent
  <2>8. Before(Waiting \cup Turned' \cup Dispatching \cup Batch, {h}, raced)
    BY <2>2, <2>4, <2>5, <2>6 DEF Before
  <2>9. Line'
    BY <1>0, <2>1, <2>2, <2>3, <2>7, <2>8 DEF Line, Before
  <2>10. Rising(messageQueue', raced)
    <3>1. <<h>> \in Seq(Messages) /\ Rising(<<h>>, raced) /\ ToSet(<<h>>) = {h}
      BY <2>2, ShortRises, OnePlace
    <3>2. Before(ToSet(<<h>>), ToSet(messageQueue), raced)
      BY <1>0, <2>2, <3>1 DEF Line, Before, Queued
    <3> QED
      BY <1>0, <2>1, <3>1, <3>2, JoinedRises DEF Rows
  <2>11. Rows'
    BY <1>0, <2>1, <2>2, <2>10 DEF Rows
  <2> QED
    BY <2>9, <2>11
<1>3. CASE PurgeConsumerMessages
  <2>1. /\ Queued' \subseteq Queued
        /\ UNCHANGED <<Reading, Dispatching, Batch, Turned, Taken, Waiting, sent, raced,
                       given>>
    BY <1>0, <1>3, PurgeConsumerMessagesMoves DEF PurgeConsumerMessages
  <2>2. Unsent' = Unsent
    BY <2>1 DEF Unsent
  <2>3. Line'
    BY <1>0, <2>1, <2>2 DEF Line, Before
  <2> DEFINE I == {i \in DOMAIN messageQueue : ConsumerOf[messageQueue[i]] # call.on}
  <2>4. messageQueue \in Seq(Messages) /\ messageQueue' \in Executor!Selected(messageQueue, I)
    BY <1>0, <1>3, PlacesTyped DEF PurgeConsumerMessages, Executor!Purge, PlaceInv
  <2>5. I \in SUBSET DOMAIN messageQueue
    OBVIOUS
  <2> HIDE DEF I
  <2>6. Rising(messageQueue', raced)
    BY <1>0, <2>4, <2>5, SelectedRises DEF Rows
  <2>7. Rows'
    BY <1>0, <1>3, <2>6 DEF Rows, PurgeConsumerMessages, Executor!Purge,
       consumerVars
  <2> QED
    BY <2>3, <2>7
<1>4. CASE PurgeMessages
  <2>1. /\ Waiting' \subseteq Waiting
        /\ UNCHANGED <<Reading, Dispatching, Batch, Queued, Turned, Taken, sent, raced,
                       given>>
    BY <1>0, <1>4, PurgeMessagesMoves DEF PurgeMessages
  <2>2. Unsent' = Unsent
    BY <2>1 DEF Unsent
  <2>3. Line'
    BY <1>0, <2>1, <2>2 DEF Line, Before
  <2>4. \A c \in Consumers :
          unconsumed'[c] = IF c = call.on THEN <<>> ELSE unconsumed[c]
    BY <1>0, <1>4 DEF PurgeMessages, PlaceInv, TypeInv, ConsumerTypes
  <2>5. Rows'
    BY <1>0, <1>4, <2>4, ShortRises DEF Rows, PurgeMessages, executorVars
  <2> QED
    BY <2>3, <2>5
<1> QED
  BY <1>1, <1>2, <1>3, <1>4

\* A message is acknowledged when it has been consumed.
LEMMA AcksHold ==
    ASSUME TrackInv, AutoAcknowledged, Narrows, acked \subseteq acked',
           \/ given' = given /\ current' = current
           \/ given' = given /\ Dispatching = {}
           \/ given' = given /\ position \in {"entered", "found", "pushing"}
           \/ given' = given \cup Dispatching /\ current' = current
           \/ given' = given \cup Taken /\ acked' = acked \cup Taken /\ current' = current
           \/ OnMessageReturns
    PROVE  AutoAcknowledged'
<1> USE DEF AutoAcknowledged, Narrows, Dispatching
<1>1. CASE \/ given' = given /\ current' = current
           \/ given' = given /\ Dispatching = {}
           \/ given' = given \cup Dispatching /\ current' = current
           \/ given' = given \cup Taken /\ acked' = acked \cup Taken /\ current' = current
  BY <1>1
<1>2. CASE given' = given /\ position \in {"entered", "found", "pushing"}
  <2>1. given \cap Dispatching = {}
    <3>1. given \cap Everywhere = {} /\ Dispatching \subseteq Everywhere
      BY <1>2 DEF TrackInv, Tracked, Everywhere
    <3> QED
      BY <3>1
  <2> QED
    BY <1>2, <2>1
<1>3. CASE OnMessageReturns
  <2>1. given' = given /\ acked' = IF AckWorks(Target) THEN acked \cup Dispatching ELSE acked
    BY <1>3 DEF OnMessageReturns
  <2>2. \A m \in Dispatching : ConsumerOf[m] = Target
    BY <1>3, PlacesTyped DEF TrackInv, PlaceInv, TypeInv, ThreadTypes,
       OnMessageReturns,
       IsAt, Target
  <2>3. ~AckWorks(Target) => Target \in closedConsumers' \/ state' # "connected"
    BY DEF AckWorks
  <2> QED
    BY <2>1, <2>2, <2>3
<1> QED
  BY <1>1, <1>2, <1>3

-----------------------------------------------------------------------------
(* The whole invariant *)

ConsumerInv ==
    /\ TrackInv /\ Losing /\ Stranding /\ Settled /\ Ordered
    /\ Stopped /\ Silent /\ Safe /\ AutoAcknowledged

\* The invariant holds initially...
LEMMA InitHolds == Init => ConsumerInv
<1> SUFFICES ASSUME Init PROVE ConsumerInv
  OBVIOUS
<1> USE DEF Init, Executor!Init
<1>1. TypeInv
  <2>1. <<>> \in Seq(Messages)
    OBVIOUS
  <2>2. ExecutorTypes
    BY <2>1 DEF ExecutorTypes, Executor!TypeOK, Executor!FlagsTypeOK,
       Executor!ThreadsTypeOK, Executor!QueueTypeOK
  <2>3. ConnectionTypes /\ ConsumerTypes /\ HistoryTypes
    BY <2>1 DEF ConnectionTypes, ConsumerTypes, HistoryTypes
  <2>4. ThreadTypes
    BY <2>1, AnyConsumerIs DEF ThreadTypes, AtMostOne, NoReceive
  <2>5. CallTypes /\ Calling
    BY AnyConsumerIs DEF CallTypes, CallPositions, Calling, NoCall
  <2> QED
    BY <2>2, <2>3, <2>4, <2>5 DEF TypeInv
<1>2. /\ Reading = {} /\ Dispatching = {} /\ Batch = {} /\ Queued = {} /\ Turned = {}
      /\ Taken = {} /\ Waiting = {}
  BY EmptyPlace, ConsumerOfIs DEF Reading, Dispatching, Batch, Queued, Turned,
     Taken,
     Waiting, NoReceive
<1>3. Singly /\ Apart
  BY <1>2, EmptyPlace DEF Singly, Apart
<1>4. Tracked
  BY <1>2 DEF Tracked, Everywhere
<1>5. Losing /\ Stranding /\ Stopped
  BY DEF Losing, Missing, Dropped, Stranding, Stopped, NoCall
<1>6. Silent /\ Safe
  BY <1>2 DEF Silent, Disconnected, Removed, Purged, Emptied, Safe, Harmless,
     Cleared,
     Unused, Gone, NoCall
<1>7. AutoAcknowledged
  BY DEF AutoAcknowledged
<1>8. Settled
  BY DEF Settled, ReceiverAlone, Listened, Unraced, NoReceive, NoCall
<1>9. Ordered
  <2>1. Rows
    BY ShortRises DEF Rows
  <2>2. Line
    BY <1>2 DEF Line, Before
  <2> QED
    BY <2>1, <2>2 DEF Ordered
<1> QED
  BY <1>1, <1>3, <1>4, <1>5, <1>6, <1>7, <1>8, <1>9 DEF ConsumerInv, TrackInv,
     PlaceInv

\* ... every step keeps it...
LEMMA StepHolds == ConsumerInv /\ Next => ConsumerInv'
<1> SUFFICES ASSUME ConsumerInv, Next PROVE ConsumerInv'
  OBVIOUS
<1> USE DEF ConsumerInv, TrackInv
<1>a. TypeInv /\ PlaceInv
  BY DEF PlaceInv
<1>b. ASSUME TypeInv', Singly', Apart', Tracked', Losing', Stranding', Settled', Ordered',
             Stopped', Narrows, Passes, Closes, AutoAcknowledged'
      PROVE  ConsumerInv'
  BY <1>b, SilentHolds, SafeHolds DEF PlaceInv
<1>1. CASE \/ OnCommand \/ OnConsumerMessage \/ ReaderUsesDeleted
           \/ OnTransportException \/ ConnectionBreaks
  <2>1. /\ TypeInv' /\ Losing' /\ Stranding' /\ Settled' /\ Stopped'
        /\ Narrows /\ Closes
    BY <1>a, <1>1, ReaderTyped, ReaderLosing, ReaderStranding, ReaderSettled,
       ReaderStopped, ReaderNarrows, ReaderCloses
  <2>2. CASE \/ ReaderUsesDeleted \/ OnTransportException \/ ConnectionBreaks
    <3>1. Kept
      BY <1>a, <2>2, ConnectionKeeps
    <3>2. Singly' /\ Apart' /\ Tracked' /\ Passes
      BY <1>a, <3>1, KeptTracked, StayPasses DEF Kept
    <3>3. Ordered'
      BY <1>a, <2>1, <3>1, StayOrdered DEF Kept, Narrows
    <3>4. AutoAcknowledged'
      BY <2>1, <3>1, AcksHold DEF Kept, Stay
    <3> QED
      BY <1>b, <2>1, <3>2, <3>3, <3>4
  <2>3. CASE OnCommand
    <3>1. Singly' /\ Apart' /\ Tracked' /\ Passes
      BY <1>a, <2>3, ReaderTracked, ReaderPasses
    <3>2. Ordered'
      BY <1>a, <2>3, ReaderOrdered
    <3>3. AutoAcknowledged'
      BY <1>a, <2>1, <2>3, AcksHold DEF OnCommand, executorVars
    <3> QED
      BY <1>b, <2>1, <3>1, <3>2, <3>3
  <2>4. CASE OnConsumerMessage
    <3>1. Singly' /\ Apart' /\ Tracked' /\ Passes
      BY <1>a, <2>4, ReaderTracked, ReaderPasses
    <3>2. Ordered'
      BY <1>a, <2>4, ReaderOrdered
    <3>3. AutoAcknowledged'
      BY <1>a, <2>1, <2>4, AcksHold DEF OnConsumerMessage, executorVars,
         Executor!Execute
    <3> QED
      BY <1>b, <2>1, <3>1, <3>2, <3>3
  <2> QED
    BY <1>1, <2>2, <2>3, <2>4
<1>2. CASE \/ ConnectionStart \/ ConnectionStop \/ ListenerStops
  <2>1. /\ TypeInv' /\ Losing' /\ Stranding' /\ Settled' /\ Stopped'
        /\ Narrows /\ Closes
    BY <1>a, <1>2, ConnectionTyped, ConnectionLosing, ConnectionStranding,
       ConnectionSettled,
       ConnectionStopped, ConnectionNarrows, ConnectionCloses
  <2>2. Kept
    BY <1>a, <1>2, ConnectionKeeps
  <2>3. Singly' /\ Apart' /\ Tracked' /\ Passes
    BY <1>a, <2>2, KeptTracked, StayPasses DEF Kept
  <2>4. Ordered'
    BY <1>a, <2>1, <2>2, StayOrdered DEF Kept, Narrows
  <2>5. AutoAcknowledged'
    BY <2>1, <2>2, AcksHold DEF Kept, Stay
  <2> QED
    BY <1>b, <2>1, <2>3, <2>4, <2>5
<1>3. CASE \/ ExecutorStep \/ Dispatch \/ SpuriousWakeup
  <2>1. /\ TypeInv' /\ Losing' /\ Stranding' /\ Settled' /\ Stopped'
        /\ Narrows /\ Closes
    BY <1>a, <1>3, BatchTyped, BatchLosing, BatchStranding, BatchSettled,
       BatchStopped, BatchNarrows, BatchCloses
  <2>2. CASE SpuriousWakeup
    <3>1. Kept
      BY <1>a, <2>2, DispatcherKeeps
    <3>2. Singly' /\ Apart' /\ Tracked' /\ Passes
      BY <1>a, <3>1, KeptTracked, StayPasses DEF Kept
    <3>3. Ordered'
      BY <1>a, <2>1, <3>1, StayOrdered DEF Kept, Narrows
    <3>4. AutoAcknowledged'
      BY <2>1, <3>1, AcksHold DEF Kept, Stay
    <3> QED
      BY <1>b, <2>1, <3>2, <3>3, <3>4
  <2>3. CASE ExecutorStep
    <3>1. Singly' /\ Apart' /\ Tracked' /\ Passes
      BY <1>a, <2>3, BatchTracked, BatchPasses
    <3>2. Ordered'
      BY <1>a, <2>3, BatchOrdered
    <3>3. AutoAcknowledged'
      BY <1>a, <2>1, <2>3, AcksHold DEF ExecutorStep, Executor!TakeBatch,
         Executor!EndBatch, Executor!Decide, historyVars
    <3> QED
      BY <1>b, <2>1, <3>1, <3>2, <3>3
  <2>4. CASE Dispatch
    <3>1. Singly' /\ Apart' /\ Tracked' /\ Passes
      BY <1>a, <2>4, BatchTracked, BatchPasses
    <3>2. Ordered'
      BY <1>a, <2>4, BatchOrdered
    <3>3. AutoAcknowledged'
      BY <1>a, <2>1, <2>4, DispatchMoves, AcksHold DEF Dispatch, historyVars
    <3> QED
      BY <1>b, <2>1, <3>1, <3>2, <3>3
  <2> QED
    BY <1>3, <2>2, <2>3, <2>4
<1>4. CASE \/ LookUp \/ DispatchExpired \/ OnMessage \/ NoListener
           \/ PushUnconsumed \/ OnMessageReturns \/ UsesDeleted
  <2>1. /\ TypeInv' /\ Losing' /\ Stranding' /\ Settled' /\ Stopped'
        /\ Narrows /\ Closes
    BY <1>a, <1>4, DispatchTyped, DispatchLosing, DispatchStranding,
       DispatchSettled,
       DispatchStopped, DispatchNarrows, DispatchCloses
  <2>2. CASE \/ NoListener \/ UsesDeleted
    <3>1. Kept
      BY <1>a, <2>2, DispatcherKeeps
    <3>2. Singly' /\ Apart' /\ Tracked' /\ Passes
      BY <1>a, <3>1, KeptTracked, StayPasses DEF Kept
    <3>3. Ordered'
      BY <1>a, <2>1, <3>1, StayOrdered DEF Kept, Narrows
    <3>4. AutoAcknowledged'
      BY <2>1, <3>1, AcksHold DEF Kept, Stay
    <3> QED
      BY <1>b, <2>1, <3>2, <3>3, <3>4
  <2>3. CASE LookUp
    <3>1. Singly' /\ Apart' /\ Tracked' /\ Passes
      BY <1>a, <2>3, DispatchTracked, DispatchPasses
    <3>2. Ordered'
      BY <1>a, <2>3, DispatchOrdered
    <3>3. AutoAcknowledged'
      BY <1>a, <2>1, <2>3, AcksHold DEF LookUp, IsAt
    <3> QED
      BY <1>b, <2>1, <3>1, <3>2, <3>3
  <2>4. CASE DispatchExpired
    <3>1. Singly' /\ Apart' /\ Tracked' /\ Passes
      BY <1>a, <2>4, DispatchTracked, DispatchPasses
    <3>2. Ordered'
      BY <1>a, <2>4, DispatchOrdered
    <3>3. AutoAcknowledged'
      BY <1>a, <2>1, <2>4, AcksHold DEF DispatchExpired, IsAt, Expires
    <3> QED
      BY <1>b, <2>1, <3>1, <3>2, <3>3
  <2>5. CASE OnMessage
    <3>1. Singly' /\ Apart' /\ Tracked' /\ Passes
      BY <1>a, <2>5, DispatchTracked, DispatchPasses
    <3>2. Ordered'
      BY <1>a, <2>5, DispatchOrdered
    <3>3. AutoAcknowledged'
      BY <1>a, <2>1, <2>5, AcksHold DEF OnMessage, executorVars, Dispatching
    <3> QED
      BY <1>b, <2>1, <3>1, <3>2, <3>3
  <2>6. CASE PushUnconsumed
    <3>1. Singly' /\ Apart' /\ Tracked' /\ Passes
      BY <1>a, <2>6, DispatchTracked, DispatchPasses
    <3>2. Ordered'
      BY <1>a, <2>6, DispatchOrdered
    <3>3. AutoAcknowledged'
      BY <1>a, <2>1, <2>6, AcksHold DEF PushUnconsumed, IsAt, historyVars
    <3> QED
      BY <1>b, <2>1, <3>1, <3>2, <3>3
  <2>7. CASE OnMessageReturns
    <3>1. Singly' /\ Apart' /\ Tracked' /\ Passes
      BY <1>a, <2>7, DispatchTracked, DispatchPasses
    <3>2. Ordered'
      BY <1>a, <2>7, DispatchOrdered
    <3>3. AutoAcknowledged'
      BY <1>a, <2>1, <2>7, AcksHold DEF OnMessageReturns
    <3> QED
      BY <1>b, <2>1, <3>1, <3>2, <3>3
  <2> QED
    BY <1>4, <2>2, <2>3, <2>4, <2>5, <2>6, <2>7
<1>5. CASE \/ Receive \/ DequeueWaits \/ DequeueReturnsNull
           \/ DequeueTakes \/ DequeueExpired \/ ReceiveReturns
  <2>1. /\ TypeInv' /\ Losing' /\ Stranding' /\ Settled' /\ Stopped'
        /\ Narrows /\ Closes
    BY <1>a, <1>5, ReceiveTyped, ReceiveLosing, ReceiveStranding, ReceiveSettled,
       ReceiveStopped, ReceiveNarrows, ReceiveCloses
  <2>2. CASE \/ Receive \/ DequeueWaits \/ DequeueReturnsNull
    <3>1. Kept
      BY <1>a, <2>2, ReceiverKeeps
    <3>2. Singly' /\ Apart' /\ Tracked' /\ Passes
      BY <1>a, <3>1, KeptTracked, StayPasses DEF Kept
    <3>3. Ordered'
      BY <1>a, <2>1, <3>1, StayOrdered DEF Kept, Narrows
    <3>4. AutoAcknowledged'
      BY <2>1, <3>1, AcksHold DEF Kept, Stay
    <3> QED
      BY <1>b, <2>1, <3>2, <3>3, <3>4
  <2>3. CASE DequeueTakes
    <3>1. Singly' /\ Apart' /\ Tracked' /\ Passes
      BY <1>a, <2>3, ReceiveTracked, ReceivePasses
    <3>2. Ordered'
      BY <1>a, <2>3, ReceiveOrdered
    <3>3. AutoAcknowledged'
      BY <1>a, <2>1, <2>3, AcksHold DEF DequeueTakes, executorVars, historyVars
    <3> QED
      BY <1>b, <2>1, <3>1, <3>2, <3>3
  <2>4. CASE DequeueExpired
    <3>1. Singly' /\ Apart' /\ Tracked' /\ Passes
      BY <1>a, <2>4, ReceiveTracked, ReceivePasses
    <3>2. Ordered'
      BY <1>a, <2>4, ReceiveOrdered
    <3>3. AutoAcknowledged'
      BY <1>a, <2>1, <2>4, AcksHold DEF DequeueExpired, Expires, executorVars
    <3> QED
      BY <1>b, <2>1, <3>1, <3>2, <3>3
  <2>5. CASE ReceiveReturns
    <3>1. Singly' /\ Apart' /\ Tracked' /\ Passes
      BY <1>a, <2>5, ReceiveTracked, ReceivePasses
    <3>2. Ordered'
      BY <1>a, <2>5, ReceiveOrdered
    <3>3. AutoAcknowledged'
      BY <1>a, <2>1, <2>5, AcksHold DEF ReceiveReturns, executorVars, Taken
    <3> QED
      BY <1>b, <2>1, <3>1, <3>2, <3>3
  <2> QED
    BY <1>5, <2>2, <2>3, <2>4, <2>5
<1>6. ASSUME NEW t \in {App, Dispatcher}, NEW c \in Consumers,
             \/ SetMessageListener(t, c) \/ CloseConsumer(t, c)
             \/ DeleteConsumer(c)
      PROVE  ConsumerInv'
  <2>1. /\ TypeInv' /\ Losing' /\ Stranding' /\ Settled' /\ Stopped'
        /\ Narrows /\ Closes
    BY <1>a, <1>6, CallTyped, CallLosing, CallStranding, CallSettled,
       CallStopped, CallNarrows, CallCloses
  <2>2. Kept
    BY <1>a, <1>6, CallKeeps
  <2>3. Singly' /\ Apart' /\ Tracked' /\ Passes
    BY <1>a, <2>2, KeptTracked, StayPasses DEF Kept
  <2>4. Ordered'
    BY <1>a, <2>1, <2>2, StayOrdered DEF Kept, Narrows
  <2>5. AutoAcknowledged'
    BY <2>1, <2>2, AcksHold DEF Kept, Stay
  <2> QED
    BY <1>b, <2>1, <2>3, <2>4, <2>5
<1>7. CASE \/ AskStarted \/ StopForCall \/ Restart
  <2>1. /\ TypeInv' /\ Losing' /\ Stranding' /\ Settled' /\ Stopped'
        /\ Narrows /\ Closes
    BY <1>a, <1>7, StoppingTyped, StoppingLosing, StoppingStranding,
       StoppingSettled,
       StoppingStopped, StoppingNarrows, StoppingCloses
  <2>2. Kept
    BY <1>a, <1>7, CallStepKeeps
  <2>3. Singly' /\ Apart' /\ Tracked' /\ Passes
    BY <1>a, <2>2, KeptTracked, StayPasses DEF Kept
  <2>4. Ordered'
    BY <1>a, <2>1, <2>2, StayOrdered DEF Kept, Narrows
  <2>5. AutoAcknowledged'
    BY <2>1, <2>2, AcksHold DEF Kept, Stay
  <2> QED
    BY <1>b, <2>1, <2>3, <2>4, <2>5
<1>8. CASE \/ ReverseUnconsumed \/ Redispatch \/ Redispatched
  <2>1. /\ TypeInv' /\ Losing' /\ Stranding' /\ Settled' /\ Stopped'
        /\ Narrows /\ Closes
    BY <1>a, <1>8, RedispatchTyped, RedispatchLosing, RedispatchStranding,
       RedispatchSettled,
       RedispatchStopped, RedispatchNarrows, RedispatchCloses
  <2>2. CASE Redispatched
    <3>1. Kept
      BY <1>a, <2>2, CallStepKeeps
    <3>2. Singly' /\ Apart' /\ Tracked' /\ Passes
      BY <1>a, <3>1, KeptTracked, StayPasses DEF Kept
    <3>3. Ordered'
      BY <1>a, <2>1, <3>1, StayOrdered DEF Kept, Narrows
    <3>4. AutoAcknowledged'
      BY <2>1, <3>1, AcksHold DEF Kept, Stay
    <3> QED
      BY <1>b, <2>1, <3>2, <3>3, <3>4
  <2>3. CASE ReverseUnconsumed
    <3>1. Singly' /\ Apart' /\ Tracked' /\ Passes
      BY <1>a, <2>3, CallTracked, CallPasses
    <3>2. Ordered'
      BY <1>a, <2>3, CallOrdered
    <3>3. AutoAcknowledged'
      BY <1>a, <2>1, <2>3, AcksHold DEF ReverseUnconsumed, executorVars,
         historyVars
    <3> QED
      BY <1>b, <2>1, <3>1, <3>2, <3>3
  <2>4. CASE Redispatch
    <3>1. Singly' /\ Apart' /\ Tracked' /\ Passes
      BY <1>a, <2>4, CallTracked, CallPasses
    <3>2. Ordered'
      BY <1>a, <2>4, CallOrdered
    <3>3. AutoAcknowledged'
      BY <1>a, <2>1, <2>4, AcksHold DEF Redispatch, Executor!ExecuteFirst,
         historyVars
    <3> QED
      BY <1>b, <2>1, <3>1, <3>2, <3>3
  <2> QED
    BY <1>8, <2>2, <2>3, <2>4
<1>9. CASE \/ CloseResource \/ RemoveDispatcher \/ RemoveConsumer
           \/ PurgeConsumerMessages
  <2>1. /\ TypeInv' /\ Losing' /\ Stranding' /\ Settled' /\ Stopped'
        /\ Narrows /\ Closes
    BY <1>a, <1>9, ClosingTyped, ClosingLosing, ClosingStranding, ClosingSettled,
       ClosingStopped, ClosingNarrows, ClosingCloses
  <2>2. CASE \/ CloseResource \/ RemoveDispatcher \/ RemoveConsumer
    <3>1. Kept
      BY <1>a, <2>2, CallStepKeeps
    <3>2. Singly' /\ Apart' /\ Tracked' /\ Passes
      BY <1>a, <3>1, KeptTracked, StayPasses DEF Kept
    <3>3. Ordered'
      BY <1>a, <2>1, <3>1, StayOrdered DEF Kept, Narrows
    <3>4. AutoAcknowledged'
      BY <2>1, <3>1, AcksHold DEF Kept, Stay
    <3> QED
      BY <1>b, <2>1, <3>2, <3>3, <3>4
  <2>3. CASE PurgeConsumerMessages
    <3>1. Singly' /\ Apart' /\ Tracked' /\ Passes
      BY <1>a, <2>3, CallTracked, CallPasses
    <3>2. Ordered'
      BY <1>a, <2>3, CallOrdered
    <3>3. AutoAcknowledged'
      BY <1>a, <2>1, <2>3, AcksHold DEF PurgeConsumerMessages, Executor!Purge
    <3> QED
      BY <1>b, <2>1, <3>1, <3>2, <3>3
  <2> QED
    BY <1>9, <2>2, <2>3
<1>10. CASE \/ MarkClosed \/ PurgeMessages \/ NotifyReceivers
  <2>1. /\ TypeInv' /\ Losing' /\ Stranding' /\ Settled' /\ Stopped'
        /\ Narrows /\ Closes
    BY <1>a, <1>10, MarkingTyped, MarkingLosing, MarkingStranding, MarkingSettled,
       MarkingStopped, MarkingNarrows, MarkingCloses
  <2>2. CASE \/ MarkClosed \/ NotifyReceivers
    <3>1. Kept
      BY <1>a, <2>2, CallStepKeeps
    <3>2. Singly' /\ Apart' /\ Tracked' /\ Passes
      BY <1>a, <3>1, KeptTracked, StayPasses DEF Kept
    <3>3. Ordered'
      BY <1>a, <2>1, <3>1, StayOrdered DEF Kept, Narrows
    <3>4. AutoAcknowledged'
      BY <2>1, <3>1, AcksHold DEF Kept, Stay
    <3> QED
      BY <1>b, <2>1, <3>2, <3>3, <3>4
  <2>3. CASE PurgeMessages
    <3>1. Singly' /\ Apart' /\ Tracked' /\ Passes
      BY <1>a, <2>3, CallTracked, CallPasses
    <3>2. Ordered'
      BY <1>a, <2>3, CallOrdered
    <3>3. AutoAcknowledged'
      BY <1>a, <2>1, <2>3, AcksHold DEF PurgeMessages, executorVars
    <3> QED
      BY <1>b, <2>1, <3>1, <3>2, <3>3
  <2> QED
    BY <1>10, <2>2, <2>3
<1> QED
  BY <1>1, <1>2, <1>3, <1>4, <1>5, <1>6, <1>7, <1>8, <1>9, <1>10 DEF Next,
     ReaderStep, DispatcherStep, ReceiverStep, CallStep

\* ... and so it always holds.
LEMMA InvariantHolds == Spec => []ConsumerInv
<1>1. ConsumerInv /\ UNCHANGED vars => ConsumerInv'
  <2> SUFFICES ASSUME ConsumerInv, UNCHANGED vars PROVE ConsumerInv'
    OBVIOUS
  <2> USE DEF vars, executorVars, connectionVars, consumerVars, historyVars
  <2>1. TypeInv'
    BY DEF ConsumerInv, TrackInv, PlaceInv, TypeInv, ExecutorTypes, Executor!TypeOK,
       Executor!FlagsTypeOK, Executor!ThreadsTypeOK, Executor!QueueTypeOK,
       ConnectionTypes, ConsumerTypes, ThreadTypes, CallTypes, HistoryTypes, Calling
  <2>2. Kept
    BY DEF Kept, Stay
  <2>3. Singly' /\ Apart' /\ Tracked'
    BY <2>2, KeptTracked DEF ConsumerInv, TrackInv
  <2>4. Losing' /\ Stranding'
    BY DEF ConsumerInv, Losing, Missing, Dropped, Stranding, Target
  <2>5. Stopped' /\ Silent'
    BY DEF ConsumerInv, Stopped, Silent, Disconnected, Removed, Purged, Emptied,
       Unharmed,
       Gone, Target, Queued
  <2>6. Safe' /\ AutoAcknowledged'
    BY DEF ConsumerInv, Safe, Harmless, Cleared, Unused, Gone, Batch, Dispatching,
       AutoAcknowledged
  <2>7. Settled'
    BY DEF ConsumerInv, Settled, ReceiverAlone, Listened, Unraced, Target
  <2>8. Ordered'
    BY <2>2, StayOrdered DEF ConsumerInv, TrackInv, Kept
  <2> QED
    BY <2>1, <2>3, <2>4, <2>5, <2>6, <2>7, <2>8 DEF ConsumerInv, TrackInv, PlaceInv
<1> QED
  BY InitHolds, StepHolds, <1>1, PTL DEF Spec

\* The state keeps its types, and what is on its way, what has been given,
\* acknowledged, expired or lost has been sent.
THEOREM TypeCorrect == Spec => []TypeOK
<1>1. ConsumerInv => TypeOK
  BY DEF ConsumerInv, TrackInv, PlaceInv, TypeInv, ExecutorTypes, ConnectionTypes,
     ConsumerTypes, ThreadTypes, CallTypes, HistoryTypes, Tracked, TypeOK
<1> QED
  BY <1>1, InvariantHolds, PTL

\* However consumers come, change and go, a message is neither dropped nor
\* doubled, nor left where nobody will look for it.
THEOREM MessagesAreAccounted == Spec => []Accounted
<1>1. ASSUME ConsumerInv PROVE Accounted
  <2>1. /\ TypeInv /\ Singly /\ Apart /\ Tracked
    BY <1>1 DEF ConsumerInv, TrackInv, PlaceInv
  <2>2. /\ ToSet(Places) = Reading \cup Dispatching \cup Batch \cup Queued \cup Turned
                             \cup Taken
        /\ IsInjective(Places) /\ ToSet(Places) \cap Waiting = {}
    BY <2>1, PlacesAreApart
  <2>3. /\ Waiting = UNION {ToSet(unconsumed[c]) : c \in Consumers}
        /\ \A c \in Consumers : ToSet(unconsumed[c]) = {m \in Waiting : ConsumerOf[m] = c}
    BY <2>1, WaitingIs
  <2>4. InPlaces = Everywhere
    BY <2>2, <2>3 DEF InPlaces, Everywhere
  <2>5. NothingLost
    BY <1>1, <2>1, <2>4 DEF NothingLost, Tracked, ConsumerInv, Losing, Dropped
  <2>6. OwnedOnce
    <3>1. given \cap InPlaces \subseteq ToSet(current)
      BY <2>1, <2>4 DEF Tracked, Dispatching
    <3>2. (expired \cup lost) \cap InPlaces = {}
      BY <2>1, <2>4 DEF Tracked
    <3>3. \A c \in Consumers :
            /\ IsInjective(unconsumed[c])
            /\ \A m \in ToSet(unconsumed[c]) : ConsumerOf[m] = c /\ m \notin ToSet(Places)
      BY <2>1, <2>2, <2>3 DEF Singly
    <3> QED
      BY <2>2, <3>1, <3>2, <3>3 DEF OwnedOnce
  <2>7. NothingStranded
    BY <1>1 DEF ConsumerInv, Stranding, NothingStranded
  <2> QED
    BY <2>5, <2>6, <2>7 DEF Accounted
<1> QED
  BY <1>1, InvariantHolds, PTL

\* When close() has returned the session has no message for the consumer left
\* and does not use it any more.
THEOREM ClosesAreFinal == Spec => []CloseIsFinal
<1>1. ASSUME ConsumerInv PROVE CloseIsFinal
  <2>1. ClosedIsSilent
    <3> SUFFICES ASSUME Unharmed, NEW c \in closedConsumers,
                        ~(call.op = "close" /\ call.on = c)
                 PROVE  /\ For(c, messageQueue) = {} /\ unconsumed[c] = <<>>
                        /\ position \in {"found", "pushing"} => Target # c
      BY DEF ClosedIsSilent, Unharmed
    <3>1. \A at : Gone(c, at)
      BY DEF Gone
    <3>2. c \in Consumers
      BY <1>1 DEF ConsumerInv, TrackInv, PlaceInv, TypeInv, ConsumerTypes
    <3>3. For(c, messageQueue) = {}
      BY <1>1, <3>1 DEF ConsumerInv, Silent, Purged, For, Queued
    <3> QED
      BY <1>1, <3>1, <3>2, <3>3 DEF ConsumerInv, Silent, Removed, Emptied
  <2>2. DispatcherIsSafe
    BY <1>1 DEF ConsumerInv, Safe, Unused, DispatcherIsSafe
  <2> QED
    BY <2>1, <2>2 DEF CloseIsFinal
<1> QED
  BY <1>1, InvariantHolds, PTL

\* Only a listener that is called, and a receive that returns, are given a
\* message.
LEMMA Gives ==
    ASSUME Next
    PROVE  given' = given \/ OnMessage \/ ReceiveReturns
<1> USE DEF historyVars
<1>1. CASE ReaderStep \/ ConnectionBreaks
  BY <1>1 DEF ReaderStep, OnCommand, OnConsumerMessage, ReaderUsesDeleted,
     OnTransportException, ConnectionBreaks
<1>2. CASE ConnectionStart \/ ConnectionStop \/ ListenerStops
  BY <1>2 DEF ConnectionStart, ConnectionStop, ListenerStops
<1>3. CASE DispatcherStep \/ OnMessageReturns \/ SpuriousWakeup
  BY <1>3 DEF DispatcherStep, ExecutorStep, Dispatch, UsesDeleted, LookUp,
     DispatchExpired, NoListener, PushUnconsumed, OnMessageReturns, SpuriousWakeup
<1>4. CASE Receive \/ ReceiverStep
  BY <1>4 DEF Receive, ReceiverStep, DequeueWaits, DequeueReturnsNull, DequeueTakes,
     DequeueExpired
<1>5. ASSUME NEW t \in {App, Dispatcher}, NEW c \in Consumers,
             SetMessageListener(t, c) \/ CloseConsumer(t, c) \/ DeleteConsumer(c)
      PROVE  given' = given
  BY <1>5 DEF SetMessageListener, CloseConsumer, DeleteConsumer
<1>6. CASE CallStep
  BY <1>6 DEF CallStep, AskStarted, StopForCall, Restart, ReverseUnconsumed,
     Redispatch, Redispatched, CloseResource, RemoveDispatcher, RemoveConsumer,
     PurgeConsumerMessages, MarkClosed, PurgeMessages, NotifyReceivers
<1> QED
  BY <1>1, <1>2, <1>3, <1>4, <1>5, <1>6 DEF Next

\* What is given is behind what its consumer has been given.
LEMMA GivesInOrder ==
    ASSUME ConsumerInv, given' = given \/ OnMessage \/ ReceiveReturns
    PROVE  InOrder
<1> SUFFICES ASSUME NEW m \in given' \ given, NEW n \in given,
                    ConsumerOf[m] = ConsumerOf[n], ConsumerOf[m] \notin raced,
                    mishaps = {}
             PROVE  n < m
  BY DEF InOrder
<1>1. Line /\ Tracked
  BY DEF ConsumerInv, Ordered, TrackInv
<1>2. CASE OnMessage
  <2>1. m \in Dispatching /\ n \notin Dispatching
    BY <1>1, <1>2 DEF OnMessage, IsAt, Dispatching, Tracked, Everywhere
  <2> QED
    BY <1>1, <2>1 DEF Line, Before
<1>3. CASE ReceiveReturns
  <2>1. m \in Taken /\ ConsumerOf[m] = receiver.on /\ receiver.at # "idle"
    BY <1>1, <1>3 DEF ReceiveReturns, Taken, Tracked
  <2>2. ConsumerOf[m] \notin listening
    BY <2>1 DEF ConsumerInv, Settled, ReceiverAlone
  <2>3. ASSUME n \in Dispatching PROVE FALSE
    <3>1. position = "listening"
      BY <1>1, <2>3 DEF Tracked, Everywhere
    <3>2. n = current[1]
      BY <2>3, <3>1, PlacesTyped DEF ConsumerInv, TrackInv, PlaceInv, TypeInv,
         ThreadTypes
    <3> QED
      BY <2>2, <3>1, <3>2 DEF ConsumerInv, Settled, Listened, Target
  <2> QED
    BY <1>1, <2>1, <2>3 DEF Line, Before
<1> QED
  BY <1>2, <1>3

\* A message is given after those that its consumer was sent before it, unless
\* the consumer's listener was set in a running session or a call met one of the
\* mishaps; and what has been consumed is acknowledged, unless the consumer has
\* been closed or the connection is broken.
THEOREM MessagesAreGivenInOrder == Spec => GivenInOrderAndAcknowledged
<1>1. ConsumerInv /\ ConsumerInv' /\ [Next]_vars => [InOrder /\ AutoAcknowledged']_vars
  BY Gives, GivesInOrder DEF ConsumerInv
<1> QED
  BY <1>1, InvariantHolds, PTL DEF Spec, GivenInOrderAndAcknowledged
-----------------------------------------------------------------------------
(* The consumers' session uses its executor as SessionExecutor.tla says an  *)
(* executor is used.                                                        *)

\* A message that is in neither the batch nor the queue is not pending.
LEMMA NotPending ==
    ASSUME TypeInv, NEW m, m \notin Batch, m \notin Queued
    PROVE  m \notin Executor!ToSet(Executor!Pending)
<1>1. Executor!ToSet(Executor!Pending) = ToSet(dataList \o messageQueue)
  BY DEF Executor!ToSet, ToSet, Executor!Pending
<1>2. ToSet(dataList \o messageQueue) = ToSet(dataList) \cup ToSet(messageQueue)
  BY PlacesTyped, JoinedPlaces
<1> QED
  BY <1>1, <1>2 DEF Batch, Queued

\* What the reader brings and what redispatch puts back is not pending.
LEMMA PushesForExecutor ==
    ASSUME PlaceInv, OnConsumerMessage \/ Redispatch
    PROVE  Executor!CallerStep \/ UNCHANGED executorVars
<1>1. TypeInv
  BY DEF PlaceInv
<1>2. CASE OnConsumerMessage /\ ConsumerOf[reader[1]] \in dispatchers
  <2>1. reader # <<>> /\ Executor!Execute(reader[1])
    BY <1>2 DEF OnConsumerMessage
  <2>2. reader[1] \in Messages /\ reader[1] \in Reading
    BY <1>1, <2>1, OneAtMost DEF TypeInv, ThreadTypes, Reading
  <2>3. reader[1] \notin Batch /\ reader[1] \notin Queued
    BY <2>2 DEF PlaceInv, Apart
  <2> QED
    BY <1>1, <2>1, <2>2, <2>3, NotPending DEF Executor!CallerStep
<1>3. CASE OnConsumerMessage /\ ConsumerOf[reader[1]] \notin dispatchers
  BY <1>3 DEF OnConsumerMessage
<1>4. CASE Redispatch
  <2>1. reversedList # <<>> /\ Executor!ExecuteFirst(Head(reversedList))
    BY <1>4 DEF Redispatch
  <2>2. Head(reversedList) \in Messages /\ Head(reversedList) \in Turned
    <3>1. reversedList \in Seq(Messages) /\ reversedList # <<>>
      BY <1>1, <2>1, PlacesTyped
    <3>2. /\ Head(reversedList) \in Messages
          /\ ToSet(reversedList) = {Head(reversedList)} \cup ToSet(Tail(reversedList))
      BY <3>1, FirstAndRest
    <3> QED
      BY <3>2 DEF Turned
  <2>3. Head(reversedList) \notin Batch /\ Head(reversedList) \notin Queued
    BY <2>2 DEF PlaceInv, Apart
  <2> QED
    BY <1>1, <2>1, <2>2, <2>3, NotPending DEF Executor!CallerStep
<1> QED
  BY <1>2, <1>3, <1>4

\* The session is stopped by the connection, by a listener inside its own
\* dispatch, and by the thread that is inside close() or setMessageListener().
LEMMA StopsForExecutor ==
    ASSUME TypeInv, ConnectionStop \/ ListenerStops \/ StopForCall
    PROVE  Executor!CallerStep \/ Executor!ListenerStops
<1>0. position = "listening" => current # <<>>
  BY DEF TypeInv, ThreadTypes
<1>1. CASE ConnectionStop
  BY <1>1 DEF ConnectionStop, Executor!CallerStep
<1>2. CASE ListenerStops
  BY <1>0, <1>2 DEF ListenerStops, Executor!ListenerStops
<1>3. CASE StopForCall
  <2>1. Executor!Stop(call.by) /\ call.at = "stopping"
    BY <1>3 DEF StopForCall, At
  <2>2. call.op # "none" /\ call.by \in {App, Dispatcher}
    BY <2>1 DEF TypeInv, CallTypes, NoCall
  <2>3. CASE call.by = App
    BY <2>1, <2>3 DEF Executor!CallerStep
  <2>4. CASE call.by = Dispatcher
    <3>1. current # <<>>
      BY <1>0, <2>2, <2>4 DEF TypeInv, Calling
    <3> QED
      BY <2>1, <2>4, <3>1 DEF Executor!ListenerStops
  <2> QED
    BY <2>2, <2>3, <2>4
<1> QED
  BY <1>1, <1>2, <1>3

\* Whatever a step of the session does, its executor sees a step of its own or
\* none.
LEMMA StepForExecutor ==
    ASSUME PlaceInv, [Next]_vars
    PROVE  [Executor!Next]_(Executor!vars)
<1> SUFFICES Executor!Next \/ UNCHANGED Executor!vars
  OBVIOUS
<1>0. UNCHANGED executorVars => UNCHANGED Executor!vars
  BY DEF executorVars, Executor!vars
<1>a. TypeInv
  BY DEF PlaceInv
<1>1. CASE UNCHANGED vars
  BY <1>0, <1>1 DEF vars
<1>2. CASE OnConsumerMessage \/ Redispatch
  BY <1>0, <1>2, PushesForExecutor DEF Executor!Next
<1>3. CASE ConnectionStop \/ ListenerStops \/ StopForCall
  BY <1>a, <1>3, StopsForExecutor DEF Executor!Next
<1>4. CASE ConnectionStart \/ Restart
  BY <1>0, <1>4 DEF ConnectionStart, Restart, Executor!Next, Executor!CallerStep
<1>5. CASE PurgeConsumerMessages
  <2>1. call.on \in Consumers /\ Executor!Purge(call.on)
    BY <1>a, <1>5 DEF PurgeConsumerMessages, TypeInv, CallTypes
  <2> QED
    BY <2>1 DEF Executor!Next, Executor!CallerStep
<1>6. CASE ExecutorStep \/ SpuriousWakeup \/ Dispatch
  BY <1>0, <1>6 DEF ExecutorStep, SpuriousWakeup, Dispatch, Executor!Next,
     Executor!ThreadStep
<1>7. CASE LookUp \/ DispatchExpired \/ OnMessageReturns \/ PushUnconsumed
  BY <1>0, <1>7 DEF LookUp, DispatchExpired, OnMessageReturns, PushUnconsumed,
     Executor!Next, Executor!ThreadStep
<1>8. CASE \/ OnCommand \/ ReaderUsesDeleted \/ OnTransportException
           \/ ConnectionBreaks \/ UsesDeleted \/ OnMessage \/ NoListener
  BY <1>0, <1>8 DEF OnCommand, ReaderUsesDeleted, OnTransportException,
     ConnectionBreaks, UsesDeleted, OnMessage, NoListener
<1>9. CASE Receive \/ ReceiverStep
  BY <1>0, <1>9 DEF Receive, ReceiverStep, DequeueWaits, DequeueReturnsNull,
     DequeueTakes, DequeueExpired, ReceiveReturns
<1>10. CASE \/ \E t \in {App, Dispatcher}, c \in Consumers :
                 SetMessageListener(t, c) \/ CloseConsumer(t, c)
            \/ \E c \in Consumers : DeleteConsumer(c)
  BY <1>0, <1>10 DEF SetMessageListener, CloseConsumer, DeleteConsumer
<1>11. CASE \/ AskStarted \/ ReverseUnconsumed \/ Redispatched \/ CloseResource
            \/ RemoveDispatcher \/ RemoveConsumer \/ MarkClosed \/ PurgeMessages
            \/ NotifyReceivers
  BY <1>0, <1>11 DEF AskStarted, ReverseUnconsumed, Redispatched, CloseResource,
     RemoveDispatcher, RemoveConsumer, MarkClosed, PurgeMessages, NotifyReceivers
<1> QED
  BY <1>1, <1>2, <1>3, <1>4, <1>5, <1>6, <1>7, <1>8, <1>9, <1>10, <1>11
     DEF Next, ReaderStep, DispatcherStep, CallStep

\* ActiveMQConnection, ActiveMQSession and ActiveMQConsumer call the executor
\* as it expects to be called: neither onConsumerMessage nor redispatch pushes
\* a message that is pending, and where the Dispatcher stops the session, in
\* close() or setMessageListener(), it is inside a dispatch.
THEOREM ConsumersUseExecutor == Spec => Executor!Spec
<1>1. Init => Executor!Init
  BY DEF Init
<1>2. ConsumerInv /\ [Next]_vars => [Executor!Next]_(Executor!vars)
  BY StepForExecutor DEF ConsumerInv, TrackInv
<1> QED
  BY <1>1, <1>2, InvariantHolds, PTL DEF Spec, Executor!Spec
=============================================================================
