---------------------- MODULE StompSubscriptionsProofs ----------------------
(***************************************************************************)
(* Safety of the shared Stomp subscriptions for any consumers and          *)
(* destinations: the invariants of StompSubscriptions.tla follow from      *)
(* IInv, which every step preserves.                                       *)
(***************************************************************************)
EXTENDS StompSubscriptions, TLAPS

\* Whoever holds the mutex between two steps has found the entry of its
\* destination empty, and keeps it so.
HolderAlone ==
    \A c \in Consumers : mutex = c => entry[dest[c]] = {} /\ dest[c] \in known

\* Every destination but that of the holder is subscribed to while used.
Sharing ==
    io => \A d \in Destinations :
            \/ \E c \in Consumers : mutex = c /\ dest[c] = d
            \/ d \in subscribed <=> entry[d] # {}

\* An entry holds consumers of its destination, whose info is in use.
Members ==
    \A d \in Destinations : \A c \in entry[d] : dest[c] = d /\ info[c] = "live"

\* What a thread inside a call relies on.
Calls ==
    \A c \in Consumers :
        /\ at[c] # "idle" => info[c] = "live"
        /\ at[c] \in {"starting", "subscribing"} => call[c] = "start"
        /\ at[c] \in {"removing", "unsubscribing"} => call[c] # "start"
        /\ at[c] \in {"closing", "joining"} => ~io /\ (call[c] = "start" \/
              lost)

\* A ConsumerInfo dangles only where an unsubscription was lost.
Dangling == \A c \in Consumers : info[c] = "dangling" => lost

Incoming == reader = "delivering" => incoming \in Destinations

IInv == /\ TypeOK /\ HolderAlone /\ Sharing /\ Members /\ Calls /\ Dangling
        /\ Incoming /\ InfoIsValid
-----------------------------------------------------------------------------
\* A new connection has no consumers and no subscriptions.
LEMMA InitEstablishes == Init => IInv
<1> SUFFICES ASSUME Init PROVE IInv
  OBVIOUS
<1> USE NoneAssumption DEF Init
<1>1. TypeOK
  <2>1. ManagerTypeOK
    BY DEF TypeOK, ManagerTypeOK, ConsumersTypeOK, PositionsOK, HolderAlone
  <2>2. ConsumersTypeOK
    BY DEF TypeOK, ConsumersTypeOK
  <2>3. IoTypeOK
    BY DEF TypeOK, IoTypeOK
  <2>4. PositionsOK
    BY DEF TypeOK, ManagerTypeOK, ConsumersTypeOK, PositionsOK, Calls
  <2> QED
    BY <2>1, <2>2, <2>3, <2>4 DEF TypeOK
<1>2. HolderAlone
  BY DEF HolderAlone, TypeOK, ManagerTypeOK, ConsumersTypeOK, PositionsOK
<1>3. Sharing
  BY DEF Sharing, HolderAlone, Calls, TypeOK, ManagerTypeOK, ConsumersTypeOK,
        PositionsOK
<1>4. Members
  BY DEF Members, HolderAlone, Calls, TypeOK, ManagerTypeOK, ConsumersTypeOK,
        PositionsOK
<1>5. Calls
  BY DEF Calls, TypeOK, ManagerTypeOK, ConsumersTypeOK, PositionsOK
<1>6. Dangling
  BY DEF Dangling, Calls, TypeOK, ConsumersTypeOK, PositionsOK
<1>7. Incoming
  BY DEF Incoming
<1>8. InfoIsValid
  BY DEF InfoIsValid
<1> QED
  BY <1>1, <1>2, <1>3, <1>4, <1>5, <1>6, <1>7, <1>8 DEF IInv

\* A consumer is created; its start may find the connector closed.
LEMMA CreatePreserves ==
    ASSUME IInv, NEW c \in Consumers,
           CreateConsumer(c) \/ NotConnected(c)
    PROVE  IInv'
<1> USE DestinationAssumption, NoneAssumption
    DEF IInv, CreateConsumer, NotConnected, Begins, Undone, Goto, managerVars,
          ioVars
<1>1. TypeOK'
  <2>1. ManagerTypeOK'
    BY DEF TypeOK, ManagerTypeOK, ConsumersTypeOK, PositionsOK, HolderAlone
  <2>2. ConsumersTypeOK'
    BY DEF TypeOK, ConsumersTypeOK
  <2>3. IoTypeOK'
    BY DEF TypeOK, IoTypeOK
  <2>4. PositionsOK'
    <3>1. CASE CreateConsumer(c)
      BY <3>1 DEF TypeOK, ConsumersTypeOK, PositionsOK, Calls, None
    <3>2. CASE NotConnected(c)
      BY <3>2 DEF TypeOK, ConsumersTypeOK, PositionsOK, Calls, None
    <3> QED
      BY <3>1, <3>2
  <2> QED
    BY <2>1, <2>2, <2>3, <2>4 DEF TypeOK
<1>2. HolderAlone'
  BY DEF HolderAlone, TypeOK, ManagerTypeOK, ConsumersTypeOK, PositionsOK
<1>3. Sharing'
  BY DEF Sharing
<1>4. Members'
  BY DEF Members, HolderAlone, Calls, TypeOK, ManagerTypeOK, ConsumersTypeOK,
        PositionsOK
<1>5. Calls'
  BY DEF Calls, TypeOK, ManagerTypeOK, ConsumersTypeOK, PositionsOK
<1>6. Dangling'
  BY DEF Dangling, Calls, TypeOK, ConsumersTypeOK, PositionsOK
<1>7. Incoming'
  BY DEF Incoming
<1>8. InfoIsValid'
  BY DEF InfoIsValid
<1> QED
  BY <1>1, <1>2, <1>3, <1>4, <1>5, <1>6, <1>7, <1>8

\* The end of a consumer begins, or only marks its objects: a ConsumerInfo that
\* dangles is used, but then an unsubscription was lost.
LEMMA EndPreserves ==
    ASSUME IInv, NEW c \in Consumers,
           CloseConsumer(c) \/ CloseSession(c) \/ DeleteConsumer(c)
    PROVE  IInv'
<1> USE DestinationAssumption, NoneAssumption
    DEF IInv, CloseConsumer, CloseSession, DeleteConsumer, Begins, Goto,
          managerVars, ioVars
<1>1. TypeOK'
  <2>1. ManagerTypeOK'
    BY DEF TypeOK, ManagerTypeOK, ConsumersTypeOK, PositionsOK, HolderAlone
  <2>2. ConsumersTypeOK'
    BY DEF TypeOK, ConsumersTypeOK
  <2>3. IoTypeOK'
    BY DEF TypeOK, IoTypeOK
  <2>4. PositionsOK'
    <3>1. CASE CloseConsumer(c)
      BY <3>1 DEF TypeOK, ConsumersTypeOK, PositionsOK, Calls, None
    <3>2. CASE CloseSession(c)
      BY <3>2 DEF TypeOK, ConsumersTypeOK, PositionsOK, Calls, None
    <3>3. CASE DeleteConsumer(c)
      BY <3>3 DEF TypeOK, ConsumersTypeOK, PositionsOK, Calls, None
    <3> QED
      BY <3>1, <3>2, <3>3
  <2> QED
    BY <2>1, <2>2, <2>3, <2>4 DEF TypeOK
<1>2. HolderAlone'
  BY DEF HolderAlone, TypeOK, ManagerTypeOK, ConsumersTypeOK, PositionsOK
<1>3. Sharing'
  BY DEF Sharing
<1>4. Members'
  BY DEF Members, HolderAlone, Calls, TypeOK, ManagerTypeOK, ConsumersTypeOK,
        PositionsOK
<1>5. Calls'
  BY DEF Calls, TypeOK, ManagerTypeOK, ConsumersTypeOK, PositionsOK
<1>6. Dangling'
  BY DEF Dangling, Calls, TypeOK, ConsumersTypeOK, PositionsOK
<1>7. Incoming'
  BY DEF Incoming
<1>8. InfoIsValid'
  BY DEF InfoIsValid, Dangling
<1> QED
  BY <1>1, <1>2, <1>3, <1>4, <1>5, <1>6, <1>7, <1>8

\* A consumer joins an entry in use, or finds its entry empty and keeps the
\* mutex.
LEMMA StartPreserves ==
    ASSUME IInv, NEW c \in Consumers,
           StartConsumer(c)
    PROVE  IInv'
<1> USE DestinationAssumption, NoneAssumption
    DEF IInv, StartConsumer, Goto, ioVars
<1>1. TypeOK'
  <2>1. ManagerTypeOK'
    BY DEF TypeOK, ManagerTypeOK, ConsumersTypeOK, PositionsOK, HolderAlone
  <2>2. ConsumersTypeOK'
    BY DEF TypeOK, ConsumersTypeOK
  <2>3. IoTypeOK'
    BY DEF TypeOK, IoTypeOK
  <2>4. PositionsOK'
    BY DEF TypeOK, ManagerTypeOK, ConsumersTypeOK, PositionsOK, Calls
  <2> QED
    BY <2>1, <2>2, <2>3, <2>4 DEF TypeOK
<1>2. HolderAlone'
  BY DEF HolderAlone, TypeOK, ManagerTypeOK, ConsumersTypeOK, PositionsOK
<1>3. Sharing'
  BY DEF Sharing, HolderAlone, Calls, TypeOK, ManagerTypeOK, ConsumersTypeOK,
        PositionsOK
<1>4. Members'
  BY DEF Members, HolderAlone, Calls, TypeOK, ManagerTypeOK, ConsumersTypeOK,
        PositionsOK
<1>5. Calls'
  BY DEF Calls, TypeOK, ManagerTypeOK, ConsumersTypeOK, PositionsOK
<1>6. Dangling'
  BY DEF Dangling, Calls, TypeOK, ConsumersTypeOK, PositionsOK
<1>7. Incoming'
  BY DEF Incoming
<1>8. InfoIsValid'
  BY DEF InfoIsValid
<1> QED
  BY <1>1, <1>2, <1>3, <1>4, <1>5, <1>6, <1>7, <1>8

\* The holder subscribes and enters its consumer.
LEMMA SubscribePreserves ==
    ASSUME IInv, NEW c \in Consumers,
           Subscribe(c)
    PROVE  IInv'
<1> USE DestinationAssumption, NoneAssumption
    DEF IInv, Subscribe, Goto, ioVars
<1>1. TypeOK'
  <2>1. ManagerTypeOK'
    BY DEF TypeOK, ManagerTypeOK, ConsumersTypeOK, PositionsOK, HolderAlone
  <2>2. ConsumersTypeOK'
    BY DEF TypeOK, ConsumersTypeOK
  <2>3. IoTypeOK'
    BY DEF TypeOK, IoTypeOK
  <2>4. PositionsOK'
    BY DEF TypeOK, ManagerTypeOK, ConsumersTypeOK, PositionsOK, Calls
  <2> QED
    BY <2>1, <2>2, <2>3, <2>4 DEF TypeOK
<1>2. HolderAlone'
  BY DEF HolderAlone, TypeOK, ManagerTypeOK, ConsumersTypeOK, PositionsOK
<1>3. Sharing'
  BY DEF Sharing, HolderAlone, Calls, TypeOK, ManagerTypeOK, ConsumersTypeOK,
        PositionsOK
<1>4. Members'
  BY DEF Members, HolderAlone, Calls, TypeOK, ManagerTypeOK, ConsumersTypeOK,
        PositionsOK
<1>5. Calls'
  BY DEF Calls, TypeOK, ManagerTypeOK, ConsumersTypeOK, PositionsOK
<1>6. Dangling'
  BY DEF Dangling, Calls, TypeOK, ConsumersTypeOK, PositionsOK
<1>7. Incoming'
  BY DEF Incoming
<1>8. InfoIsValid'
  BY DEF InfoIsValid
<1> QED
  BY <1>1, <1>2, <1>3, <1>4, <1>5, <1>6, <1>7, <1>8

\* A consumer leaves its entry; only the last one keeps the mutex.
LEMMA RemovePreserves ==
    ASSUME IInv, NEW c \in Consumers,
           RemoveConsumer(c)
    PROVE  IInv'
<1> USE DestinationAssumption, NoneAssumption
    DEF IInv, RemoveConsumer, Removed, Goto, ioVars
<1>1. TypeOK'
  <2>1. ManagerTypeOK'
    BY DEF TypeOK, ManagerTypeOK, ConsumersTypeOK, PositionsOK, HolderAlone
  <2>2. ConsumersTypeOK'
    BY DEF TypeOK, ConsumersTypeOK
  <2>3. IoTypeOK'
    BY DEF TypeOK, IoTypeOK
  <2>4. PositionsOK'
    BY DEF TypeOK, ManagerTypeOK, ConsumersTypeOK, PositionsOK, Calls
  <2> QED
    BY <2>1, <2>2, <2>3, <2>4 DEF TypeOK
<1>2. HolderAlone'
  BY DEF HolderAlone, TypeOK, ManagerTypeOK, ConsumersTypeOK, PositionsOK
<1>3. Sharing'
  BY DEF Sharing, HolderAlone, Calls, TypeOK, ManagerTypeOK, ConsumersTypeOK,
        PositionsOK
<1>4. Members'
  BY DEF Members, HolderAlone, Calls, TypeOK, ManagerTypeOK, ConsumersTypeOK,
        PositionsOK
<1>5. Calls'
  BY DEF Calls, TypeOK, ManagerTypeOK, ConsumersTypeOK, PositionsOK
<1>6. Dangling'
  BY DEF Dangling, Calls, TypeOK, ConsumersTypeOK, PositionsOK
<1>7. Incoming'
  BY DEF Incoming
<1>8. InfoIsValid'
  BY DEF InfoIsValid
<1> QED
  BY <1>1, <1>2, <1>3, <1>4, <1>5, <1>6, <1>7, <1>8

\* The holder ends the subscription of an empty entry.
LEMMA UnsubscribePreserves ==
    ASSUME IInv, NEW c \in Consumers,
           Unsubscribe(c)
    PROVE  IInv'
<1> USE DestinationAssumption, NoneAssumption
    DEF IInv, Unsubscribe, Removed, Goto, ioVars
<1>1. TypeOK'
  <2>1. ManagerTypeOK'
    BY DEF TypeOK, ManagerTypeOK, ConsumersTypeOK, PositionsOK, HolderAlone
  <2>2. ConsumersTypeOK'
    BY DEF TypeOK, ConsumersTypeOK
  <2>3. IoTypeOK'
    BY DEF TypeOK, IoTypeOK
  <2>4. PositionsOK'
    BY DEF TypeOK, ManagerTypeOK, ConsumersTypeOK, PositionsOK, Calls
  <2> QED
    BY <2>1, <2>2, <2>3, <2>4 DEF TypeOK
<1>2. HolderAlone'
  BY DEF HolderAlone, TypeOK, ManagerTypeOK, ConsumersTypeOK, PositionsOK
<1>3. Sharing'
  BY DEF Sharing, HolderAlone, Calls, TypeOK, ManagerTypeOK, ConsumersTypeOK,
        PositionsOK
<1>4. Members'
  BY DEF Members, HolderAlone, Calls, TypeOK, ManagerTypeOK, ConsumersTypeOK,
        PositionsOK
<1>5. Calls'
  BY DEF Calls, TypeOK, ManagerTypeOK, ConsumersTypeOK, PositionsOK
<1>6. Dangling'
  BY DEF Dangling, Calls, TypeOK, ConsumersTypeOK, PositionsOK
<1>7. Incoming'
  BY DEF Incoming
<1>8. InfoIsValid'
  BY DEF InfoIsValid
<1> QED
  BY <1>1, <1>2, <1>3, <1>4, <1>5, <1>6, <1>7, <1>8

\* A command cannot be written: io is off, and a lost unsubscription is noted.
LEMMA WritePreserves ==
    ASSUME IInv, NEW c \in Consumers,
           WriteFails(c) \/ Joined(c)
    PROVE  IInv'
<1> USE DestinationAssumption, NoneAssumption
    DEF IInv, WriteFails, Joined, Goto, managerVars, ioVars
<1>1. TypeOK'
  <2>1. ManagerTypeOK'
    BY DEF TypeOK, ManagerTypeOK, ConsumersTypeOK, PositionsOK, HolderAlone
  <2>2. ConsumersTypeOK'
    BY DEF TypeOK, ConsumersTypeOK
  <2>3. IoTypeOK'
    BY DEF TypeOK, IoTypeOK
  <2>4. PositionsOK'
    BY DEF TypeOK, ManagerTypeOK, ConsumersTypeOK, PositionsOK, Calls
  <2> QED
    BY <2>1, <2>2, <2>3, <2>4 DEF TypeOK
<1>2. HolderAlone'
  BY DEF HolderAlone, TypeOK, ManagerTypeOK, ConsumersTypeOK, PositionsOK
<1>3. Sharing'
  BY DEF Sharing, HolderAlone, Calls, TypeOK, ManagerTypeOK, ConsumersTypeOK,
        PositionsOK
<1>4. Members'
  BY DEF Members, HolderAlone, Calls, TypeOK, ManagerTypeOK, ConsumersTypeOK,
        PositionsOK
<1>5. Calls'
  <2>1. CASE WriteFails(c)
    BY <2>1 DEF Calls, TypeOK, ConsumersTypeOK, PositionsOK
  <2>2. CASE Joined(c)
    BY <2>2 DEF Calls, TypeOK, ConsumersTypeOK, PositionsOK
  <2> QED
    BY <2>1, <2>2
<1>6. Dangling'
  <2>1. info' = info /\ (lost => lost')
    BY DEF TypeOK, IoTypeOK
  <2> QED
    BY <2>1 DEF Dangling
<1>7. Incoming'
  BY DEF Incoming
<1>8. InfoIsValid'
  BY DEF InfoIsValid
<1> QED
  BY <1>1, <1>2, <1>3, <1>4, <1>5, <1>6, <1>7, <1>8

\* The exception leaves the mutex; where it ends a removal the ConsumerInfo
\* dangles, and lost holds.
LEMMA ThrowsPreserves ==
    ASSUME IInv, NEW c \in Consumers,
           Throws(c)
    PROVE  IInv'
<1> USE DestinationAssumption, NoneAssumption
    DEF IInv, Throws, NotRemoved, Undone, Goto, ioVars
<1>1. TypeOK'
  <2>1. ManagerTypeOK'
    BY DEF TypeOK, ManagerTypeOK, ConsumersTypeOK, PositionsOK, HolderAlone
  <2>2. ConsumersTypeOK'
    <3>1. CASE call[c] = "start"
      BY <3>1 DEF TypeOK, ConsumersTypeOK
    <3>2. CASE call[c] # "start"
      <4>1. call[c] \in {"close", "session", "delete"}
        BY <3>2 DEF TypeOK, ConsumersTypeOK, PositionsOK
      <4> QED
        BY <3>2, <4>1 DEF TypeOK, ConsumersTypeOK
    <3> QED
      BY <3>1, <3>2
  <2>3. IoTypeOK'
    BY DEF TypeOK, IoTypeOK
  <2>4. PositionsOK'
    <3>1. CASE call[c] = "start"
      BY <3>1 DEF TypeOK, ManagerTypeOK, ConsumersTypeOK, PositionsOK, Calls,
            None
    <3>2. CASE ~(call[c] = "start")
      BY <3>2 DEF TypeOK, ManagerTypeOK, ConsumersTypeOK, PositionsOK, Calls,
            None
    <3> QED
      BY <3>1, <3>2
  <2> QED
    BY <2>1, <2>2, <2>3, <2>4 DEF TypeOK
<1>2. HolderAlone'
  BY DEF HolderAlone, TypeOK, ManagerTypeOK, ConsumersTypeOK, PositionsOK
<1>3. Sharing'
  BY DEF Sharing, HolderAlone, Calls, TypeOK, ManagerTypeOK, ConsumersTypeOK,
        PositionsOK
<1>4. Members'
  BY DEF Members, HolderAlone, Calls, TypeOK, ManagerTypeOK, ConsumersTypeOK,
        PositionsOK
<1>5. Calls'
  BY DEF Calls, TypeOK, ManagerTypeOK, ConsumersTypeOK, PositionsOK
<1>6. Dangling'
  BY DEF Dangling, Calls, TypeOK, ConsumersTypeOK, PositionsOK
<1>7. Incoming'
  BY DEF Incoming
<1>8. InfoIsValid'
  BY DEF InfoIsValid
<1> QED
  BY <1>1, <1>2, <1>3, <1>4, <1>5, <1>6, <1>7, <1>8

\* The reader delivers messages to consumers whose info is in use.
LEMMA ReadPreserves ==
    ASSUME IInv, (\E d \in Destinations : ReadMessage(d)) \/ Deliver
    PROVE  IInv'
<1> USE DestinationAssumption, NoneAssumption
    DEF IInv, Deliver, ReadMessage, managerVars, consumerVars
<1>1. TypeOK'
  <2>1. ManagerTypeOK'
    BY DEF TypeOK, ManagerTypeOK, ConsumersTypeOK, PositionsOK, HolderAlone
  <2>2. ConsumersTypeOK'
    BY DEF TypeOK, ConsumersTypeOK
  <2>3. IoTypeOK'
    BY DEF TypeOK, IoTypeOK
  <2>4. PositionsOK'
    BY DEF TypeOK, ManagerTypeOK, ConsumersTypeOK, PositionsOK, Calls
  <2> QED
    BY <2>1, <2>2, <2>3, <2>4 DEF TypeOK
<1>2. HolderAlone'
  BY DEF HolderAlone, TypeOK, ManagerTypeOK, ConsumersTypeOK, PositionsOK
<1>3. Sharing'
  BY DEF Sharing
<1>4. Members'
  BY DEF Members, HolderAlone, Calls, TypeOK, ManagerTypeOK, ConsumersTypeOK,
        PositionsOK
<1>5. Calls'
  BY DEF Calls, TypeOK, ManagerTypeOK, ConsumersTypeOK, PositionsOK
<1>6. Dangling'
  BY DEF Dangling, Calls, TypeOK, ConsumersTypeOK, PositionsOK
<1>7. Incoming'
  BY DEF Incoming
<1>8. InfoIsValid'
  BY DEF InfoIsValid, Members, Incoming
<1> QED
  BY <1>1, <1>2, <1>3, <1>4, <1>5, <1>6, <1>7, <1>8

\* Reader, Owner and connection only end what was working.
LEMMA IoPreserves ==
    ASSUME IInv, ReadError \/ CloseByError \/ ReaderEnds \/ CloseConnector \/
          Disconnect \/ ConnectorClosed \/ ConnectionBreaks
    PROVE  IInv'
<1> USE DestinationAssumption, NoneAssumption
    DEF IInv, ReadError, CloseByError, ReaderEnds, CloseConnector, Disconnect,
          ConnectorClosed, ConnectionBreaks, managerVars, consumerVars
<1>1. TypeOK'
  <2>1. ManagerTypeOK'
    BY DEF TypeOK, ManagerTypeOK, ConsumersTypeOK, PositionsOK, HolderAlone
  <2>2. ConsumersTypeOK'
    BY DEF TypeOK, ConsumersTypeOK
  <2>3. IoTypeOK'
    BY DEF TypeOK, IoTypeOK
  <2>4. PositionsOK'
    BY DEF TypeOK, ManagerTypeOK, ConsumersTypeOK, PositionsOK, Calls
  <2> QED
    BY <2>1, <2>2, <2>3, <2>4 DEF TypeOK
<1>2. HolderAlone'
  BY DEF HolderAlone, TypeOK, ManagerTypeOK, ConsumersTypeOK, PositionsOK
<1>3. Sharing'
  <2>1. UNCHANGED <<subscribed, entry, mutex>> /\ (io' => io)
    BY DEF TypeOK, IoTypeOK
  <2> QED
    BY <2>1 DEF Sharing
<1>4. Members'
  BY DEF Members, HolderAlone, Calls, TypeOK, ManagerTypeOK, ConsumersTypeOK,
        PositionsOK
<1>5. Calls'
  BY DEF Calls, TypeOK, ManagerTypeOK, ConsumersTypeOK, PositionsOK
<1>6. Dangling'
  BY DEF Dangling, Calls, TypeOK, ConsumersTypeOK, PositionsOK
<1>7. Incoming'
  BY DEF Incoming
<1>8. InfoIsValid'
  BY DEF InfoIsValid
<1> QED
  BY <1>1, <1>2, <1>3, <1>4, <1>5, <1>6, <1>7, <1>8

LEMMA StepPreserves == IInv /\ [Next]_vars => IInv'
<1> SUFFICES ASSUME IInv, [Next]_vars PROVE IInv'
  OBVIOUS
<1>1. CASE \E c \in Consumers :
           \/ CreateConsumer(c) \/ Calling(c)
           \/ CloseConsumer(c) \/ CloseSession(c) \/ DeleteConsumer(c)
  BY <1>1, CreatePreserves, EndPreserves, StartPreserves, SubscribePreserves,
     RemovePreserves, UnsubscribePreserves, WritePreserves, ThrowsPreserves
     DEF Calling
<1>2. CASE (\E d \in Destinations : ReadMessage(d)) \/ Deliver
  BY <1>2, ReadPreserves
<1>3. CASE \/ ReadError \/ CloseByError \/ ReaderEnds \/ CloseConnector
           \/ Disconnect \/ ConnectorClosed \/ ConnectionBreaks
  BY <1>3, IoPreserves
<1>4. CASE UNCHANGED vars
  BY <1>4 DEF IInv, TypeOK, ManagerTypeOK, ConsumersTypeOK, IoTypeOK,
        PositionsOK,
     HolderAlone, Sharing, Members, Calls, Dangling, Incoming, InfoIsValid,
     vars, managerVars, consumerVars, ioVars
<1> QED
  BY <1>1, <1>2, <1>3, <1>4 DEF Next

LEMMA Inductive == Spec => []IInv
BY InitEstablishes, StepPreserves, PTL DEF Spec
-----------------------------------------------------------------------------
\* The variables have their types; a thread holds the manager's mutex exactly
\* where startConsumer and removeConsumer write, close or join.
THEOREM TypeCorrect == Spec => []TypeOK
<1>1. IInv => TypeOK
  BY DEF IInv
<1> QED
  BY <1>1, Inductive, PTL

\* In whatever order consumers of a destination come and go, startConsumer and
\* removeConsumer keep it subscribed to exactly while it has consumers, as long
\* as commands can be written.
THEOREM SubscribedExactly == Spec => []SubscribedWhileUsed
<1>1. IInv => SubscribedWhileUsed
  BY NoneAssumption DEF IInv, Sharing, SubscribedWhileUsed
<1> QED
  BY <1>1, Inductive, PTL

\* onStompCommand, ActiveMQConsumer and ActiveMQSession meet no ConsumerInfo
\* that closeResource has deleted, unless an unsubscription could not be
\* written.
THEOREM NoDeletedInfo == Spec => []InfoIsValid
<1>1. IInv => InfoIsValid
  BY DEF IInv
<1> QED
  BY <1>1, Inductive, PTL
=============================================================================
