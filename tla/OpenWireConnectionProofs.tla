----------------------- MODULE OpenWireConnectionProofs -----------------------
(***************************************************************************)
(* Safety of a connection for any number of users and any wire format      *)
(* versions: the agreed format, and the end of the reader before the       *)
(* connector it calls.  In the second half, safety of the windows of any   *)
(* number of producers on such a connection (ProducerWindow, of which      *)
(* Window is an instance): no behaviour is meant to be of both modules, so *)
(* a variable that both declare stands for the one or for the other.       *)
(***************************************************************************)
EXTENDS OpenWireConnection, Sequences, SequenceTheorems, WellFoundedInduction, TLAPS

CONSTANTS Producers, Messages, Limit, Bodies, Props, MaxInFlight
VARIABLES map, life, usage, message, stale, io, link, flight, exact

Window == INSTANCE ProducerWindow
-----------------------------------------------------------------------------
\* The owner sends nothing between its stages, and nobody else sends before
\* the application has been given the connection.
Alone ==
    /\ startFailed \/ stage \in {"new", "starting", "opening", "connecting", "tagging"}
         => \A u \in Users : at[u] = "idle"
    /\ startFailed => stage \notin {"opening", "connecting", "tagging", "given"}
    /\ stage \in {"new", "opening", "tagging", "given", "closing", "deleting", "gone"}
         => at[Owner] = "idle"
    /\ stage = "starting" => at[Owner] = "writing"

\* Until our info has been written.
Starting ==
    /\ stage \in {"new", "starting"} => ~infoSent /\ ~startFailed
    /\ stage = "new" => ~ioClosed /\ reader = "none"
    /\ stage = "starting" /\ reader = "renegotiating" => gaveUp

\* What stands behind the ready latch: a failure, a bad magic, or a format
\* that has been negotiated once and does not change any more.
Negotiated ==
    /\ reader \in {"awaitSent", "renegotiating"} => ~ready /\ info # 0
    /\ reader \in {"badTest", "badSet"} => info # 0
    /\ info = 0 /\ reader \notin {"failTest", "failSet", "dead"} => ~ready
    /\ ready => \/ refused
                \/ info # 0 /\ version = Lesser(Preferred, info)

\* What a thread marshals with, and when.
Writers ==
    \A t \in Threads : writing[t] # 0 =>
        /\ stage = "starting" \/ ready
        /\ writing[t] = version \/ (gaveUp /\ stage = "starting")

\* The threads that close the transport, and the reader they join: when none
\* of them is there to do so, one was when the connector was deleted.
Joins ==
    /\ closed => ioClosed \/ startFailed \/ stage \in {"new", "starting", "opening"}
    /\ ioClosed => reader = "dead" \/ unjoined \/ \E t \in Threads : at[t] = "joining"
    /\ \A t \in Threads : at[t] = "joining" => ioClosed
    /\ \A s, t \in Threads : at[s] = "joining" /\ at[t] = "joining" => s = t \/ raced

\* When the owner comes to delete the connector the transport is closed, by
\* itself or by a user, so that the reader is gone or a user is joining it.
Ending ==
    /\ state = "disconnected" /\ stage \in {"connecting", "tagging", "given", "closing"}
         => startFailed
    /\ stage = "hangup" /\ at[Owner] = "idle" => ioClosed \/ startFailed
    /\ stage = "deleting" => ioClosed \/ startFailed
    /\ stage \in {"dropping", "gone"} => reader = "dead" \/ startFailed \/ unjoined
    /\ deleted => stage \in {"dropping", "gone"}

IInv == /\ TypeOK /\ Alone /\ Starting /\ Negotiated /\ Writers /\ Joins /\ Ending
        /\ NoUseOfDeleted
-----------------------------------------------------------------------------
LEMMA InitEstablishes == Init => IInv
<1> SUFFICES ASSUME Init PROVE IInv
  OBVIOUS
<1> USE OwnerAssumption, VersionAssumption DEF Init, Threads
<1>1. TypeOK
  BY DEF TypeOK, ConnectorTypeOK, ThreadsTypeOK, IoTypeOK, HistoryTypeOK
<1>2. Alone /\ Starting /\ Negotiated /\ Writers /\ Joins /\ Ending /\ NoUseOfDeleted
  BY DEF Alone, Starting, Negotiated, Writers, Joins, Ending, NoUseOfDeleted
<1> QED
  BY <1>1, <1>2 DEF IInv

\* A command on its way through the negotiator and back.
LEMMA SendPreserves ==
    ASSUME IInv, NEW t \in Threads,
           \/ ReadyOpens(t) \/ ReadyTimesOut(t) \/ Written(t) \/ WriteFails(t)
           \/ Answered(t) \/ Unanswered(t) \/ NotAnswered(t)
    PROVE  IInv'
<1> USE OwnerAssumption DEF IInv, TypeOK, ReadyOpens, ReadyTimesOut, Written, WriteFails, Answered, Unanswered,
        NotAnswered, Goto, Threads,
        connectorVars, threadVars, ioVars, historyVars
<1>1. TypeOK'
  <2>1. version \in Supported /\ version # 0
    BY VersionAssumption DEF ConnectorTypeOK
  <2>2. ConnectorTypeOK'
    BY <2>1 DEF ConnectorTypeOK
  <2>3. ThreadsTypeOK'
    BY <2>1 DEF ThreadsTypeOK, Alone
  <2>4. IoTypeOK'
    BY <2>1 DEF IoTypeOK
  <2>5. HistoryTypeOK'
    BY <2>1 DEF HistoryTypeOK, ConnectorTypeOK, IoTypeOK
  <2> QED
    BY <2>2, <2>3, <2>4, <2>5
<1>2. Alone'
  BY DEF Alone, ThreadsTypeOK
<1>3. Starting'
  BY DEF Starting, ThreadsTypeOK, Alone
<1>4. Negotiated'
  BY DEF Negotiated, ConnectorTypeOK, IoTypeOK, Starting
<1>5. Writers'
  BY DEF Writers, ThreadsTypeOK, Alone, Starting, Negotiated
<1>6. Joins'
  BY DEF Joins, ThreadsTypeOK, Alone, Starting
<1>7. Ending'
  BY DEF Ending, ThreadsTypeOK, Alone, Starting, Joins
<1>8. NoUseOfDeleted'
  BY DEF NoUseOfDeleted, Starting, Joins, Ending
<1> QED
  BY <1>1, <1>2, <1>3, <1>4, <1>5, <1>6, <1>7, <1>8

\* A thread closes the transport.
LEMMA ClosePreserves ==
    ASSUME IInv, NEW t \in Threads,
           CloseTransport(t) \/ CloseStreams(t) \/ Joined(t)
    PROVE  IInv'
<1> USE OwnerAssumption DEF IInv, TypeOK, CloseTransport, CloseStreams, Joined, Goto, Threads,
        connectorVars, threadVars, ioVars, historyVars
<1>1. TypeOK'
  <2>1. version \in Supported /\ version # 0
    BY VersionAssumption DEF ConnectorTypeOK
  <2>2. ConnectorTypeOK'
    BY <2>1 DEF ConnectorTypeOK
  <2>3. ThreadsTypeOK'
    BY <2>1 DEF ThreadsTypeOK, Alone
  <2>4. IoTypeOK'
    BY <2>1 DEF IoTypeOK
  <2>5. HistoryTypeOK'
    BY <2>1 DEF HistoryTypeOK, ConnectorTypeOK, IoTypeOK
  <2> QED
    BY <2>2, <2>3, <2>4, <2>5
<1>2. Alone'
  BY DEF Alone, ThreadsTypeOK
<1>3. Starting'
  BY DEF Starting, ThreadsTypeOK, Alone
<1>4. Negotiated'
  BY DEF Negotiated, ConnectorTypeOK, IoTypeOK, Starting
<1>5. Writers'
  BY DEF Writers, ThreadsTypeOK, Alone, Starting, Negotiated
<1>6. Joins'
  <2>1. CASE CloseTransport(t)
    BY <2>1 DEF Joins, ThreadsTypeOK, IoTypeOK, ConnectorTypeOK, HistoryTypeOK, Alone, Starting
  <2>2. CASE CloseStreams(t)
    BY <2>2 DEF Joins, ThreadsTypeOK, IoTypeOK, ConnectorTypeOK, HistoryTypeOK, Alone, Starting
  <2>3. CASE Joined(t)
    BY <2>3 DEF Joins, ThreadsTypeOK, IoTypeOK, ConnectorTypeOK, HistoryTypeOK, Alone, Starting
  <2> QED
    BY <2>1, <2>2, <2>3
<1>7. Ending'
  BY DEF Ending, ThreadsTypeOK, Alone, Starting, Joins
<1>8. NoUseOfDeleted'
  BY DEF NoUseOfDeleted, Starting, Joins, Ending
<1> QED
  BY <1>1, <1>2, <1>3, <1>4, <1>5, <1>6, <1>7, <1>8

\* A user begins and ends a send, the latter also on a deleted connector.
LEMMA UserPreserves ==
    ASSUME IInv, NEW u \in Users,
           Send(u) \/ Enforced(u) \/ Sent(u) \/ UserUsesDeleted(u)
    PROVE  IInv'
<1> USE OwnerAssumption DEF IInv, TypeOK, Send, Enforced, Sent, UserUsesDeleted, Enter, Goto,
        Threads,
        connectorVars, threadVars, ioVars, historyVars
<1>1. TypeOK'
  <2>1. version \in Supported /\ version # 0
    BY VersionAssumption DEF ConnectorTypeOK
  <2>2. ConnectorTypeOK'
    BY <2>1 DEF ConnectorTypeOK
  <2>3. ThreadsTypeOK'
    BY <2>1 DEF ThreadsTypeOK, Alone
  <2>4. IoTypeOK'
    BY <2>1 DEF IoTypeOK
  <2>5. HistoryTypeOK'
    BY <2>1 DEF HistoryTypeOK, ConnectorTypeOK, IoTypeOK
  <2> QED
    BY <2>2, <2>3, <2>4, <2>5
<1>2. Alone'
  BY DEF Alone, ThreadsTypeOK
<1>3. Starting'
  BY DEF Starting, ThreadsTypeOK, Alone
<1>4. Negotiated'
  BY DEF Negotiated, ConnectorTypeOK, IoTypeOK, Starting
<1>5. Writers'
  BY DEF Writers, ThreadsTypeOK, Alone, Starting, Negotiated
<1>6. Joins'
  <2>1. CASE Send(u) \/ Enforced(u) \/ Sent(u)
    <3>1. \A t \in Threads : at'[t] = "joining" <=> at[t] = "joining"
      BY <2>1 DEF ThreadsTypeOK
    <3> QED
      BY <2>1, <3>1 DEF Joins
  <2>2. CASE UserUsesDeleted(u)
    <3>1. reader = "dead" \/ unjoined
      BY <2>2 DEF Ending, Alone
    <3>2. \A t \in Threads : at'[t] = "joining" => at[t] = "joining"
      BY <2>2 DEF ThreadsTypeOK
    <3> QED
      BY <2>2, <3>1, <3>2 DEF Joins
  <2> QED
    BY <2>1, <2>2
<1>7. Ending'
  BY DEF Ending, ThreadsTypeOK, Alone, Starting, Joins
<1>8. NoUseOfDeleted'
  BY DEF NoUseOfDeleted, Starting, Joins, Ending
<1> QED
  BY <1>1, <1>2, <1>3, <1>4, <1>5, <1>6, <1>7, <1>8

\* The transport is started, our info written, and connect begun.
LEMMA StartPreserves ==
    ASSUME IInv, StartTransport \/ (\E fails \in BOOLEAN : InfoWritten(fails)) \/ Connect
    PROVE  IInv'
<1> USE OwnerAssumption DEF IInv, TypeOK, StartTransport, InfoWritten, Connect, Goto, Threads,
        connectorVars, threadVars, ioVars, historyVars
<1>1. TypeOK'
  <2>1. version \in Supported /\ version # 0
    BY VersionAssumption DEF ConnectorTypeOK
  <2>2. ConnectorTypeOK'
    BY <2>1 DEF ConnectorTypeOK
  <2>3. ThreadsTypeOK'
    BY <2>1 DEF ThreadsTypeOK, Alone
  <2>4. IoTypeOK'
    BY <2>1 DEF IoTypeOK
  <2>5. HistoryTypeOK'
    BY <2>1 DEF HistoryTypeOK, ConnectorTypeOK, IoTypeOK
  <2> QED
    BY <2>2, <2>3, <2>4, <2>5
<1>2. Alone'
  BY DEF Alone, ThreadsTypeOK
<1>3. Starting'
  BY DEF Starting, ThreadsTypeOK, Alone
<1>4. Negotiated'
  BY DEF Negotiated, ConnectorTypeOK, IoTypeOK, Starting
<1>5. Writers'
  BY DEF Writers, ThreadsTypeOK, Alone, Starting, Negotiated
<1>6. Joins'
  BY DEF Joins, ThreadsTypeOK, Alone, Starting
<1>7. Ending'
  BY DEF Ending, ThreadsTypeOK, Alone, Starting, Joins
<1>8. NoUseOfDeleted'
  BY DEF NoUseOfDeleted, Starting, Joins, Ending
<1> QED
  BY <1>1, <1>2, <1>3, <1>4, <1>5, <1>6, <1>7, <1>8

\* The connection is given to the application and taken back.
LEMMA GivenPreserves ==
    ASSUME IInv, Connected \/ Tag \/ CloseConnection
    PROVE  IInv'
<1> USE OwnerAssumption DEF IInv, TypeOK, Connected, Tag, CloseConnection, Goto, Threads,
        connectorVars, threadVars, ioVars, historyVars
<1>1. TypeOK'
  <2>1. version \in Supported /\ version # 0
    BY VersionAssumption DEF ConnectorTypeOK
  <2>2. ConnectorTypeOK'
    BY <2>1 DEF ConnectorTypeOK
  <2>3. ThreadsTypeOK'
    BY <2>1 DEF ThreadsTypeOK, Alone
  <2>4. IoTypeOK'
    BY <2>1 DEF IoTypeOK
  <2>5. HistoryTypeOK'
    BY <2>1 DEF HistoryTypeOK, ConnectorTypeOK, IoTypeOK
  <2> QED
    BY <2>2, <2>3, <2>4, <2>5
<1>2. Alone'
  BY DEF Alone, ThreadsTypeOK
<1>3. Starting'
  BY DEF Starting, ThreadsTypeOK, Alone
<1>4. Negotiated'
  BY DEF Negotiated, ConnectorTypeOK, IoTypeOK, Starting
<1>5. Writers'
  BY DEF Writers, ThreadsTypeOK, Alone, Starting, Negotiated
<1>6. Joins'
  BY DEF Joins, ThreadsTypeOK, Alone, Starting
<1>7. Ending'
  BY DEF Ending, ThreadsTypeOK, Alone, Starting, Joins
<1>8. NoUseOfDeleted'
  BY DEF NoUseOfDeleted, Starting, Joins, Ending
<1> QED
  BY <1>1, <1>2, <1>3, <1>4, <1>5, <1>6, <1>7, <1>8

\* The connector disconnects, closes its transport and is deleted.
LEMMA EndPreserves ==
    ASSUME IInv, OwnerCloses
    PROVE  IInv'
<1> USE OwnerAssumption DEF IInv, TypeOK, OwnerCloses, Disconnect, Disposed, HangUp, HungUp,
        Delete, Dropped, Enter, Goto, Threads, connectorVars, threadVars, ioVars, historyVars
<1>1. TypeOK'
  <2>1. version \in Supported /\ version # 0
    BY VersionAssumption DEF ConnectorTypeOK
  <2>2. ConnectorTypeOK'
    BY <2>1 DEF ConnectorTypeOK
  <2>3. ThreadsTypeOK'
    BY <2>1 DEF ThreadsTypeOK, Alone
  <2>4. IoTypeOK'
    BY <2>1 DEF IoTypeOK
  <2>5. HistoryTypeOK'
    BY <2>1 DEF HistoryTypeOK, ConnectorTypeOK, IoTypeOK
  <2> QED
    BY <2>2, <2>3, <2>4, <2>5
<1>2. Alone'
  BY DEF Alone, ThreadsTypeOK
<1>3. Starting'
  BY DEF Starting, ThreadsTypeOK, Alone
<1>4. Negotiated'
  BY DEF Negotiated, ConnectorTypeOK, IoTypeOK, Starting
<1>5. Writers'
  BY DEF Writers, ThreadsTypeOK, Alone, Starting, Negotiated
<1>6. Joins'
  <2>1. \A t \in Threads : at'[t] = "joining" <=> at[t] = "joining"
    <3>1. at' # at => at[Owner] # "joining"
      BY DEF Alone
    <3>2. at' = at \/ (at' = [at EXCEPT ![Owner] = at'[Owner]] /\ at'[Owner] # "joining")
      <4>1. CASE Disconnect
        BY <4>1 DEF ThreadsTypeOK
      <4>2. CASE Disposed
        BY <4>2 DEF ThreadsTypeOK
      <4>3. CASE HangUp
        BY <4>3 DEF ThreadsTypeOK
      <4>4. CASE HungUp
        BY <4>4 DEF ThreadsTypeOK
      <4>5. CASE Delete
        BY <4>5 DEF ThreadsTypeOK
      <4>6. CASE Dropped
        BY <4>6 DEF ThreadsTypeOK
      <4> QED
        BY <4>1, <4>2, <4>3, <4>4, <4>5, <4>6
    <3> QED
      BY <3>1, <3>2 DEF ThreadsTypeOK
  <2>2. UNCHANGED <<closed, ioClosed, reader, raced, startFailed>>
    OBVIOUS
  <2>4. unjoined => unjoined'
    <3>1. CASE Delete
      BY <3>1, Zenon
    <3>2. CASE ~Delete
      BY <3>2, Zenon
    <3> QED
      BY <3>1, <3>2
  <2>3. stage' \in {"new", "starting", "opening"} <=> stage \in {"new", "starting", "opening"}
    OBVIOUS
  <2> QED
    BY <2>1, <2>2, <2>3, <2>4 DEF Joins
<1>7. Ending'
  <2>1. CASE Disconnect
    BY <2>1 DEF Ending, ThreadsTypeOK, Alone
  <2>2. CASE Disposed \/ HangUp
    <3>1. /\ stage \in {"disposing", "shutting"} /\ stage' \in {"shutting", "hangup"}
          /\ stage' = "hangup" => at'[Owner] = "failed"
          /\ ~deleted /\ deleted' = deleted
      BY <2>2 DEF Ending, ThreadsTypeOK
    <3> QED
      BY <3>1 DEF Ending
  <2>3. CASE HungUp
    BY <2>3 DEF Ending
  <2>4. CASE Delete
    <3>1. ioClosed => reader = "dead" \/ unjoined'
      <4>1. at[Owner] # "joining"
        BY <2>4 DEF Alone
      <4> QED
        BY <2>4, <4>1 DEF Joins
    <3>2. ioClosed \/ startFailed
      BY <2>4 DEF Ending
    <3>3. UNCHANGED <<reader, startFailed>> /\ stage' = "dropping"
      BY <2>4
    <3> QED
      BY <3>1, <3>2, <3>3 DEF Ending
  <2>5. CASE Dropped
    BY <2>5 DEF Ending
  <2> QED
    BY <2>1, <2>2, <2>3, <2>4, <2>5
<1>8. NoUseOfDeleted'
  BY DEF NoUseOfDeleted, Starting, Joins, Ending
<1> QED
  BY <1>1, <1>2, <1>3, <1>4, <1>5, <1>6, <1>7, <1>8

\* The reader negotiates the format.
LEMMA ReadPreserves ==
    ASSUME IInv, \/ ReaderLoops \/ AwaitsSent \/ Renegotiate \/ Terminate
           \/ \E v \in BrokerVersions : ReadsInfo(v) \/ ReadsBadInfo(v)
    PROVE  IInv'
<1> USE OwnerAssumption DEF IInv, TypeOK, ReaderLoops, AwaitsSent, Renegotiate, Terminate,
        ReadsInfo, ReadsBadInfo, Goto, Threads,
        connectorVars, threadVars, ioVars, historyVars
<1>1. TypeOK'
  <2>1. version \in Supported /\ version # 0
    BY VersionAssumption DEF ConnectorTypeOK
  <2>2. ConnectorTypeOK'
    BY <2>1 DEF ConnectorTypeOK, IoTypeOK, Negotiated, Lesser
  <2>3. ThreadsTypeOK'
    BY <2>1 DEF ThreadsTypeOK, Alone
  <2>4. IoTypeOK'
    BY <2>1 DEF IoTypeOK
  <2>5. HistoryTypeOK'
    BY <2>1 DEF HistoryTypeOK, ConnectorTypeOK, IoTypeOK
  <2> QED
    BY <2>2, <2>3, <2>4, <2>5
<1>2. Alone'
  BY DEF Alone, ThreadsTypeOK
<1>3. Starting'
  <2>1. CASE ReaderLoops
    BY <2>1, VersionAssumption DEF Starting, ThreadsTypeOK, HistoryTypeOK, Alone, ConnectorTypeOK
  <2>2. CASE AwaitsSent
    BY <2>2, VersionAssumption DEF Starting, ThreadsTypeOK, HistoryTypeOK, Alone, ConnectorTypeOK
  <2>3. CASE Renegotiate
    BY <2>3, VersionAssumption DEF Starting, ThreadsTypeOK, HistoryTypeOK, Alone, ConnectorTypeOK
  <2>4. CASE \E v \in BrokerVersions : ReadsInfo(v) \/ ReadsBadInfo(v)
    BY <2>4, VersionAssumption DEF Starting, ThreadsTypeOK, HistoryTypeOK, Alone, ConnectorTypeOK
  <2>5. CASE Terminate
    BY <2>5 DEF Starting, ThreadsTypeOK, HistoryTypeOK, Alone, ConnectorTypeOK
  <2> QED
    BY <2>1, <2>2, <2>3, <2>4, <2>5
<1>4. Negotiated'
  <2>1. CASE ReaderLoops
    BY <2>1, VersionAssumption DEF Negotiated, ConnectorTypeOK, IoTypeOK, HistoryTypeOK
  <2>2. CASE AwaitsSent
    BY <2>2, VersionAssumption DEF Negotiated, ConnectorTypeOK, IoTypeOK, HistoryTypeOK
  <2>3. CASE Renegotiate
    BY <2>3, VersionAssumption DEF Negotiated, ConnectorTypeOK, IoTypeOK, HistoryTypeOK
  <2>4. CASE \E v \in BrokerVersions : ReadsInfo(v) \/ ReadsBadInfo(v)
    BY <2>4, VersionAssumption DEF Negotiated, ConnectorTypeOK, IoTypeOK, HistoryTypeOK
  <2>5. CASE Terminate
    BY <2>5 DEF Negotiated, ConnectorTypeOK, IoTypeOK, HistoryTypeOK
  <2> QED
    BY <2>1, <2>2, <2>3, <2>4, <2>5
<1>5. Writers'
  <2>1. CASE ReaderLoops
    BY <2>1, VersionAssumption DEF Writers, ThreadsTypeOK, ConnectorTypeOK, HistoryTypeOK, Alone, Starting, Negotiated
  <2>2. CASE AwaitsSent
    BY <2>2, VersionAssumption DEF Writers, ThreadsTypeOK, ConnectorTypeOK, HistoryTypeOK, Alone, Starting, Negotiated
  <2>3. CASE Renegotiate
    BY <2>3, VersionAssumption DEF Writers, ThreadsTypeOK, ConnectorTypeOK, HistoryTypeOK, Alone, Starting, Negotiated
  <2>4. CASE \E v \in BrokerVersions : ReadsInfo(v) \/ ReadsBadInfo(v)
    BY <2>4, VersionAssumption DEF Writers, ThreadsTypeOK, ConnectorTypeOK, HistoryTypeOK, Alone, Starting, Negotiated
  <2>5. CASE Terminate
    BY <2>5 DEF Writers, ThreadsTypeOK, ConnectorTypeOK, HistoryTypeOK, Alone, Starting, Negotiated
  <2> QED
    BY <2>1, <2>2, <2>3, <2>4, <2>5
<1>6. Joins'
  BY DEF Joins, ThreadsTypeOK, Alone, Starting
<1>7. Ending'
  BY DEF Ending, ThreadsTypeOK, Alone, Starting, Joins
<1>8. NoUseOfDeleted'
  BY DEF NoUseOfDeleted, Starting, Joins, Ending
<1> QED
  BY <1>1, <1>2, <1>3, <1>4, <1>5, <1>6, <1>7, <1>8

\* The reader fails, or the connection under it.
LEMMA FailPreserves ==
    ASSUME IInv, \/ ReadFails \/ TestState \/ SetError \/ ReaderUsesDeleted \/ ConnectionBreaks
    PROVE  IInv'
<1> USE OwnerAssumption DEF IInv, TypeOK, ReadFails, TestState, SetError, ReaderUsesDeleted, ConnectionBreaks, Goto, Threads,
        connectorVars, threadVars, ioVars, historyVars
<1>1. TypeOK'
  <2>1. version \in Supported /\ version # 0
    BY VersionAssumption DEF ConnectorTypeOK
  <2>2. ConnectorTypeOK'
    BY <2>1 DEF ConnectorTypeOK
  <2>3. ThreadsTypeOK'
    BY <2>1 DEF ThreadsTypeOK, Alone
  <2>4. IoTypeOK'
    BY <2>1 DEF IoTypeOK
  <2>5. HistoryTypeOK'
    BY <2>1 DEF HistoryTypeOK, ConnectorTypeOK, IoTypeOK
  <2> QED
    BY <2>2, <2>3, <2>4, <2>5
<1>2. Alone'
  BY DEF Alone, ThreadsTypeOK
<1>3. Starting'
  BY DEF Starting, ThreadsTypeOK, Alone
<1>4. Negotiated'
  BY DEF Negotiated, ConnectorTypeOK, IoTypeOK, Starting
<1>5. Writers'
  BY DEF Writers, ThreadsTypeOK, Alone, Starting, Negotiated
<1>6. Joins'
  BY DEF Joins, ThreadsTypeOK, Alone, Starting
<1>7. Ending'
  BY DEF Ending, ThreadsTypeOK, Alone, Starting, Joins
<1>8. NoUseOfDeleted'
  BY DEF NoUseOfDeleted, Starting, Joins, Ending
<1> QED
  BY <1>1, <1>2, <1>3, <1>4, <1>5, <1>6, <1>7, <1>8

LEMMA StepPreserves == IInv /\ [Next]_vars => IInv'
<1> SUFFICES ASSUME IInv, [Next]_vars PROVE IInv'
  OBVIOUS
<1>1. CASE \E t \in Threads : ThreadProceeds(t) \/ Answered(t) \/ NotAnswered(t)
  BY <1>1, SendPreserves, ClosePreserves DEF ThreadProceeds, Proceeds
<1>2. CASE \E u \in Users : Send(u) \/ Enforced(u) \/ Sent(u) \/ UserUsesDeleted(u)
  BY <1>2, UserPreserves
<1>3. CASE StartTransport \/ (\E fails \in BOOLEAN : InfoWritten(fails)) \/ Connect
  BY <1>3, StartPreserves
<1>4. CASE Connected \/ Tag \/ CloseConnection
  BY <1>4, GivenPreserves
<1>5. CASE OwnerCloses
  BY <1>5, EndPreserves
<1>6. CASE \/ ReaderLoops \/ AwaitsSent \/ Renegotiate \/ Terminate
           \/ \E v \in BrokerVersions : ReadsInfo(v) \/ ReadsBadInfo(v)
  BY <1>6, ReadPreserves
<1>7. CASE ReadFails \/ TestState \/ SetError \/ ReaderUsesDeleted \/ ConnectionBreaks
  BY <1>7, FailPreserves
<1>8. CASE UNCHANGED vars
  BY <1>8 DEF IInv, TypeOK, ConnectorTypeOK, ThreadsTypeOK, IoTypeOK, HistoryTypeOK,
     Alone, Starting, Negotiated, Writers, Joins, Ending, NoUseOfDeleted,
     vars, connectorVars, threadVars, ioVars, historyVars
<1> QED
  BY <1>1, <1>2, <1>3, <1>4, <1>5, <1>6, <1>7, <1>8 DEF Next, ReaderProceeds

LEMMA Inductive == Spec => []IInv
BY InitEstablishes, StepPreserves, PTL DEF Spec
-----------------------------------------------------------------------------
\* The variables have their types, and a thread has a version to marshal with
\* exactly while it writes.
THEOREM TypeCorrect == Spec => []TypeOK
<1>1. IInv => TypeOK
  BY DEF IInv
<1> QED
  BY <1>1, Inductive, PTL

\* Whenever the broker's WireFormatInfo comes, and whatever it says, a command
\* is marshalled with a version both sides understand and that does not change
\* while it is written, but for the failures the property names.
THEOREM FormatIsAgreed == Spec => []AgreedFormat
<1>1. IInv => AgreedFormat
  <2> SUFFICES ASSUME IInv, NEW t \in Threads, writing[t] # 0
               PROVE  /\ writing[t] = version \/ (gaveUp /\ stage = "starting")
                      /\ stage # "starting" =>
                            refused \/ (version <= info /\ version <= Preferred)
    BY DEF AgreedFormat
  <2>1. info \in Nat /\ Preferred \in Nat
    BY VersionAssumption DEF IInv, TypeOK, IoTypeOK
  <2> QED
    BY <2>1 DEF IInv, Writers, Negotiated, Lesser
<1> QED
  BY <1>1, Inductive, PTL

\* Wherever the users are in their sends, on every path out of
\* createConnection and Connection::close but three the reader of IOTransport
\* has ended when the connector it calls is deleted, and its thread is deleted
\* once.
THEOREM ReaderEndsFirst == Spec => []NoUseOfDeleted
<1>1. IInv => NoUseOfDeleted
  BY DEF IInv
<1> QED
  BY <1>1, Inductive, PTL
-----------------------------------------------------------------------------
(* The windows.  First what Sum, a fold, is: it is defined by a function on
   the subsets of the indices, which exists and is unique for every length. *)

\* Induction over the natural numbers, for a set of them.
LEMMA NatSet ==
    ASSUME NEW S \in SUBSET Nat, 0 \in S, \A n \in S : n + 1 \in S
    PROVE  S = Nat
<1> SUFFICES ASSUME Nat \ S # {} PROVE FALSE
  OBVIOUS
<1>0. \A n \in S : n + 1 \in S
  OBVIOUS
<1> DEFINE T == Nat \ S
<1>1. PICK m \in T : \A y \in T : ~(<<y, m>> \in OpToRel(<, Nat))
  <2>1. T \subseteq Nat /\ T # {}
    OBVIOUS
  <2> HIDE DEF T
  <2> QED
    BY <2>1, NatLessThanWellFounded, WFMin
<1>2. m # 0 /\ m - 1 \in Nat /\ m - 1 < m
  OBVIOUS
<1>3. <<m - 1, m>> \in OpToRel(<, Nat)
  BY <1>2 DEF OpToRel
<1>4. m - 1 \in S
  BY <1>1, <1>2, <1>3, Zenon
<1>5. (m - 1) + 1 \in S
  BY <1>0, <1>4, Zenon
<1>6. (m - 1) + 1 = m
  OBVIOUS
<1> QED
  BY <1>1, <1>5, <1>6, Zenon

\* The equation FoldLeft solves to add the first n numbers of seq.
IsFold(iter, seq, n) ==
    iter = [s \in SUBSET (1..n) |->
              IF s = {} THEN 0
              ELSE iter[s \ {Window!Max(s)}] + seq[Window!Max(s)]]

\* Sum is a solution of it, if there is one.
LEMMA SumIs ==
    ASSUME NEW seq \in Seq(Nat)
    PROVE  Window!Sum(seq) = (CHOOSE iter : IsFold(iter, seq, Len(seq)))[1..Len(seq)]
<1>1. DOMAIN seq = 1..Len(seq)
  OBVIOUS
<1> QED
  BY <1>1, Zenon DEF Window!Sum, Window!FoldLeft, Window!MapThenFoldSet, IsFold

\* A non-empty set of indices has a largest one.
LEMMA MaxIs ==
    ASSUME NEW n \in Nat, NEW s \in SUBSET (1..n), s # {}
    PROVE  Window!Max(s) \in s /\ \A y \in s : y <= Window!Max(s)
<1> DEFINE Has(k) == \A t \in SUBSET (1..k) :
                        t # {} => \E x \in t : \A y \in t : x >= y
           S == {k \in Nat : Has(k)}
<1>1. Has(0)
  <2>1. \A t \in SUBSET (1..0) : t = {}
    OBVIOUS
  <2> QED
    BY <2>1, Zenon
<1>2. ASSUME NEW k \in Nat, Has(k) PROVE Has(k + 1)
  <2> SUFFICES ASSUME NEW t \in SUBSET (1..(k + 1)), t # {}
               PROVE  \E x \in t : \A y \in t : x >= y
    OBVIOUS
  <2>1. CASE k + 1 \in t
    BY <2>1
  <2>2. CASE k + 1 \notin t
    <3>1. t \in SUBSET (1..k)
      BY <2>2
    <3> QED
      BY <1>2, <3>1
  <2> QED
    BY <2>1, <2>2
<1>3. S = Nat
  <2> HIDE DEF Has
  <2>1. 0 \in S /\ \A k \in S : k + 1 \in S
    BY <1>1, <1>2
  <2> QED
    BY <2>1, NatSet
<1>4. Has(n)
  <2> HIDE DEF Has
  <2> QED
    BY <1>3
<1>5. \E x \in s : \A y \in s : x >= y
  BY <1>4
<1>6. Window!Max(s) \in s /\ \A y \in s : Window!Max(s) >= y
  BY <1>5 DEF Window!Max
<1> QED
  BY <1>6

\* There is a solution: each index extends the one below it.
LEMMA FoldExists ==
    ASSUME NEW seq \in Seq(Nat)
    PROVE  \E iter \in [SUBSET (1..Len(seq)) -> Nat] : IsFold(iter, seq, Len(seq))
<1> DEFINE Has(k) == k <= Len(seq) =>
                        \E iter \in [SUBSET (1..k) -> Nat] : IsFold(iter, seq, k)
           S == {k \in Nat : Has(k)}
<1>1. Has(0)
  <2> DEFINE f == [s \in SUBSET (1..0) |-> 0]
  <2>1. f \in [SUBSET (1..0) -> Nat]
    OBVIOUS
  <2>2. \A s \in SUBSET (1..0) : s = {}
    OBVIOUS
  <2>3. IsFold(f, seq, 0)
    BY <2>2 DEF IsFold
  <2> QED
    BY <2>1, <2>3
<1>2. ASSUME NEW k \in Nat, Has(k) PROVE Has(k + 1)
  <2> SUFFICES ASSUME k + 1 <= Len(seq)
               PROVE  \E iter \in [SUBSET (1..(k + 1)) -> Nat] : IsFold(iter, seq, k + 1)
    OBVIOUS
  <2>1. PICK g \in [SUBSET (1..k) -> Nat] : IsFold(g, seq, k)
    <3>1. k <= Len(seq)
      OBVIOUS
    <3> QED
      BY <1>2, <3>1, Zenon
  <2> DEFINE f == [s \in SUBSET (1..(k + 1)) |->
                      IF k + 1 \in s THEN g[s \ {k + 1}] + seq[k + 1] ELSE g[s]]
  <2>2. \A s \in SUBSET (1..(k + 1)) : s \ {k + 1} \in SUBSET (1..k)
    OBVIOUS
  <2>3. \A s \in SUBSET (1..(k + 1)) : k + 1 \notin s => s \in SUBSET (1..k)
    OBVIOUS
  <2>4. seq[k + 1] \in Nat
    OBVIOUS
  <2>5. f \in [SUBSET (1..(k + 1)) -> Nat]
    BY <2>2, <2>3, <2>4
  <2>f. \A s \in SUBSET (1..(k + 1)) :
           f[s] = IF k + 1 \in s THEN g[s \ {k + 1}] + seq[k + 1] ELSE g[s]
    OBVIOUS
  <2>d. f = [s \in SUBSET (1..(k + 1)) |-> f[s]]
    OBVIOUS
  <2> HIDE DEF f
  <2>6. ASSUME NEW s \in SUBSET (1..(k + 1))
        PROVE  f[s] = IF s = {} THEN 0 ELSE f[s \ {Window!Max(s)}] + seq[Window!Max(s)]
    <3>1. CASE k + 1 \in s
      <4>1. Window!Max(s) \in s /\ \A y \in s : y <= Window!Max(s)
        <5>1. k + 1 \in Nat /\ s # {}
          BY <3>1
        <5> QED
          BY <5>1, MaxIs
      <4>2. Window!Max(s) = k + 1
        <5>1. Window!Max(s) \in 1..(k + 1) /\ k + 1 <= Window!Max(s)
          BY <3>1, <4>1
        <5> QED
          BY <5>1
      <4>3. s \ {k + 1} \in SUBSET (1..(k + 1)) /\ k + 1 \notin s \ {k + 1}
        OBVIOUS
      <4>4. f[s \ {k + 1}] = g[s \ {k + 1}]
        BY <2>f, <4>3
      <4> QED
        BY <2>f, <3>1, <4>2, <4>4
    <3>2. CASE k + 1 \notin s
      <4>1. s \in SUBSET (1..k) /\ f[s] = g[s]
        BY <2>3, <2>f, <3>2
      <4>2. g[s] = IF s = {} THEN 0 ELSE g[s \ {Window!Max(s)}] + seq[Window!Max(s)]
        BY <2>1, <4>1 DEF IsFold
      <4>3. f[s \ {Window!Max(s)}] = g[s \ {Window!Max(s)}]
        <5>1. s \ {Window!Max(s)} \in SUBSET (1..(k + 1)) /\ k + 1 \notin s \ {Window!Max(s)}
          BY <3>2
        <5> QED
          BY <2>f, <5>1
      <4> QED
        BY <4>1, <4>2, <4>3
    <3> QED
      BY <3>1, <3>2
  <2>7. IsFold(f, seq, k + 1)
    BY <2>d, <2>6 DEF IsFold
  <2> QED
    BY <2>5, <2>7
<1>3. S = Nat
  <2> HIDE DEF Has
  <2>1. 0 \in S /\ \A k \in S : k + 1 \in S
    BY <1>1, <1>2
  <2> QED
    BY <2>1, NatSet
<1>4. Has(Len(seq))
  <2> HIDE DEF Has
  <2> QED
    BY <1>3
<1>5. Len(seq) <= Len(seq)
  OBVIOUS
<1> QED
  BY <1>4, <1>5, Zenon

\* Two sequences are the same up to n.
Agree(a, b, n) == \A i \in 1..n : a[i] = b[i]

\* Solutions for such sequences are the same on their common indices.
LEMMA FoldsAgree ==
    ASSUME NEW m \in Nat, NEW n \in Nat, NEW a \in Seq(Nat), NEW b \in Seq(Nat), NEW f, NEW g,
           IsFold(f, a, m), IsFold(g, b, n), m <= n,
           Agree(a, b, m)
    PROVE  \A s \in SUBSET (1..m) : f[s] = g[s]
<1> DEFINE Has(k) == \A s \in SUBSET (1..m) : s \subseteq 1..k => f[s] = g[s]
           S == {k \in Nat : Has(k)}
<1>0. ASSUME NEW s \in SUBSET (1..m)
      PROVE  /\ f[s] = IF s = {} THEN 0 ELSE f[s \ {Window!Max(s)}] + a[Window!Max(s)]
             /\ g[s] = IF s = {} THEN 0 ELSE g[s \ {Window!Max(s)}] + b[Window!Max(s)]
  <2>1. s \in SUBSET (1..n)
    OBVIOUS
  <2>2. f[s] = IF s = {} THEN 0 ELSE f[s \ {Window!Max(s)}] + a[Window!Max(s)]
    BY DEF IsFold
  <2>3. g[s] = IF s = {} THEN 0 ELSE g[s \ {Window!Max(s)}] + b[Window!Max(s)]
    BY <2>1 DEF IsFold
  <2> QED
    BY <2>2, <2>3
<1>1. Has(0)
  <2>1. \A s \in SUBSET (1..m) : s \subseteq 1..0 => s = {}
    OBVIOUS
  <2> QED
    BY <1>0, <2>1
<1>2. ASSUME NEW k \in Nat, Has(k) PROVE Has(k + 1)
  <2> SUFFICES ASSUME NEW s \in SUBSET (1..m), s \subseteq 1..(k + 1) PROVE f[s] = g[s]
    OBVIOUS
  <2>1. CASE s = {}
    BY <1>0, <2>1
  <2>2. CASE s # {}
    <3>1. Window!Max(s) \in s /\ \A y \in s : y <= Window!Max(s)
      BY <2>2, MaxIs
    <3> DEFINE r == s \ {Window!Max(s)}
    <3>2. r \subseteq 1..k
      <4> SUFFICES ASSUME NEW y \in s, y # Window!Max(s) PROVE y \in 1..k
        OBVIOUS
      <4>1. y \in 1..(k + 1) /\ Window!Max(s) \in 1..(k + 1) /\ y <= Window!Max(s)
        BY <3>1
      <4> QED
        BY <4>1
    <3>3. r \in SUBSET (1..m)
      OBVIOUS
    <3>4. f[r] = g[r]
      BY <1>2, <3>2, <3>3
    <3>5. a[Window!Max(s)] = b[Window!Max(s)]
      BY <3>1 DEF Agree
    <3> QED
      BY <1>0, <2>2, <3>4, <3>5
  <2> QED
    BY <2>1, <2>2
<1>3. S = Nat
  <2> HIDE DEF Has
  <2>1. 0 \in S /\ \A k \in S : k + 1 \in S
    BY <1>1, <1>2
  <2> QED
    BY <2>1, NatSet
<1>4. Has(m)
  <2> HIDE DEF Has
  <2> QED
    BY <1>3
<1> QED
  BY <1>4

\* Sum is the solution, at all the indices.
LEMMA SumFold ==
    ASSUME NEW seq \in Seq(Nat)
    PROVE  \E iter \in [SUBSET (1..Len(seq)) -> Nat] :
              IsFold(iter, seq, Len(seq)) /\ Window!Sum(seq) = iter[1..Len(seq)]
<1> DEFINE chosen == CHOOSE iter : IsFold(iter, seq, Len(seq))
<1>1. PICK f \in [SUBSET (1..Len(seq)) -> Nat] : IsFold(f, seq, Len(seq))
  BY FoldExists
<1>2. IsFold(chosen, seq, Len(seq))
  BY <1>1
<1> HIDE DEF chosen
<1>3. f[1..Len(seq)] = chosen[1..Len(seq)]
  <2>1. Agree(seq, seq, Len(seq)) /\ Len(seq) <= Len(seq) /\ Len(seq) \in Nat
    BY DEF Agree
  <2> QED
    BY <1>1, <1>2, <2>1, FoldsAgree
<1> QED
  BY <1>1, <1>3, SumIs DEF chosen

LEMMA SumIsNat == ASSUME NEW seq \in Seq(Nat) PROVE Window!Sum(seq) \in Nat
  BY SumFold

LEMMA SumOfEmpty == Window!Sum(<<>>) = 0
<1>1. <<>> \in Seq(Nat) /\ Len(<<>>) = 0
  OBVIOUS
<1>2. PICK f \in [SUBSET (1..0) -> Nat] : IsFold(f, <<>>, 0) /\ Window!Sum(<<>>) = f[1..0]
  BY <1>1, SumFold
<1> QED
  BY <1>2 DEF IsFold

\* The solution for a longer sequence extends that for the shorter.
LEMMA FoldStep ==
    ASSUME NEW n \in Nat, NEW a \in Seq(Nat), NEW b \in Seq(Nat), NEW f, NEW g,
           IsFold(f, a, n), IsFold(g, b, n + 1), Agree(a, b, n)
    PROVE  f[1..n] = g[1..n]
<1>1. n + 1 \in Nat /\ n <= n + 1
  OBVIOUS
<1>2. \A s \in SUBSET (1..n) : f[s] = g[s]
  BY <1>1, FoldsAgree
<1> QED
  BY <1>2

\* The last number is added last.
LEMMA FoldLast ==
    ASSUME NEW n \in Nat, NEW b, NEW g, IsFold(g, b, n + 1)
    PROVE  g[1..(n + 1)] = g[1..n] + b[n + 1]
<1>1. n + 1 \in Nat /\ 1..(n + 1) # {} /\ n + 1 \in 1..(n + 1)
  OBVIOUS
<1>2. Window!Max(1..(n + 1)) \in 1..(n + 1) /\ \A y \in 1..(n + 1) : y <= Window!Max(1..(n + 1))
  BY <1>1, MaxIs
<1>3. Window!Max(1..(n + 1)) = n + 1
  BY <1>1, <1>2
<1>4. (1..(n + 1)) \ {n + 1} = 1..n
  OBVIOUS
<1> DEFINE all == 1..(n + 1)
<1>5. g[all] = IF all = {} THEN 0 ELSE g[all \ {Window!Max(all)}] + b[Window!Max(all)]
  <2>1. all \in SUBSET (1..(n + 1))
    OBVIOUS
  <2> HIDE DEF all
  <2> QED
    BY <2>1 DEF IsFold
<1> QED
  BY <1>1, <1>3, <1>4, <1>5, Zenon

\* One number more makes the sum larger by this number.
LEMMA SumOfLonger ==
    ASSUME NEW n \in Nat, NEW a \in Seq(Nat), NEW b \in Seq(Nat),
           Len(a) = n, Len(b) = n + 1, Agree(a, b, n)
    PROVE  Window!Sum(b) = Window!Sum(a) + b[n + 1]
<1>1. PICK f \in [SUBSET (1..n) -> Nat] : IsFold(f, a, n) /\ Window!Sum(a) = f[1..n]
  BY SumFold, Zenon
<1>2. PICK g : IsFold(g, b, n + 1) /\ Window!Sum(b) = g[1..(n + 1)]
  <2>1. PICK g \in [SUBSET (1..Len(b)) -> Nat] : IsFold(g, b, Len(b)) /\ Window!Sum(b) = g[1..Len(b)]
    BY SumFold, Zenon
  <2>2. IsFold(g, b, n + 1) /\ Window!Sum(b) = g[1..(n + 1)]
    BY <2>1
  <2> QED
    BY <2>2, Zenon
<1>3. f[1..n] = g[1..n]
  <2>1. IsFold(f, a, n) /\ IsFold(g, b, n + 1)
    BY <1>1, <1>2, Zenon
  <2> QED
    BY <2>1, FoldStep
<1>4. g[1..(n + 1)] = g[1..n] + b[n + 1]
  BY <1>2, FoldLast, Zenon
<1> QED
  BY <1>1, <1>2, <1>3, <1>4, Zenon

\* What Oneway appends is added.
LEMMA SumOfAppend ==
    ASSUME NEW seq \in Seq(Nat), NEW x \in Nat
    PROVE  Window!Sum(Append(seq, x)) = Window!Sum(seq) + x
<1>1. /\ Append(seq, x) \in Seq(Nat) /\ Len(Append(seq, x)) = Len(seq) + 1
      /\ Len(seq) \in Nat /\ Append(seq, x)[Len(seq) + 1] = x
      /\ Agree(seq, Append(seq, x), Len(seq))
  BY AppendProperties DEF Agree
<1> QED
  BY <1>1, SumOfLonger

\* A sequence that is not empty has a last element.
LEMMA LastIs ==
    ASSUME NEW s \in Seq(Nat), Len(s) # 0
    PROVE  \E f \in Seq(Nat) : \E x \in Nat : s = Append(f, x) /\ Len(s) = Len(f) + 1
<1>0. s # <<>>
  <2>1. (s = <<>>) <=> (Len(s) = 0)
    BY EmptySeq, Zenon
  <2> QED
    BY <2>1, Zenon
<1>1. \E f \in Seq(Nat), x \in Nat : s = Append(f, x)
  BY <1>0, SequenceEmptyOrAppend
<1>2. PICK f \in Seq(Nat), x \in Nat : s = Append(f, x)
  BY <1>1, Zenon
<1>3. Len(s) = Len(f) + 1
  BY <1>2, AppendProperties
<1> QED
  BY <1>2, <1>3

\* What ProducerAck takes from the head is subtracted.
LEMMA SumOfTail ==
    ASSUME NEW seq \in Seq(Nat), seq # <<>>
    PROVE  Window!Sum(seq) = Head(seq) + Window!Sum(Tail(seq))
<1> DEFINE Has(k) == \A s \in Seq(Nat) :
                        Len(s) = k + 1 => Window!Sum(s) = Head(s) + Window!Sum(Tail(s))
           S == {k \in Nat : Has(k)}
<1>1. Has(0)
  <2> SUFFICES ASSUME NEW s \in Seq(Nat), Len(s) = 1
               PROVE  Window!Sum(s) = Head(s) + Window!Sum(Tail(s))
    OBVIOUS
  <2>1. PICK f \in Seq(Nat), x \in Nat : s = Append(f, x) /\ Len(s) = Len(f) + 1
    <3>1. Len(s) # 0
      OBVIOUS
    <3> QED
      BY <3>1, LastIs, Zenon
  <2>2. f = <<>>
    BY <2>1, EmptySeq
  <2>3. s = <<x>>
    BY <2>1, <2>2
  <2>4. Head(s) = x /\ Tail(s) = <<>>
    BY <2>3
  <2>5. <<>> \in Seq(Nat)
    OBVIOUS
  <2>6. Window!Sum(s) = Window!Sum(<<>>) + x
    BY <2>1, <2>2, <2>5, SumOfAppend
  <2> QED
    <3>1. Window!Sum(s) = 0 + x
      BY <2>6, SumOfEmpty, Zenon
    <3>2. Window!Sum(s) = x + 0
      BY <2>1, <3>1
    <3> QED
      BY <2>4, <3>2, SumOfEmpty, Zenon
<1>2. ASSUME NEW k \in Nat, Has(k) PROVE Has(k + 1)
  <2> SUFFICES ASSUME NEW s \in Seq(Nat), Len(s) = k + 2
               PROVE  Window!Sum(s) = Head(s) + Window!Sum(Tail(s))
    OBVIOUS
  <2>1. PICK f \in Seq(Nat), x \in Nat : s = Append(f, x) /\ Len(f) = k + 1
    <3>1. Len(s) # 0
      OBVIOUS
    <3>2. PICK f \in Seq(Nat), x \in Nat : s = Append(f, x) /\ Len(s) = Len(f) + 1
      BY <3>1, LastIs, Zenon
    <3>3. Len(f) = k + 1
      BY <3>2
    <3> QED
      BY <3>2, <3>3
  <2>2. /\ Head(s) = Head(f) /\ Tail(s) = Append(Tail(f), x)
        /\ Tail(f) \in Seq(Nat) /\ Head(f) \in Nat
    BY <2>1
  <2>3. Window!Sum(s) = Window!Sum(f) + x /\ Window!Sum(Tail(s)) = Window!Sum(Tail(f)) + x
    BY <2>1, <2>2, SumOfAppend
  <2>4. Window!Sum(f) = Head(f) + Window!Sum(Tail(f))
    BY <1>2, <2>1
  <2>5. Window!Sum(Tail(f)) \in Nat
    BY <2>2, SumIsNat
  <2> QED
    BY <2>2, <2>3, <2>4, <2>5
<1>3. S = Nat
  <2> HIDE DEF Has
  <2>1. 0 \in S /\ \A k \in S : k + 1 \in S
    BY <1>1, <1>2
  <2> QED
    BY <2>1, NatSet
<1>4. Len(seq) - 1 \in Nat /\ Len(seq) = (Len(seq) - 1) + 1
  OBVIOUS
<1>5. Has(Len(seq) - 1)
  <2> HIDE DEF Has
  <2> QED
    BY <1>3, <1>4
<1> QED
  BY <1>4, <1>5

-----------------------------------------------------------------------------
\* The largest message.
Largest == Window!LargestOf(Window!Sizes)

\* Sizes are numbers, and what a message of any body and properties measures
\* is among them.
LEMMA SizesAre ==
    ASSUME Window!WindowAssumption
    PROVE  /\ Limit \in Nat \ {0}
           /\ Bodies \subseteq Nat \ {0}
           /\ Window!AllProps \subseteq Nat
           /\ Window!Sizes \subseteq Nat
           /\ \A b \in Bodies, n \in Window!AllProps : b + n \in Window!Sizes
           /\ \A p \in Producers : 0 \in Window!AllProps /\ Props[p] \subseteq Window!AllProps
           /\ Largest \in Nat
           /\ \A y \in Window!Sizes : y <= Largest
<1> USE DEF Window!WindowAssumption
<1>1. Window!AllProps \subseteq Nat
  BY DEF Window!AllProps
<1>2. Window!Sizes \subseteq Nat
  BY <1>1 DEF Window!Sizes
<1>3. \A b \in Bodies, n \in Window!AllProps : b + n \in Window!Sizes
  BY DEF Window!Sizes
<1>4. \A p \in Producers : 0 \in Window!AllProps /\ Props[p] \subseteq Window!AllProps
  BY DEF Window!AllProps
<1>5. Largest \in Window!Sizes /\ \A y \in Window!Sizes : y <= Largest
  BY DEF Largest, Window!LargestOf
<1> QED
  BY <1>1, <1>2, <1>3, <1>4, <1>5

\* The sum of what is in flight, as messages are sent and acknowledged.
LEMMA FlightAdds ==
    ASSUME Window!WindowAssumption, NEW s \in Seq(Window!Sizes)
    PROVE  /\ Window!Sum(s) \in Nat
           /\ \A x \in Window!Sizes : Window!Sum(Append(s, x)) = Window!Sum(s) + x
           /\ s # <<>> => /\ Window!Sum(s) = Head(s) + Window!Sum(Tail(s))
                          /\ Head(s) \in Window!Sizes /\ Tail(s) \in Seq(Window!Sizes)
                          /\ Window!Sum(Tail(s)) \in Nat
<1>0. Window!Sizes \subseteq Nat
  BY SizesAre
<1>1. s \in Seq(Nat)
  BY <1>0, SeqMonotonic
<1>2. Window!Sum(s) \in Nat
  BY <1>1, SumIsNat
<1>3. \A x \in Window!Sizes : Window!Sum(Append(s, x)) = Window!Sum(s) + x
  BY <1>0, <1>1, SumOfAppend
<1>4. ASSUME s # <<>>
      PROVE  /\ Window!Sum(s) = Head(s) + Window!Sum(Tail(s))
             /\ Head(s) \in Window!Sizes /\ Tail(s) \in Seq(Window!Sizes)
             /\ Window!Sum(Tail(s)) \in Nat
  <2>1. Head(s) \in Window!Sizes /\ Tail(s) \in Seq(Window!Sizes)
    BY <1>4, HeadTailProperties
  <2>2. Tail(s) \in Seq(Nat)
    BY <1>0, <2>1, SeqMonotonic
  <2>3. Window!Sum(Tail(s)) \in Nat
    BY <2>2, SumIsNat
  <2>4. Window!Sum(s) = Head(s) + Window!Sum(Tail(s))
    BY <1>1, <1>4, SumOfTail
  <2> QED
    BY <2>1, <2>3, <2>4
<1> QED
  BY <1>2, <1>3, <1>4

\* What a thread has counted and not yet sent.
Counting(p) == IF at[p] = "counted" THEN Window!Counted(p) ELSE 0

\* A thread has a message from the beginning of a send to its end, and has
\* found room when it counts it.
Sends(p) ==
    /\ at[p] \in {"waiting", "woken", "room", "counted", "request"} => message[p] # Window!NoMessage
    /\ at[p] = "room" => usage[p] < Limit
    /\ at[p] = "counted" /\ exact[p] => Window!Counted(p) = Window!Written(p)

\* What the life of a producer tells of it.
Lives(p) ==
    /\ life[p] = "absent" => flight[p] = <<>> /\ p \notin map
    /\ life[p] = "deleted" => at[p] = "idle"
    /\ p \in map /\ life[p] # "open" => state = "error"

\* No more is in flight than is counted, until the count is deleted.
Counts(p) ==
    exact[p] =>
        /\ life[p] # "deleted" => Window!Sum(flight[p]) + Counting(p) <= usage[p]
        /\ Window!Sum(flight[p]) < Limit + Largest
        /\ Window!Usable(p) => usage[p] = Window!Sum(flight[p]) + Counting(p)

\* The inductive invariant.  The assumption is part of it, as every step needs it.
WindowInv ==
    /\ Window!WindowAssumption
    /\ Window!TypeOK
    /\ state = "error" => ~reader
    /\ Window!NoStaleProducer
    /\ \A p \in Producers : Sends(p) /\ Lives(p) /\ Counts(p)

\* What TypeOK says of one producer.
LEMMA Typed ==
    ASSUME Window!WindowAssumption, Window!TypeOK, NEW p \in Producers
    PROVE  /\ usage[p] \in Nat /\ usage[p] <= Limit - 1 + Largest
           /\ flight[p] \in Seq(Window!Sizes)
           /\ message[p] # Window!NoMessage =>
                /\ message[p] \in [object : Messages, body : Bodies, props : Window!AllProps]
                /\ Window!Written(p) \in Window!Sizes /\ Window!Counted(p) \in Window!Sizes
                /\ Window!Written(p) \in Nat /\ Window!Counted(p) \in Nat
                /\ Window!Written(p) <= Largest /\ Window!Counted(p) <= Largest
<1>1. usage[p] \in Nat /\ usage[p] <= Limit - 1 + Largest /\ flight[p] \in Seq(Window!Sizes)
  BY SizesAre DEF Window!TypeOK, Largest
<1>2. ASSUME message[p] # Window!NoMessage
      PROVE  message[p] \in [object : Messages, body : Bodies, props : Window!AllProps]
  BY <1>2 DEF Window!TypeOK
<1>3. ASSUME message[p] # Window!NoMessage
      PROVE  Window!Written(p) \in Window!Sizes /\ Window!Counted(p) \in Window!Sizes
  <2>1. message[p].body \in Bodies /\ message[p].props \in Window!AllProps
        /\ message[p].object \in Messages
    BY <1>2, <1>3
  <2>2. stale[p][message[p].object] \in Window!AllProps
    BY <2>1 DEF Window!TypeOK
  <2> QED
    BY <2>1, <2>2, SizesAre DEF Window!Written, Window!Counted
<1> QED
  BY <1>1, <1>2, <1>3, SizesAre

\* A step that leaves a producer alone may only take the connection from it.
Same(q) ==
    /\ life'[q] = life[q] /\ usage'[q] = usage[q] /\ at'[q] = at[q]
    /\ message'[q] = message[q] /\ stale'[q] = stale[q]
    /\ flight'[q] = flight[q] /\ exact'[q] = exact[q]
    /\ q \in map' <=> q \in map

\* The connection may be lost and is not found again.
OnlyLost == (io' => io) /\ (link' => link) /\ (state = "error" => state' = "error")

\* Such a producer keeps its part of the invariant.
LEMMA LeftAlone ==
    ASSUME Window!TypeOK, NEW q \in Producers, Sends(q), Lives(q), Counts(q), Same(q), OnlyLost,
           state' \in {"connected", "error"}
    PROVE  Sends(q)' /\ Lives(q)' /\ Counts(q)'
<1>1. Window!Counted(q)' = Window!Counted(q) /\ Window!Written(q)' = Window!Written(q)
  BY DEF Window!Counted, Window!Written, Same
<1>2. Counting(q)' = Counting(q)
  BY <1>1 DEF Counting, Same
<1>3. Sends(q)'
  BY <1>1 DEF Sends, Same
<1>4. Lives(q)'
  BY DEF Lives, Same, OnlyLost
<1>5. Window!Usable(q)' => Window!Usable(q)
  BY DEF Window!Usable, Same, OnlyLost, Window!TypeOK
<1>6. Counts(q)'
  BY <1>2, <1>5 DEF Counts, Same
<1> QED
  BY <1>3, <1>4, <1>6

\* Without producers nothing is counted.
LEMMA WindowInitEstablishes == Window!WindowAssumption /\ Window!Init => WindowInv
<1> SUFFICES ASSUME Window!WindowAssumption, Window!Init PROVE WindowInv
  OBVIOUS
<1> USE DEF Window!Init
<1>0. <<>> \in Seq(Window!Sizes)
  OBVIOUS
<1>1. Window!TypeOK
  <2>1. usage \in [Producers -> 0 .. (Limit - 1 + Window!LargestOf(Window!Sizes))]
    BY SizesAre DEF Largest
  <2>2. stale \in [Producers -> [Messages -> Window!AllProps]]
    BY SizesAre
  <2>3. flight \in [Producers -> Seq(Window!Sizes)]
    BY <1>0
  <2>4. {io, link, reader, undefined} \subseteq BOOLEAN
    OBVIOUS
  <2> QED
    BY <2>1, <2>2, <2>3, <2>4 DEF Window!TypeOK
<1>2. ASSUME NEW p \in Producers PROVE Sends(p) /\ Lives(p) /\ Counts(p)
  BY SumOfEmpty, SizesAre DEF Sends, Lives, Counts, Window!Usable, Counting
<1> QED
  BY <1>1, <1>2 DEF WindowInv, Window!NoStaleProducer

\* The life of a producer.
LEMMA LifePreserves ==
    ASSUME WindowInv, NEW p \in Producers,
           Window!Create(p) \/ Window!Close(p) \/ Window!Disposed(p) \/ Window!Delete(p)
    PROVE  WindowInv'
<1> Window!WindowAssumption
  BY DEF WindowInv
<1> USE DEF Window!Create, Window!Close, Window!Disposed, Window!Delete, Window!sendVars, Window!ioVars
<1>0. Window!TypeOK /\ Sends(p) /\ Lives(p) /\ Counts(p)
  BY DEF WindowInv
<1>1. Window!TypeOK'
  <2>1. usage' \in [Producers -> 0 .. (Limit - 1 + Window!LargestOf(Window!Sizes))]
    <3>1. 0 \in 0 .. (Limit - 1 + Window!LargestOf(Window!Sizes))
      BY SizesAre DEF Largest
    <3> QED
      BY <1>0, <3>1 DEF Window!TypeOK
  <2>2. \A q \in Producers : life'[q] = "absent" => at'[q] = "idle" /\ usage'[q] = 0
    BY <1>0 DEF Window!TypeOK
  <2>3. {io, link, reader, undefined}' \subseteq BOOLEAN
    BY <1>0 DEF Window!TypeOK
  <2> QED
    BY <1>0, <2>1, <2>2, <2>3 DEF Window!TypeOK
<1>2. ASSUME NEW q \in Producers \ {p} PROVE Sends(q)' /\ Lives(q)' /\ Counts(q)'
  <2>1. Same(q) /\ OnlyLost /\ state' \in {"connected", "error"}
    BY <1>0 DEF Same, OnlyLost, Window!TypeOK
  <2> QED
    BY <2>1, LeftAlone DEF WindowInv
<1>3. /\ Window!Counted(p)' = Window!Counted(p) /\ Window!Written(p)' = Window!Written(p)
      /\ Counting(p)' = Counting(p) /\ at' = at /\ flight' = flight
  BY DEF Window!Counted, Window!Written, Counting
<1>4. Sends(p)'
  BY <1>0, <1>3, SizesAre DEF Sends, Window!TypeOK
<1>5. Lives(p)'
  BY <1>0 DEF Lives, Window!TypeOK
<1>6. Counts(p)'
  <2>1. Window!Sum(flight[p]) \in Nat /\ Counting(p) \in Nat
    BY <1>0, FlightAdds, Typed DEF Counting, Sends
  <2>2. CASE Window!Create(p)
    BY <1>0, <1>3, <2>1, <2>2, SumOfEmpty, SizesAre DEF Counts, Lives, Window!TypeOK, Counting, Window!Usable
  <2>3. CASE Window!Close(p) \/ Window!Disposed(p)
    <3>1. ~Window!Usable(p)' /\ life'[p] # "deleted" /\ life[p] # "deleted" /\ usage' = usage /\ exact' = exact
      BY <1>0, <2>3 DEF Window!Usable, Window!TypeOK
    <3> QED
      BY <1>0, <1>3, <3>1 DEF Counts
  <2>4. CASE Window!Delete(p)
    <3>1. ~Window!Usable(p)' /\ life'[p] = "deleted" /\ life[p] # "deleted" /\ exact' = exact
      BY <1>0, <2>4 DEF Window!Usable, Window!TypeOK
    <3> QED
      BY <1>0, <1>3, <2>1, <3>1, Typed, SizesAre DEF Counts
  <2> QED
    BY <2>2, <2>3, <2>4
<1>7. (state = "error" => ~reader)' /\ Window!NoStaleProducer'
  BY DEF WindowInv, Window!NoStaleProducer
<1> QED
  BY <1>1, <1>2, <1>4, <1>5, <1>6, <1>7 DEF WindowInv

\* A send begins, its thread waits for room, or the object is changed.
LEMMA BeginPreserves ==
    ASSUME WindowInv, NEW p \in Producers,
           \/ \E m \in Messages, body \in Bodies, props \in Props[p] :
                 Window!SendAsync(p, m, body, props) \/ Window!SendSync(p, m, body, props)
           \/ \E m \in Messages : Window!NewMessage(p, m)
           \/ Window!Woken(p)
    PROVE  WindowInv'
<1> Window!WindowAssumption
  BY DEF WindowInv
<1> USE DEF Window!SendAsync, Window!SendSync, Window!NewMessage, Window!Woken, Window!Begins, Window!TestRoom, Window!Goto
<1>0. Window!TypeOK /\ Sends(p) /\ Lives(p) /\ Counts(p)
  BY DEF WindowInv
<1>1. Window!TypeOK'
  <2>1. message' \in [Producers -> [object : Messages, body : Bodies, props : Window!AllProps] \cup {Window!NoMessage}]
    <3>1. ASSUME NEW m \in Messages, NEW body \in Bodies, NEW props \in Props[p],
                 Window!Begins(p, m, body, props)
          PROVE  message' \in [Producers -> [object : Messages, body : Bodies, props : Window!AllProps]
                                               \cup {Window!NoMessage}]
      <4>1. props \in Window!AllProps
        BY SizesAre
      <4>2. [object |-> m, body |-> body, props |-> props]
              \in [object : Messages, body : Bodies, props : Window!AllProps]
        BY <4>1
      <4> QED
        BY <1>0, <3>1, <4>2 DEF Window!TypeOK
    <3>2. CASE UNCHANGED message
      BY <1>0, <3>2 DEF Window!TypeOK
    <3> QED
      BY <3>1, <3>2
  <2>2. at' \in [Producers -> {"idle", "waiting", "woken", "room", "counted", "request", "failing"}]
    BY <1>0 DEF Window!TypeOK
  <2>3. stale' \in [Producers -> [Messages -> Window!AllProps]]
    <3>1. ASSUME NEW m \in Messages, Window!NewMessage(p, m)
          PROVE  stale' \in [Producers -> [Messages -> Window!AllProps]]
      <4>1. 0 \in Window!AllProps
        BY SizesAre
      <4>2. stale[p] \in [Messages -> Window!AllProps] /\ stale \in [Producers -> [Messages -> Window!AllProps]]
        BY <1>0 DEF Window!TypeOK
      <4>3. [stale[p] EXCEPT ![m] = 0] \in [Messages -> Window!AllProps]
        BY <4>1, <4>2
      <4> QED
        BY <3>1, <4>2, <4>3
    <3>2. CASE UNCHANGED stale
      BY <1>0, <3>2 DEF Window!TypeOK
    <3> QED
      BY <3>1, <3>2
  <2>4. UNCHANGED <<map, life, usage, exact, flight, undefined, state, io, link, reader>>
    BY DEF Window!ioVars
  <2>5. \A q \in Producers : life'[q] = "absent" => at'[q] = "idle" /\ usage'[q] = 0
    BY <1>0, <2>4 DEF Window!TypeOK
  <2> QED
    BY <1>0, <2>1, <2>2, <2>3, <2>4, <2>5 DEF Window!TypeOK
<1>2. UNCHANGED <<map, life, usage, exact, flight, undefined, state, io, link, reader>>
  BY DEF Window!ioVars
<1>3. ASSUME NEW q \in Producers \ {p} PROVE Sends(q)' /\ Lives(q)' /\ Counts(q)'
  <2>1. Same(q) /\ OnlyLost /\ state' \in {"connected", "error"}
    BY <1>0, <1>2 DEF Same, OnlyLost, Window!TypeOK
  <2> QED
    BY <2>1, LeftAlone DEF WindowInv
<1>5. Sends(p)'
  <2>1. CASE \E m \in Messages : Window!NewMessage(p, m)
    BY <1>0, <2>1 DEF Sends, Window!TypeOK
  <2>2. CASE Window!Woken(p)
    BY <1>0, <2>2, Typed, SizesAre DEF Sends, Window!TypeOK
  <2>3. ASSUME NEW m \in Messages, NEW body \in Bodies, NEW props \in Props[p],
               Window!SendAsync(p, m, body, props) \/ Window!SendSync(p, m, body, props)
        PROVE  Sends(p)'
    <3>1. message'[p].body \in Nat \ {0}
      <4>1. message' = [message EXCEPT ![p] = [object |-> m, body |-> body, props |-> props]]
        BY <2>3
      <4>2. message'[p] = [object |-> m, body |-> body, props |-> props]
        BY <1>0, <4>1 DEF Window!TypeOK
      <4> QED
        BY <4>2, SizesAre
    <3>2. message'[p] # Window!NoMessage
      BY <3>1 DEF Window!NoMessage
    <3>3. at'[p] \in {"waiting", "room", "request"} /\ (at'[p] = "room" => usage[p] < Limit)
          /\ usage' = usage
      BY <1>0, <2>3, Typed, SizesAre DEF Window!TypeOK
    <3> QED
      BY <3>2, <3>3 DEF Sends
  <2> QED
    BY <2>1, <2>2, <2>3
<1>6. Lives(p)'
  BY <1>0, <1>2 DEF Lives, Window!TypeOK
<1>7. Counting(p) = 0 /\ Counting(p)' = 0
  BY <1>0 DEF Counting, Window!TypeOK
<1>8. Counts(p)'
  BY <1>0, <1>2, <1>7 DEF Counts, Window!Usable
<1>9. (state = "error" => ~reader)' /\ Window!NoStaleProducer'
  BY <1>2 DEF WindowInv, Window!NoStaleProducer
<1> QED
  BY <1>1, <1>3, <1>5, <1>6, <1>8, <1>9 DEF WindowInv

\* A send ends with an exception, which closes the transport.
LEMMA WindowFailPreserves ==
    ASSUME WindowInv, NEW p \in Producers, Window!SendRefused(p) \/ Window!Fails(p) \/ Window!Joined(p)
    PROVE  WindowInv'
<1> Window!WindowAssumption
  BY DEF WindowInv
<1> USE DEF Window!SendRefused, Window!Fails, Window!Joined, Window!Throws, Window!Leaves, Window!Goto
<1>0. Window!TypeOK /\ Sends(p) /\ Lives(p) /\ Counts(p)
  BY DEF WindowInv
<1>1. UNCHANGED <<map, life, usage, exact, flight, undefined, state, link, reader>>
  BY DEF Window!ioVars
<1>2. io' \in BOOLEAN /\ (io' => io)
  <2>1. io \in BOOLEAN
    BY <1>0 DEF Window!TypeOK
  <2>2. io' = FALSE \/ io' = io
    BY DEF Window!ioVars
  <2>3. CASE io' = FALSE
    BY <2>3
  <2>4. CASE io' = io
    BY <2>1, <2>4
  <2> QED
    BY <2>2, <2>3, <2>4
<1>3. stale' \in [Producers -> [Messages -> Window!AllProps]]
      /\ \A q \in Producers \ {p} : stale'[q] = stale[q]
  <2>1. CASE UNCHANGED stale
    BY <1>0, <2>1 DEF Window!TypeOK
  <2>2. CASE Window!Marshalled(p) /\ message[p] # Window!NoMessage
    <3>1. message[p].props \in Window!AllProps
      BY <1>0, <2>2, Typed
    <3> QED
      BY <1>0, <2>2, <3>1 DEF Window!Marshalled, Window!TypeOK
  <2>3. Window!Marshalled(p) /\ Window!Fails(p) => message[p] # Window!NoMessage
    BY <1>0 DEF Sends
  <2> QED
    BY <2>1, <2>2, <2>3
<1>4. at'[p] \in {"idle", "failing"} /\ at[p] # "absent"
      /\ at' \in [Producers -> {"idle", "waiting", "woken", "room", "counted", "request", "failing"}]
      /\ message' \in [Producers -> [object : Messages, body : Bodies, props : Window!AllProps] \cup {Window!NoMessage}]
      /\ \A q \in Producers \ {p} : at'[q] = at[q] /\ message'[q] = message[q]
  BY <1>0 DEF Window!TypeOK
<1>5. life[p] = "absent" => at'[p] = "idle"
  BY <1>0 DEF Window!TypeOK
<1>6. Window!TypeOK'
  <2>1. \A q \in Producers : life'[q] = "absent" => at'[q] = "idle" /\ usage'[q] = 0
    BY <1>0, <1>1, <1>4, <1>5 DEF Window!TypeOK
  <2> QED
    BY <1>0, <1>1, <1>2, <1>3, <1>4, <2>1 DEF Window!TypeOK
<1>7. ASSUME NEW q \in Producers \ {p} PROVE Sends(q)' /\ Lives(q)' /\ Counts(q)'
  <2>1. Same(q) /\ OnlyLost /\ state' \in {"connected", "error"}
    BY <1>0, <1>1, <1>2, <1>3, <1>4 DEF Same, OnlyLost, Window!TypeOK
  <2> QED
    BY <2>1, LeftAlone DEF WindowInv
<1>8. Sends(p)'
  BY <1>4 DEF Sends
<1>9. Lives(p)'
  <2>1. life[p] # "deleted" \/ at'[p] = "idle"
    BY <1>0 DEF Lives, Window!TypeOK
  <2> QED
    BY <1>0, <1>1, <2>1 DEF Lives
<1>10. Counts(p)'
  <2>1. Counting(p) \in Nat /\ Counting(p)' = 0 /\ Window!Sum(flight[p]) \in Nat
    BY <1>0, <1>4, FlightAdds, Typed DEF Counting, Sends
  <2>2. CASE Window!Joined(p)
    <3>1. Counting(p) = 0 /\ Window!Usable(p)' = Window!Usable(p)
      BY <1>0, <2>2 DEF Counting, Window!Usable, Window!ioVars
    <3> QED
      BY <1>0, <1>1, <2>1, <3>1 DEF Counts
  <2>3. CASE ~Window!Joined(p)
    <3>1. ~Window!Usable(p)'
      BY <2>3 DEF Window!Usable
    <3>2. usage[p] \in Nat
      BY <1>0, Typed
    <3> QED
      BY <1>0, <1>1, <2>1, <3>1, <3>2 DEF Counts
  <2> QED
    BY <2>2, <2>3
<1>11. (state = "error" => ~reader)' /\ Window!NoStaleProducer'
  BY <1>1 DEF WindowInv, Window!NoStaleProducer
<1> QED
  BY <1>6, <1>7, <1>8, <1>9, <1>10, <1>11 DEF WindowInv

\* A message is counted, written, or answered.
LEMMA WritePreserves ==
    ASSUME WindowInv, NEW p \in Producers, Window!Count(p) \/ Window!Oneway(p) \/ Window!Answered(p)
    PROVE  WindowInv'
<1> Window!WindowAssumption
  BY DEF WindowInv
<1> USE DEF Window!Count, Window!Oneway, Window!Answered, Window!Leaves, Window!Goto
<1>0. Window!TypeOK /\ Sends(p) /\ Lives(p) /\ Counts(p)
  BY DEF WindowInv
<1>1. UNCHANGED <<map, life, undefined, state, io, link, reader>>
  BY DEF Window!ioVars
<1>2. message[p] # Window!NoMessage
  BY <1>0 DEF Sends
<1>3. /\ message[p] \in [object : Messages, body : Bodies, props : Window!AllProps]
      /\ Window!Written(p) \in Window!Sizes /\ Window!Counted(p) \in Window!Sizes
      /\ Window!Written(p) \in Nat /\ Window!Counted(p) \in Nat
      /\ Window!Written(p) <= Largest /\ Window!Counted(p) <= Largest
  BY <1>0, <1>2, Typed
<1>4. usage[p] \in Nat /\ Window!Sum(flight[p]) \in Nat /\ flight[p] \in Seq(Window!Sizes)
      /\ Window!Sum(Append(flight[p], Window!Written(p))) = Window!Sum(flight[p]) + Window!Written(p)
      /\ Limit \in Nat /\ Largest \in Nat /\ usage[p] <= Limit - 1 + Largest
  BY <1>0, <1>3, Typed, FlightAdds, SizesAre
<1>5. Window!TypeOK'
  <2>1. usage' \in [Producers -> 0 .. (Limit - 1 + Window!LargestOf(Window!Sizes))]
    <3>1. CASE Window!Count(p)
      <4>1. usage[p] < Limit
        BY <1>0, <3>1 DEF Sends
      <4>2. usage[p] + Window!Counted(p) \in 0 .. (Limit - 1 + Window!LargestOf(Window!Sizes))
        BY <1>3, <1>4, <4>1 DEF Largest
      <4> QED
        BY <1>0, <3>1, <4>2 DEF Window!TypeOK
    <3>2. CASE ~Window!Count(p)
      BY <1>0, <3>2 DEF Window!TypeOK
    <3> QED
      BY <3>1, <3>2
  <2>2. flight' \in [Producers -> Seq(Window!Sizes)]
    <3>1. Append(flight[p], Window!Written(p)) \in Seq(Window!Sizes)
      BY <1>3, <1>4, AppendProperties
    <3> QED
      BY <1>0, <3>1 DEF Window!TypeOK
  <2>3. stale' \in [Producers -> [Messages -> Window!AllProps]]
    <3>1. CASE Window!Marshalled(p)
      <4>1. message[p].object \in Messages /\ message[p].props \in Window!AllProps
        BY <1>3
      <4>2. stale[p] \in [Messages -> Window!AllProps] /\ stale \in [Producers -> [Messages -> Window!AllProps]]
        BY <1>0 DEF Window!TypeOK
      <4>3. [stale[p] EXCEPT ![message[p].object] = message[p].props] \in [Messages -> Window!AllProps]
        BY <4>1, <4>2
      <4> QED
        BY <3>1, <4>2, <4>3 DEF Window!Marshalled
    <3>2. CASE UNCHANGED stale
      BY <1>0, <3>2 DEF Window!TypeOK
    <3> QED
      BY <3>1, <3>2
  <2>4. /\ message' \in [Producers -> [object : Messages, body : Bodies, props : Window!AllProps] \cup {Window!NoMessage}]
        /\ at' \in [Producers -> {"idle", "waiting", "woken", "room", "counted", "request", "failing"}]
    BY <1>0 DEF Window!TypeOK
  <2>5. exact' \in [Producers -> BOOLEAN]
    <3>1. (exact[p] /\ Window!Counted(p) = Window!Written(p)) \in BOOLEAN
      OBVIOUS
    <3> QED
      BY <1>0, <3>1 DEF Window!TypeOK
  <2>6. \A q \in Producers : life'[q] = "absent" => at'[q] = "idle" /\ usage'[q] = 0
    BY <1>0, <1>1 DEF Window!TypeOK
  <2> QED
    BY <1>0, <1>1, <2>1, <2>2, <2>3, <2>4, <2>5, <2>6 DEF Window!TypeOK
<1>6. ASSUME NEW q \in Producers \ {p} PROVE Sends(q)' /\ Lives(q)' /\ Counts(q)'
  <2>1. Same(q) /\ OnlyLost /\ state' \in {"connected", "error"}
    BY <1>0, <1>1 DEF Same, OnlyLost, Window!TypeOK, Window!Marshalled
  <2> QED
    BY <2>1, LeftAlone DEF WindowInv
<1>7. Sends(p)'
  <2>1. CASE Window!Count(p)
    <3>1. Window!Counted(p)' = Window!Counted(p) /\ Window!Written(p)' = Window!Written(p) /\ message' = message
      BY <2>1 DEF Window!Counted, Window!Written
    <3>2. at'[p] = "counted" /\ (exact'[p] => Window!Counted(p) = Window!Written(p))
      BY <1>0, <2>1 DEF Window!TypeOK
    <3> QED
      BY <1>2, <3>1, <3>2 DEF Sends
  <2>2. CASE ~Window!Count(p)
    BY <1>0, <2>2 DEF Sends, Window!TypeOK
  <2> QED
    BY <2>1, <2>2
<1>8. Lives(p)'
  BY <1>0, <1>1 DEF Lives, Window!TypeOK
<1>9. Counts(p)'
  <2>1. Window!Usable(p)' = Window!Usable(p)
    BY <1>1 DEF Window!Usable
  <2>2. CASE Window!Count(p)
    <3>1. Window!Counted(p)' = Window!Counted(p) /\ at'[p] = "counted" /\ at[p] = "room"
      BY <1>0, <2>2 DEF Window!Counted, Window!TypeOK
    <3>2. Counting(p) = 0 /\ Counting(p)' = Window!Counted(p)
      BY <3>1 DEF Counting
    <3>3. usage'[p] = usage[p] + Window!Counted(p) /\ flight' = flight /\ (exact'[p] => exact[p])
      BY <1>0, <2>2 DEF Window!TypeOK
    <3> QED
      BY <1>0, <1>1, <1>3, <1>4, <2>1, <3>2, <3>3 DEF Counts
  <2>3. CASE Window!Oneway(p)
    <3>1. Counting(p) = Window!Counted(p) /\ Counting(p)' = 0 /\ at[p] = "counted"
          /\ usage' = usage /\ exact' = exact
      BY <1>0, <2>3 DEF Counting, Window!TypeOK
    <3>2. exact[p] => Window!Counted(p) = Window!Written(p)
      BY <1>0, <3>1 DEF Sends
    <3>3. life[p] # "deleted"
      BY <1>0, <3>1 DEF Lives
    <3>4. CASE link
      <4>1. flight'[p] = Append(flight[p], Window!Written(p))
        BY <1>0, <2>3, <3>4 DEF Window!TypeOK
      <4> QED
        BY <1>0, <1>1, <1>3, <1>4, <2>1, <3>1, <3>2, <3>3, <4>1 DEF Counts
    <3>5. CASE ~link
      <4>1. flight' = flight /\ ~Window!Usable(p)
        BY <2>3, <3>5 DEF Window!Usable
      <4> QED
        BY <1>0, <1>1, <1>3, <1>4, <2>1, <3>1, <3>2, <3>3, <4>1 DEF Counts
    <3> QED
      BY <3>4, <3>5
  <2>4. CASE Window!Answered(p)
    <3>1. Counting(p) = 0 /\ Counting(p)' = 0 /\ usage' = usage /\ exact' = exact
          /\ flight' = flight
      BY <1>0, <2>4 DEF Counting, Window!TypeOK
    <3> QED
      BY <1>0, <1>1, <1>4, <2>1, <3>1 DEF Counts
  <2> QED
    BY <2>2, <2>3, <2>4
<1>10. (state = "error" => ~reader)' /\ Window!NoStaleProducer'
  BY <1>1 DEF WindowInv, Window!NoStaleProducer
<1> QED
  BY <1>5, <1>6, <1>7, <1>8, <1>9, <1>10 DEF WindowInv

\* The reader takes a ProducerAck.
LEMMA AckPreserves ==
    ASSUME WindowInv, NEW p \in Producers, Window!ProducerAck(p)
    PROVE  WindowInv'
<1> Window!WindowAssumption
  BY DEF WindowInv
<1> USE DEF Window!ProducerAck, Window!GivesBack
<1>0. Window!TypeOK /\ Sends(p) /\ Lives(p) /\ Counts(p)
  BY DEF WindowInv
<1>1. UNCHANGED <<map, life, message, stale, exact, state, io, link, reader>>
  BY DEF Window!ioVars
<1>2. state # "error"
  BY DEF WindowInv
<1> DEFINE size == Head(flight[p])
<1>3. /\ flight[p] \in Seq(Window!Sizes) /\ flight[p] # <<>>
      /\ Window!Sum(flight[p]) = size + Window!Sum(Tail(flight[p]))
      /\ size \in Window!Sizes /\ Tail(flight[p]) \in Seq(Window!Sizes)
      /\ Window!Sum(Tail(flight[p])) \in Nat
  BY <1>0, Typed, FlightAdds
<1>4. usage[p] \in Nat /\ size \in Nat /\ usage[p] <= Limit - 1 + Largest
      /\ Limit \in Nat /\ Largest \in Nat
  BY <1>0, <1>3, Typed, SizesAre
<1>5. flight'[p] = Tail(flight[p]) /\ flight' \in [Producers -> Seq(Window!Sizes)]
      /\ \A q \in Producers \ {p} : flight'[q] = flight[q]
  BY <1>0, <1>3 DEF Window!TypeOK
<1> HIDE DEF size
<1>6. /\ usage'[p] = IF p \notin map THEN usage[p] ELSE IF size > usage[p] THEN 0 ELSE usage[p] - size
      /\ at'[p] = IF p \in map /\ at[p] = "waiting" THEN "woken" ELSE at[p]
      /\ \A q \in Producers \ {p} : usage'[q] = usage[q] /\ at'[q] = at[q]
  BY <1>0 DEF Window!TypeOK, size
<1>7. Window!TypeOK'
  <2>1. at' \in [Producers -> {"idle", "waiting", "woken", "room", "counted", "request", "failing"}]
    BY <1>0 DEF Window!TypeOK
  <2>2. usage' \in [Producers -> 0 .. (Limit - 1 + Window!LargestOf(Window!Sizes))]
    <3>1. usage'[p] \in 0 .. (Limit - 1 + Window!LargestOf(Window!Sizes))
      BY <1>4, <1>6 DEF Largest
    <3>2. usage' = [usage EXCEPT ![p] = usage'[p]]
      BY <1>0 DEF Window!TypeOK
    <3> QED
      BY <1>0, <3>1, <3>2 DEF Window!TypeOK
  <2>3. undefined' \in BOOLEAN
    BY <1>0 DEF Window!TypeOK
  <2>4. \A q \in Producers : life'[q] = "absent" => at'[q] = "idle" /\ usage'[q] = 0
    <3>1. life[p] # "absent"
      BY <1>0, <1>3 DEF Lives
    <3> QED
      BY <1>0, <1>1, <1>6, <3>1 DEF Window!TypeOK
  <2> QED
    BY <1>0, <1>1, <1>5, <2>1, <2>2, <2>3, <2>4 DEF Window!TypeOK
<1>8. ASSUME NEW q \in Producers \ {p} PROVE Sends(q)' /\ Lives(q)' /\ Counts(q)'
  <2>1. Same(q) /\ OnlyLost /\ state' \in {"connected", "error"}
    BY <1>0, <1>1, <1>5, <1>6 DEF Same, OnlyLost, Window!TypeOK
  <2> QED
    BY <2>1, LeftAlone DEF WindowInv
<1>9. Sends(p)'
  <2>1. Window!Counted(p)' = Window!Counted(p) /\ Window!Written(p)' = Window!Written(p)
    BY <1>1 DEF Window!Counted, Window!Written
  <2>2. usage'[p] <= usage[p]
    BY <1>4, <1>6
  <2>3. usage'[p] \in Nat
    BY <1>4, <1>6
  <2> QED
    BY <1>0, <1>1, <1>4, <1>6, <2>1, <2>2, <2>3 DEF Sends
<1>10. Lives(p)'
  BY <1>0, <1>1, <1>3, <1>6 DEF Lives
<1>11. Counts(p)'
  <2>1. Counting(p)' = Counting(p) /\ Window!Usable(p)' = Window!Usable(p)
    BY <1>1, <1>6 DEF Counting, Window!Counted, Window!Usable
  <2>2. Counting(p) \in Nat
    BY <1>0, Typed DEF Counting, Sends
  <2>3. Window!Usable(p) => p \in map
    BY DEF Window!Usable
  <2>4. CASE p \in map /\ ~(size > usage[p])
    BY <1>0, <1>1, <1>3, <1>4, <1>5, <1>6, <2>1, <2>2, <2>4 DEF Counts
  <2>5. CASE p \in map /\ size > usage[p]
    <3>1. exact[p] => life[p] = "deleted"
      BY <1>0, <1>3, <1>4, <2>2, <2>5 DEF Counts
    <3>2. life[p] # "deleted"
      BY <1>0, <1>2, <2>5 DEF Lives, Window!TypeOK
    <3> QED
      BY <1>1, <3>1, <3>2 DEF Counts
  <2>6. CASE p \notin map
    BY <1>0, <1>1, <1>3, <1>4, <1>5, <1>6, <2>1, <2>2, <2>3, <2>6 DEF Counts
  <2> QED
    BY <2>4, <2>5, <2>6
<1>12. (state = "error" => ~reader)' /\ Window!NoStaleProducer'
  <2>1. p \in map => life[p] = "open"
    BY <1>0, <1>2 DEF Lives, Window!TypeOK
  <2> QED
    BY <1>1, <1>2, <2>1 DEF WindowInv, Window!NoStaleProducer
<1> QED
  BY <1>7, <1>8, <1>9, <1>10, <1>11, <1>12 DEF WindowInv

\* The connection is lost, and the reader ends.
LEMMA LossPreserves ==
    ASSUME WindowInv, Window!ReaderEnds \/ Window!ConnectionBreaks
    PROVE  WindowInv'
<1> Window!WindowAssumption
  BY DEF WindowInv
<1> USE DEF Window!ReaderEnds, Window!ConnectionBreaks, Window!sendVars
<1>0. Window!TypeOK
  BY DEF WindowInv
<1>1. <<>> \in Seq(Window!Sizes)
  OBVIOUS
<1>2. Window!TypeOK'
  BY <1>0, <1>1 DEF Window!TypeOK
<1>3. ASSUME NEW q \in Producers PROVE Sends(q)' /\ Lives(q)' /\ Counts(q)'
  <2>0. Sends(q) /\ Lives(q) /\ Counts(q)
    BY DEF WindowInv
  <2>1. CASE Window!ConnectionBreaks
    <3>1. Same(q) /\ OnlyLost /\ state' \in {"connected", "error"}
      BY <1>0, <2>1 DEF Same, OnlyLost, Window!TypeOK
    <3> QED
      BY <1>0, <2>0, <3>1, LeftAlone
  <2>2. CASE Window!ReaderEnds
    <3>1. Window!Counted(q)' = Window!Counted(q) /\ Window!Written(q)' = Window!Written(q) /\ Counting(q)' = Counting(q)
      BY <2>2 DEF Window!Counted, Window!Written, Counting
    <3>2. flight'[q] = <<>> /\ Window!Sum(flight'[q]) = 0 /\ ~Window!Usable(q)'
      BY <2>2, SumOfEmpty DEF Window!Usable
    <3>3. Window!Sum(flight[q]) \in Nat /\ Counting(q) \in Nat /\ usage[q] \in Nat
      BY <1>0, <2>0, Typed, FlightAdds DEF Counting, Sends
    <3>4. Sends(q)'
      BY <2>0, <2>2, <3>1 DEF Sends
    <3>5. Lives(q)'
      BY <1>0, <2>0, <2>2, <3>2 DEF Lives, Window!TypeOK
    <3>6. Counts(q)'
      BY <2>0, <2>2, <3>1, <3>2, <3>3, SizesAre DEF Counts
    <3> QED
      BY <3>4, <3>5, <3>6
  <2> QED
    BY <2>1, <2>2
<1>4. (state = "error" => ~reader)' /\ Window!NoStaleProducer'
  BY DEF WindowInv, Window!NoStaleProducer
<1> QED
  BY <1>2, <1>3, <1>4 DEF WindowInv

LEMMA WindowStepPreserves == WindowInv /\ [Window!Next]_(Window!vars) => WindowInv'
<1> SUFFICES ASSUME WindowInv, [Window!Next]_(Window!vars) PROVE WindowInv'
  OBVIOUS
<1>1. CASE UNCHANGED Window!vars
  <2>1. UNCHANGED <<map, life, usage, at, message, stale, exact, state, io, link, reader,
                    flight, undefined>>
    BY <1>1 DEF Window!vars, Window!sendVars, Window!ioVars
  <2>2. Window!TypeOK'
    BY <2>1 DEF WindowInv, Window!TypeOK
  <2>3. ASSUME NEW q \in Producers PROVE Sends(q)' /\ Lives(q)' /\ Counts(q)'
    <3>1. Same(q) /\ OnlyLost /\ state' \in {"connected", "error"}
      BY <2>1 DEF Same, OnlyLost, Window!TypeOK, WindowInv
    <3> QED
      BY <3>1, LeftAlone DEF WindowInv
  <2> QED
    BY <2>1, <2>2, <2>3 DEF WindowInv, Window!NoStaleProducer
<1>2. ASSUME NEW p \in Producers,
             Window!Create(p) \/ Window!Close(p) \/ Window!Disposed(p) \/ Window!Delete(p)
      PROVE  WindowInv'
  BY <1>2, LifePreserves
<1>3. ASSUME NEW p \in Producers, Window!Sending(p) PROVE WindowInv'
  BY <1>3, BeginPreserves, WindowFailPreserves DEF Window!Sending
<1>4. ASSUME NEW p \in Producers, Window!Going(p) PROVE WindowInv'
  BY <1>4, BeginPreserves, WritePreserves, WindowFailPreserves DEF Window!Going
<1>5. ASSUME NEW p \in Producers, Window!ProducerAck(p) PROVE WindowInv'
  BY <1>5, AckPreserves
<1>6. ASSUME Window!ReaderEnds \/ Window!ConnectionBreaks PROVE WindowInv'
  BY <1>6, LossPreserves
<1> QED
  BY <1>1, <1>2, <1>3, <1>4, <1>5, <1>6 DEF Window!Next

LEMMA WindowInductive == Window!WindowAssumption /\ Window!Spec => []WindowInv
  BY WindowInitEstablishes, WindowStepPreserves, PTL DEF Window!Spec

\* The variables have their types; a window is never filled beyond its limit by
\* more than one message, which TypeOK says of usage.
THEOREM WindowTypeCorrect == Window!WindowAssumption /\ Window!Spec => []Window!TypeOK
<1>1. WindowInv => Window!TypeOK
  BY DEF WindowInv
<1> QED
  BY <1>1, WindowInductive, PTL

\* Whatever the order of sends, acknowledgements, closes and failures: what a
\* window counts is what is on its way, no ProducerAck reaches a deleted producer.
THEOREM WindowIsKept == Window!WindowAssumption /\ Window!Spec => []Window!WindowHolds
<1>1. WindowInv => Window!WindowHolds
  <2> SUFFICES ASSUME WindowInv PROVE Window!UsageIsExact
    BY DEF WindowInv, Window!WindowHolds
  <2>1. ASSUME NEW p \in Producers, Window!Usable(p), exact[p]
        PROVE  usage[p] = Window!Sum(flight[p]) + Counting(p)
    BY <2>1 DEF WindowInv, Counts
  <2> QED
    BY <2>1 DEF Window!UsageIsExact, Counting
<1> QED
  BY <1>1, WindowInductive, PTL
=============================================================================
