------------------------- MODULE OpenWireConnection -------------------------
(***************************************************************************)
(* The life of one connection: the connector's state, the wire format      *)
(* negotiator below it and the thread that reads, from createConnection to *)
(* the deletion of connector and transport.                                *)
(*                                                                         *)
(* Threads: the Owner, that creates the connection, closes and deletes it; *)
(* the Users, that send once they have been given it; the reader of        *)
(* IOTransport::run.  A command that has been written is answered or fails *)
(* as RequestReply promises.  Of the wire format only the version is kept: *)
(* each option of renegotiateWireFormat is, like it, the lesser of two.    *)
(* The sessions' closes in ActiveMQConnection::close mark the producers as *)
(* closed and wait for nobody: a user that is in a send stays in it.       *)
(***************************************************************************)
EXTENDS Naturals

CONSTANTS Owner, Users,
          Preferred,       \* version of our own WireFormatInfo
          Supported,       \* versions setVersion has marshallers for
          BrokerVersions   \* versions the broker's WireFormatInfo may carry

ASSUME OwnerAssumption == Owner \notin Users
ASSUME VersionAssumption ==
    /\ Preferred \in Nat \ {0}
    /\ BrokerVersions \subseteq Nat \ {0}
    /\ Supported \subseteq Nat \ {0}
    /\ 1 \in Supported

VARIABLES
    state,        \* OpenWireConnector::state
    closed,       \* OpenWireFormatNegotiator::closed
    infoSent,     \* wireInfoSentDownLatch is open
    ready,        \* readyCountDownLatch is open
    version,      \* OpenWireFormat::version
    deleted,      \* connector, negotiator, format, reader and writer are gone
    stage,        \* position of the Owner
    at,           \* per thread: position in a command it sends
    writing,      \* per thread: the version it marshals with, 0 for none
    reader,       \* position of the reader
    info,         \* version in the broker's WireFormatInfo, 0 until it is read
    ioClosed,     \* IOTransport::closed
    broken,       \* the connection under the streams is lost
    refused,      \* history: a failure or a bad magic has opened ready
    gaveUp,       \* history: the reader's wait for infoSent timed out
    startFailed,  \* history: our WireFormatInfo could not be written
    raced,        \* history: two threads have closed the transport at once
    unjoined,     \* history: the connector was deleted while a user that closes
                  \* the transport was still waiting for the reader's end
    undefined     \* history: the reader has used a deleted object, or a
                  \* thread has been deleted twice

connectorVars == <<state, closed, infoSent, ready, version, deleted>>
threadVars == <<stage, at, writing>>
ioVars == <<reader, info, ioClosed, broken>>
historyVars == <<refused, gaveUp, startFailed, raced, unjoined, undefined>>
vars == <<connectorVars, threadVars, ioVars, historyVars>>

Threads == Users \cup {Owner}
Lesser(a, b) == IF a <= b THEN a ELSE b

ConnectorTypeOK ==
    /\ state \in {"disconnected", "connecting", "connected", "error"}
    /\ closed \in BOOLEAN /\ infoSent \in BOOLEAN /\ ready \in BOOLEAN
    /\ version \in Supported
    /\ deleted \in BOOLEAN

\* A thread writes with the version it has entered the write with.
ThreadsTypeOK ==
    /\ stage \in {"new", "starting", "opening", "connecting", "tagging", "given",
                  "closing", "disposing", "shutting", "hangup",
                  "deleting", "dropping", "gone"}
    /\ at \in [Threads -> {"idle", "called", "awaiting", "writing", "waiting",
                           "answered", "failed", "closing", "joining"}]
    /\ writing \in [Threads -> Supported \cup {0}]
    /\ \A t \in Threads : writing[t] # 0 <=> at[t] = "writing"

IoTypeOK ==
    /\ reader \in {"none", "looping", "reading", "awaitSent", "renegotiating",
                   "badTest", "badSet", "failTest", "failSet", "dead",
                   "terminated"}
    /\ info \in BrokerVersions \cup {0}
    /\ ioClosed \in BOOLEAN /\ broken \in BOOLEAN

HistoryTypeOK ==
    /\ refused \in BOOLEAN /\ gaveUp \in BOOLEAN /\ startFailed \in BOOLEAN
    /\ raced \in BOOLEAN /\ unjoined \in BOOLEAN /\ undefined \in BOOLEAN

TypeOK == ConnectorTypeOK /\ ThreadsTypeOK /\ IoTypeOK /\ HistoryTypeOK

Init ==
    /\ state = "disconnected"
    /\ closed = TRUE
    /\ infoSent = FALSE
    /\ ready = FALSE
    /\ version = 1
    /\ deleted = FALSE
    /\ stage = "new"
    /\ at = [t \in Threads |-> "idle"]
    /\ writing = [t \in Threads |-> 0]
    /\ reader = "none"
    /\ info = 0
    /\ ioClosed = FALSE
    /\ broken = FALSE
    /\ refused = FALSE
    /\ gaveUp = FALSE
    /\ startFailed = FALSE
    /\ raced = FALSE
    /\ unjoined = FALSE
    /\ undefined = FALSE

Goto(t, position) == at' = [at EXCEPT ![t] = position]

-----------------------------------------------------------------------------
(* One command: OpenWireFormatNegotiator::oneway and request *)

\* The test of closed with which both begin.
Enter(t) == Goto(t, IF closed THEN "failed" ELSE "awaiting")

\* Seeded fault: the command does not wait for the negotiation.
FaultNoWait(t) ==
    /\ at[t] = "awaiting"
    /\ Goto(t, "writing")
    /\ writing' = [writing EXCEPT ![t] = version]
    /\ UNCHANGED <<connectorVars, stage, ioVars, historyVars>>

\* ready has been opened: the command goes down and is marshalled with the
\* format as it is now.
ReadyOpens(t) ==
    /\ at[t] = "awaiting"
    /\ ready
    /\ Goto(t, "writing")
    /\ writing' = [writing EXCEPT ![t] = version]
    /\ UNCHANGED <<connectorVars, stage, ioVars, historyVars>>

\* negotiationTimeout is over: "peer did not send his wire format".
ReadyTimesOut(t) ==
    /\ at[t] = "awaiting"
    /\ ~ready
    /\ Goto(t, "failed")
    /\ UNCHANGED <<connectorVars, stage, writing, ioVars, historyVars>>

\* connect and disconnect send requests, disconnect a oneway at its end, and
\* the users either.
IsOneway(t) == t \in Users \/ stage = "shutting"
IsRequest(t) == t \in Users \/ stage # "shutting"

\* The command is written; a oneway is then done and a request waits.  On a
\* lost connection the write may still be buffered.
Written(t) ==
    /\ at[t] = "writing" /\ stage # "starting"
    /\ ~ioClosed
    /\ writing' = [writing EXCEPT ![t] = 0]
    /\ \/ IsOneway(t) /\ Goto(t, "answered")
       \/ IsRequest(t) /\ Goto(t, "waiting")
    /\ UNCHANGED <<connectorVars, stage, ioVars, historyVars>>

\* Seeded fault: the failed write leaves the stream's lock taken.
FaultStillWriting(t) ==
    /\ at[t] = "writing" /\ stage # "starting"
    /\ ioClosed \/ broken
    /\ Goto(t, "failed")
    /\ UNCHANGED <<connectorVars, stage, writing, ioVars, historyVars>>

\* It is not: the connection is lost or closed.
WriteFails(t) ==
    /\ at[t] = "writing" /\ stage # "starting"
    /\ ioClosed \/ broken
    /\ writing' = [writing EXCEPT ![t] = 0]
    /\ Goto(t, "failed")
    /\ UNCHANGED <<connectorVars, stage, ioVars, historyVars>>

\* The transport below returns the broker's answer.
Answered(t) ==
    /\ at[t] = "waiting"
    /\ reader = "reading" /\ ~broken /\ ~ioClosed
    /\ Goto(t, "answered")
    /\ UNCHANGED <<connectorVars, stage, writing, ioVars, historyVars>>

\* It fails: it has seen the connection fail, or closeTimeout is over.
Unanswered(t) ==
    /\ at[t] = "waiting"
    /\ \/ reader \in {"failTest", "failSet", "dead"}
       \/ t = Owner /\ stage = "disposing"
    /\ Goto(t, "failed")
    /\ UNCHANGED <<connectorVars, stage, writing, ioVars, historyVars>>

\* It also fails when its time is up, for a user that has set one, or when its
\* wait ends for no reason (RequestReply).  Neither has to happen.
NotAnswered(t) ==
    /\ at[t] = "waiting"
    /\ Goto(t, "failed")
    /\ UNCHANGED <<connectorVars, stage, writing, ioVars, historyVars>>

Proceeds(t) == \/ ReadyOpens(t) \/ ReadyTimesOut(t)
               \/ Written(t) \/ WriteFails(t) \/ Unanswered(t)

-----------------------------------------------------------------------------
(* transport->close(): the negotiator passes it on only when it is open *)

\* A thread that wants to close: IOTransport::close tests and sets its flag
\* without a lock, and joins the reader.
CloseTransport(t) ==
    /\ at[t] = "failed"
    /\ t = Owner => stage = "hangup"
    /\ Goto(t, IF closed \/ ioClosed THEN "idle" ELSE "closing")
    /\ closed' = (closed \/ ioClosed)
    /\ UNCHANGED <<state, infoSent, ready, version, deleted, stage, writing, ioVars,
                   historyVars>>

CloseStreams(t) ==
    /\ at[t] = "closing"
    /\ ioClosed' = TRUE
    /\ raced' = (raced \/ ioClosed)
    /\ Goto(t, "joining")
    /\ UNCHANGED <<connectorVars, stage, writing, reader, info, broken, refused, gaveUp,
                   startFailed, unjoined, undefined>>

\* The join returns, the thread is deleted and the negotiator marked closed.
\* Two threads that both came past the test delete the same thread.
Joined(t) ==
    /\ at[t] = "joining"
    /\ reader = "dead"
    /\ Goto(t, "idle")
    /\ closed' = TRUE
    /\ undefined' = (undefined \/ \E other \in Threads \ {t} : at[other] = "joining")
    /\ UNCHANGED <<state, infoSent, ready, version, deleted, stage, writing, ioVars,
                   refused, gaveUp, startFailed, raced, unjoined>>

-----------------------------------------------------------------------------
(* The users: OpenWireConnector::send *)

\* The producer has found itself open and calls the connector.
Send(u) ==
    /\ stage = "given" /\ at[u] = "idle"
    /\ Goto(u, "called")
    /\ UNCHANGED <<connectorVars, stage, writing, ioVars, historyVars>>

\* enforceConnected is inside the try block: when it throws, the transport is
\* closed like after any other failure.
Enforced(u) ==
    /\ at[u] = "called"
    /\ IF state # "connected" THEN Goto(u, "failed") ELSE Enter(u)
    /\ UNCHANGED <<connectorVars, stage, writing, ioVars, historyVars>>

Sent(u) ==
    /\ at[u] = "answered"
    /\ Goto(u, "idle")
    /\ UNCHANGED <<connectorVars, stage, writing, ioVars, historyVars>>

-----------------------------------------------------------------------------
(* The owner: createConnection *)

\* OpenWireFormatNegotiator::start: the transport is started, and with it
\* the reader; then our WireFormatInfo is written past all other filters.
StartTransport ==
    /\ stage = "new"
    /\ reader' = "looping"
    /\ stage' = "starting"
    /\ Goto(Owner, "writing")
    /\ writing' = [writing EXCEPT ![Owner] = version]
    /\ UNCHANGED <<connectorVars, info, ioClosed, broken, historyVars>>

\* The latch is opened whether or not the write succeeds; when it does not,
\* start throws, the negotiator stays closed, and createConnection's locals
\* are destroyed.
InfoWritten(fails) ==
    /\ stage = "starting"
    /\ fails => broken
    /\ infoSent' = TRUE
    /\ startFailed' = fails
    /\ stage' = IF fails THEN "closing" ELSE "opening"
    /\ Goto(Owner, "idle")
    /\ writing' = [writing EXCEPT ![Owner] = 0]
    /\ UNCHANGED <<state, closed, ready, version, deleted, ioVars, refused, gaveUp,
                   raced, unjoined, undefined>>

\* start ends, and connect sends its request.
Connect ==
    /\ stage = "opening"
    /\ closed' = FALSE
    /\ state' = "connecting"
    /\ stage' = "connecting"
    /\ Goto(Owner, "awaiting")
    /\ UNCHANGED <<infoSent, ready, version, deleted, writing, ioVars, historyVars>>

\* connect gets its answer: an ExceptionResponse makes it throw like a failed
\* request does, and createConnection's locals are destroyed.
Connected ==
    /\ stage = "connecting"
    /\ \/ at[Owner] = "answered" /\ stage' = "tagging"
       \/ at[Owner] \in {"answered", "failed"} /\ stage' = "closing"
    /\ Goto(Owner, "idle")
    /\ UNCHANGED <<connectorVars, writing, ioVars, historyVars>>

\* "Tag us in the Connected State now", whatever the state has become; the
\* connection is given to the application.
Tag ==
    /\ stage = "tagging"
    /\ state' = "connected"
    /\ stage' = "given"
    /\ UNCHANGED <<closed, infoSent, ready, version, deleted, at, writing, ioVars,
                   historyVars>>

-----------------------------------------------------------------------------
(* The owner: Connection::close and the destructors *)

\* Wherever the users are in their calls.
CloseConnection ==
    /\ stage = "given"
    /\ stage' = "closing"
    /\ UNCHANGED <<connectorVars, at, writing, ioVars, historyVars>>

\* OpenWireConnector::close, and disconnect up to its request.
Disconnect ==
    /\ stage = "closing"
    /\ state' = "disconnected"
    /\ IF state = "disconnected"
       THEN stage' = "deleting" /\ UNCHANGED at
       ELSE stage' = "disposing" /\ Enter(Owner)
    /\ UNCHANGED <<closed, infoSent, ready, version, deleted, writing, ioVars,
                   historyVars>>

\* The shutdown command follows the request when that is answered.
Disposed ==
    /\ stage = "disposing" /\ at[Owner] = "answered"
    /\ stage' = "shutting"
    /\ Enter(Owner)
    /\ UNCHANGED <<connectorVars, writing, ioVars, historyVars>>

\* The transport is closed at the end, or as soon as one of the two throws.
HangUp ==
    /\ \/ stage = "disposing" /\ at[Owner] = "failed"
       \/ stage = "shutting" /\ at[Owner] \in {"answered", "failed"}
    /\ stage' = "hangup"
    /\ Goto(Owner, "failed")
    /\ UNCHANGED <<connectorVars, writing, ioVars, historyVars>>

HungUp ==
    /\ stage = "hangup" /\ at[Owner] = "idle"
    /\ stage' = "deleting"
    /\ UNCHANGED <<connectorVars, at, writing, ioVars, historyVars>>

\* Seeded fault: the transport is deleted last, and not closed before.
FaultDeleteFirst ==
    /\ stage \in {"hangup", "deleting"}
    /\ deleted' = TRUE
    /\ stage' = "dropping"
    /\ Goto(Owner, IF ioClosed THEN "idle" ELSE "closing")
    /\ UNCHANGED <<state, closed, infoSent, ready, version, writing, ioVars, historyVars>>

\* ~OpenWireConnector: a state that the reader has set back to error makes it
\* disconnect again, which throws because the negotiator is closed.  The
\* negotiator's destructor closes the transport only when it was opened.
\* After the connector the transport itself is closed and deleted.
Delete ==
    /\ stage = "deleting"
    /\ deleted' = TRUE
    /\ state' = "disconnected"
    /\ stage' = "dropping"
    /\ Goto(Owner, IF ioClosed THEN "idle" ELSE "closing")
    /\ unjoined' = (unjoined \/ \E u \in Users : at[u] = "joining")
    /\ UNCHANGED <<closed, infoSent, ready, version, writing, ioVars, refused, gaveUp,
                   startFailed, raced, undefined>>

Dropped ==
    /\ stage = "dropping" /\ at[Owner] = "idle"
    /\ stage' = "gone"
    /\ UNCHANGED <<connectorVars, at, writing, ioVars, historyVars>>

-----------------------------------------------------------------------------
(* The reader: IOTransport::run and the callbacks above it *)

\* while( !closed )
ReaderLoops ==
    /\ reader = "looping"
    /\ reader' = IF ioClosed THEN "dead" ELSE "reading"
    /\ UNCHANGED <<connectorVars, threadVars, info, ioClosed, broken, historyVars>>

\* The broker's WireFormatInfo: onCommand waits until ours has been sent.
ReadsInfo(v) ==
    /\ reader = "reading" /\ ~ioClosed
    /\ info = 0
    /\ info' = v
    /\ reader' = "awaitSent"
    /\ UNCHANGED <<connectorVars, threadVars, ioClosed, broken, historyVars>>

\* The same with an invalid magic: ready is opened and the failure reported.
ReadsBadInfo(v) ==
    /\ reader = "reading" /\ ~ioClosed
    /\ info = 0
    /\ info' = v
    /\ ready' = TRUE
    /\ refused' = TRUE
    /\ reader' = "badTest"
    /\ UNCHANGED <<state, closed, infoSent, version, deleted, threadVars, ioClosed,
                   broken, gaveUp, startFailed, raced, unjoined, undefined>>

\* Seeded fault: the reader does not wait for our info to be sent.
FaultNoAwait ==
    /\ reader = "awaitSent"
    /\ reader' = "renegotiating"
    /\ UNCHANGED <<connectorVars, threadVars, info, ioClosed, broken, historyVars>>

\* wireInfoSentDownLatch.await returns, in time or not: its result is ignored.
AwaitsSent ==
    /\ reader = "awaitSent"
    /\ gaveUp' = ~infoSent
    /\ reader' = "renegotiating"
    /\ UNCHANGED <<connectorVars, threadVars, info, ioClosed, broken, refused,
                   startFailed, raced, unjoined, undefined>>

\* renegotiateWireFormat.
Renegotiate ==
    /\ reader = "renegotiating"
    /\ Lesser(Preferred, info) \in Supported
    /\ version' = Lesser(Preferred, info)
    /\ ready' = TRUE
    /\ reader' = "looping"
    /\ UNCHANGED <<state, closed, infoSent, deleted, threadVars, info, ioClosed,
                   broken, historyVars>>

\* A version without marshallers is an IllegalArgumentException of setVersion,
\* which the throw() clause of renegotiateWireFormat does not let out: the
\* program is terminated.
Terminate ==
    /\ reader = "renegotiating"
    /\ Lesser(Preferred, info) \notin Supported
    /\ reader' = "terminated"
    /\ UNCHANGED <<connectorVars, threadVars, info, ioClosed, broken, historyVars>>

\* Seeded fault: close leaves the input stream open.
FaultReadOn ==
    /\ reader = "reading"
    /\ broken
    /\ ready' = TRUE
    /\ refused' = TRUE
    /\ reader' = "failTest"
    /\ UNCHANGED <<state, closed, infoSent, version, deleted, threadVars, info, ioClosed,
                   broken, gaveUp, startFailed, raced, unjoined, undefined>>

\* readCommand throws, the connection being lost or closed: the negotiator's
\* onTransportException opens ready.
ReadFails ==
    /\ reader = "reading"
    /\ broken \/ ioClosed
    /\ ready' = TRUE
    /\ refused' = TRUE
    /\ reader' = "failTest"
    /\ UNCHANGED <<state, closed, infoSent, version, deleted, threadVars, info, ioClosed,
                   broken, gaveUp, startFailed, raced, unjoined, undefined>>

\* OpenWireConnector::onTransportException tests the state ...
TestState ==
    /\ reader \in {"failTest", "badTest"}
    /\ reader' = IF state # "disconnected"
                 THEN IF reader = "failTest" THEN "failSet" ELSE "badSet"
                 ELSE IF reader = "failTest" THEN "dead" ELSE "looping"
    /\ UNCHANGED <<connectorVars, threadVars, info, ioClosed, broken, historyVars>>

\* ... and sets it, with no lock.
SetError ==
    /\ reader \in {"failSet", "badSet"}
    /\ state' = "error"
    /\ reader' = IF reader = "failSet" THEN "dead" ELSE "looping"
    /\ UNCHANGED <<closed, infoSent, ready, version, deleted, threadVars, info, ioClosed,
                   broken, historyVars>>

ReaderProceeds ==
    \/ ReaderLoops \/ AwaitsSent \/ Renegotiate \/ Terminate
    \/ ReadFails \/ TestState \/ SetError

\* The command reader, the format and the listeners went with the connector:
\* the next step may still find them in memory, or crash the reader.
ReaderUsesDeleted ==
    /\ deleted
    /\ reader \notin {"none", "dead"}
    /\ undefined' = TRUE
    /\ reader' = "dead"
    /\ UNCHANGED <<connectorVars, threadVars, info, ioClosed, broken, refused, gaveUp,
                   startFailed, raced, unjoined>>

\* So may a user that is still in its call: it goes on as if nothing had
\* happened, or the call is over.
UserUsesDeleted(u) ==
    /\ deleted
    /\ at[u] # "idle"
    /\ Goto(u, "idle")
    /\ writing' = [writing EXCEPT ![u] = 0]
    /\ UNCHANGED <<connectorVars, stage, ioVars, historyVars>>

-----------------------------------------------------------------------------

ConnectionBreaks ==
    /\ ~broken /\ reader # "none"
    /\ broken' = TRUE
    /\ UNCHANGED <<connectorVars, threadVars, reader, info, ioClosed, historyVars>>

OwnerCloses == \/ Disconnect \/ Disposed \/ HangUp \/ HungUp \/ Delete \/ Dropped

ThreadProceeds(t) == \/ Proceeds(t) \/ CloseTransport(t) \/ CloseStreams(t) \/ Joined(t)

\* A terminated program takes no step.
Next ==
    /\ reader # "terminated"
    /\ \/ \E t \in Threads : ThreadProceeds(t) \/ Answered(t) \/ NotAnswered(t)
       \/ \E u \in Users : Send(u) \/ Enforced(u) \/ Sent(u) \/ UserUsesDeleted(u)
       \/ StartTransport
       \/ \E fails \in BOOLEAN : InfoWritten(fails)
       \/ Connect \/ Connected \/ Tag \/ CloseConnection \/ OwnerCloses
       \/ \E v \in BrokerVersions : ReadsInfo(v) \/ ReadsBadInfo(v)
       \/ ReaderProceeds \/ ReaderUsesDeleted
       \/ ConnectionBreaks

Spec == Init /\ [][Next]_vars

\* Threads keep running and their timed waits end.  The broker need not
\* answer, nor the connection break, nor the application call again.
Fairness ==
    /\ \A t \in Threads : WF_vars(ThreadProceeds(t))
    /\ WF_vars(OwnerCloses)
    /\ WF_vars(ReaderProceeds \/ ReaderUsesDeleted)

FairSpec == Spec /\ Fairness

-----------------------------------------------------------------------------
(* Properties *)

\* A command is marshalled with a format that does not change under it, and
\* that both sides understand (OpenWireFormatNegotiator.h:80: "First waits for
\* the WireFormatInfo exchange to happen so that we know how to encode
\* outbound data").  The exceptions are the code's: a reader that gave up
\* waiting changes the format under our own info, and a failure or a bad
\* magic lets commands out that have no agreed format.
AgreedFormat ==
    \A t \in Threads : writing[t] # 0 =>
        /\ writing[t] = version \/ (gaveUp /\ stage = "starting")
        /\ stage # "starting" => refused \/ (version <= info /\ version <= Preferred)

\* The reader never comes back to a connector that has been deleted, and its
\* thread is deleted once, on every path out of a connection but three: start
\* failed to write our info, so that the negotiator does not close what it
\* has started (OpenWireFormatNegotiator.cpp:257, 264); two threads, each
\* because its send failed or in the owner's close, close the transport at
\* once (OpenWireConnector.cpp:814, IOTransport.cpp:143-148); and the owner
\* finds the transport marked closed by a send that has failed, does not wait
\* for the reader as that send does, and deletes the connector.
NoUseOfDeleted ==
    undefined => startFailed \/ raced \/ unjoined

\* close() comes back, whatever the state in which it finds the connection
\* and wherever the users are: its request is timed, and closing the stream
\* wakes the reader it joins.  So does a send that closes the transport
\* because it failed.
CloseReturns ==
    /\ stage = "closing" ~> (stage = "gone" \/ reader = "terminated")
    /\ \A u \in Users :
          at[u] = "failed" ~> (at[u] = "idle" \/ reader = "terminated")

\* A transport whose close() has returned has "stop[ped] the polling thread"
\* (IOTransport.h:231), so that its listeners may be deleted.
ClosedIsStopped ==
    deleted /\ ~startFailed => reader \in {"none", "dead"}

\* "Mark the fact that we are in an error state" (OpenWireConnector.cpp:1480):
\* a connector that has seen its transport fail does not call itself
\* connected again.
ErrorIsKept == [][state = "error" => state' # "connected"]_vars
=============================================================================
