------------------------- MODULE ResponseCorrelator -------------------------
(***************************************************************************)
(* transport/filters/ResponseCorrelator.cpp over transport/IOTransport.cpp *)
(* and the FutureResponse / CountDownLatch it waits on.                    *)
(*                                                                         *)
(* Threads: the Requesters, the reader thread of IOTransport::run, and the *)
(* owner, which starts and closes the correlator.  A synchronized(mapMutex)*)
(* block is one action.  A future response is named by the command id it   *)
(* was created for, a response by its correlation id; NULL is 0.           *)
(***************************************************************************)
EXTENDS Naturals

CONSTANTS Requesters,    \* threads that send requests
          Timed,         \* those that use request( command, timeout )
          MaxCommandId   \* bound on the command ids used in one behaviour

ASSUME TimedAssumption == Timed \subseteq Requesters
ASSUME MaxCommandIdAssumption == MaxCommandId \in Nat

VARIABLES
    closed,         \* ResponseCorrelator::closed
    nextCommandId,  \* ResponseCorrelator::nextCommandId
    requestMap,     \* the keys of ResponseCorrelator::requestMap
    live,           \* the FutureResponse objects that exist
    response,       \* FutureResponse::response of each of them
    latch,          \* and the count of its responseLatch
    pc, cmd, got,   \* per requester: position, command id, response read
    woken,          \* the requesters whose wait ended for no reason
    owner,          \* position of the thread that calls start and close
    ioClosed,       \* IOTransport::closed
    reader,         \* position of the thread that runs IOTransport::run
    readerCmd,      \* the response that thread has in hand
    broken,         \* the connection under the streams is lost
    inflight,       \* requests the broker has received and not yet answered
    wire,           \* responses on their way back
    answered,       \* history: the requests the broker has answered
    failedSends,    \* history: requests whose next->oneway threw
    closeCalled,    \* history: close() has been entered
    outcome         \* history: what each requester's last request returned

correlatorVars == <<closed, nextCommandId, requestMap, live, response, latch>>
callVars == <<pc, cmd, got, woken, outcome, failedSends>>
ioVars == <<ioClosed, reader, readerCmd>>
netVars == <<broken, inflight, wire, answered>>
ownerVars == <<owner, closeCalled>>
vars == <<correlatorVars, callVars, ioVars, netVars, ownerVars>>

NULL == 0
CommandIds == 1..MaxCommandId

FlagsTypeOK ==
    /\ closed \in BOOLEAN
    /\ ioClosed \in BOOLEAN
    /\ broken \in BOOLEAN
    /\ closeCalled \in BOOLEAN

ThreadsTypeOK ==
    /\ pc \in [Requesters ->
                 {"idle", "registered", "writing", "waiting", "cleanup", "oneway"}]
    /\ owner \in {"idle", "started", "swept", "joining", "joined"}
    /\ reader \in {"unstarted", "looping", "reading", "delivering",
                   "failing", "dead"}

CommandsTypeOK ==
    /\ nextCommandId \in 1..(MaxCommandId + 1)
    /\ requestMap \subseteq CommandIds
    /\ live \subseteq CommandIds
    /\ response \in [CommandIds -> CommandIds \cup {NULL}]
    /\ latch \in [CommandIds -> 0..1]
    /\ cmd \in [Requesters -> CommandIds \cup {NULL}]
    /\ got \in [Requesters -> CommandIds \cup {NULL}]
    /\ woken \subseteq Requesters
    /\ readerCmd \in CommandIds \cup {NULL}
    /\ inflight \subseteq CommandIds
    /\ wire \subseteq CommandIds
    /\ answered \subseteq CommandIds
    /\ failedSends \subseteq CommandIds
    /\ outcome \in [Requesters -> CommandIds \cup {NULL}]

TypeOK == FlagsTypeOK /\ ThreadsTypeOK /\ CommandsTypeOK

Init ==
    /\ closed = TRUE
    /\ nextCommandId = 1
    /\ requestMap = {}
    /\ live = {}
    /\ response = [id \in CommandIds |-> NULL]
    /\ latch = [id \in CommandIds |-> 1]
    /\ pc = [r \in Requesters |-> "idle"]
    /\ cmd = [r \in Requesters |-> NULL]
    /\ got = [r \in Requesters |-> NULL]
    /\ woken = {}
    /\ owner = "idle"
    /\ ioClosed = FALSE
    /\ reader = "unstarted"
    /\ readerCmd = NULL
    /\ broken = FALSE
    /\ inflight = {}
    /\ wire = {}
    /\ answered = {}
    /\ failedSends = {}
    /\ closeCalled = FALSE
    /\ outcome = [r \in Requesters |-> NULL]

-----------------------------------------------------------------------------
(* FutureResponse and its latch *)

\* Seeded fault: countDown without its test for a latch that is already 0.
FaultCountBelowZero(ids, value) ==
    /\ response' = [id \in CommandIds |-> IF id \in ids THEN value ELSE response[id]]
    /\ latch' = [id \in CommandIds |-> IF id \in ids THEN latch[id] - 1 ELSE latch[id]]

\* Seeded fault: the response is stored and the latch is not released.
FaultNoCountDown(ids, value) ==
    /\ response' = [id \in CommandIds |-> IF id \in ids THEN value ELSE response[id]]
    /\ latch' = latch

\* FutureResponse::setResponse on the futures of ids: the response is
\* overwritten whether or not one was set before; countDown leaves a latch
\* alone that is already 0.
SetResponse(ids, value) ==
    /\ response' = [id \in CommandIds |-> IF id \in ids THEN value ELSE response[id]]
    /\ latch' = [id \in CommandIds |-> IF id \in ids THEN 0 ELSE latch[id]]

\* Seeded fault: only the first future of the map is woken.
FaultWakeFirst ==
    SetResponse({id \in requestMap : \A other \in requestMap : id <= other}, NULL)

\* close() and onTransportException(): every future in the map gets NULL.
WakeAll == SetResponse(requestMap, NULL)

\* Seeded fault: a wait that returns without the latch being open.
FaultNoWait(r) == TRUE

\* Seeded fault: the timeout is ignored.
FaultNoTimeout(r) == latch[cmd[r]] = 0 \/ r \in woken

\* CountDownLatch::await returns at count 0, a timed one also when its time is
\* up.  It tests the count once, before it waits, and not again afterwards: a
\* wait that the operating system ends for no reason is the end of it.
LatchOpen(r) == latch[cmd[r]] = 0 \/ r \in Timed \/ r \in woken

-----------------------------------------------------------------------------
(* The requesters *)

\* IOTransport::oneway finds the transport neither closed nor unstarted.
IOAccepts == ~ioClosed /\ reader # "unstarted"

\* ResponseCorrelator::request up to the insertion in the map: the command
\* gets its id and its future is registered before anything is sent.
Request(r) ==
    /\ pc[r] = "idle"
    /\ nextCommandId <= MaxCommandId
    /\ nextCommandId' = nextCommandId + 1
    /\ cmd' = [cmd EXCEPT ![r] = nextCommandId]
    /\ live' = live \cup {nextCommandId}
    /\ response' = [response EXCEPT ![nextCommandId] = NULL]
    /\ latch' = [latch EXCEPT ![nextCommandId] = 1]
    /\ requestMap' = requestMap \cup {nextCommandId}
    /\ pc' = [pc EXCEPT ![r] = "registered"]
    /\ UNCHANGED <<closed, got, woken, outcome, failedSends, ioVars, netVars, ownerVars>>

\* next->oneway: IOTransport tests its flags before it takes the lock of the
\* stream, and the transport may be closed in between.
PassIOChecks(r) ==
    /\ pc[r] = "registered"
    /\ IOAccepts
    /\ pc' = [pc EXCEPT ![r] = "writing"]
    /\ UNCHANGED <<correlatorVars, cmd, got, woken, outcome, failedSends, ioVars,
                   netVars, ownerVars>>

\* The command is written.  On a broken connection the write may still be
\* buffered, but nothing reaches the broker.
SendRequest(r) ==
    /\ pc[r] = "writing"
    /\ inflight' = IF broken THEN inflight ELSE inflight \cup {cmd[r]}
    /\ pc' = [pc EXCEPT ![r] = "waiting"]
    /\ UNCHANGED <<correlatorVars, cmd, got, woken, outcome, failedSends, ioVars,
                   broken, wire, answered, ownerVars>>

\* next->oneway throws, because a test fails or because the write does on a
\* lost or closed connection: the request fails and leaves its future in the
\* map.
SendRequestFails(r) ==
    /\ \/ pc[r] = "registered" /\ ~IOAccepts
       \/ pc[r] = "writing" /\ (broken \/ ioClosed)
    /\ failedSends' = failedSends \cup {cmd[r]}
    /\ outcome' = [outcome EXCEPT ![r] = NULL]
    /\ cmd' = [cmd EXCEPT ![r] = NULL]
    /\ pc' = [pc EXCEPT ![r] = "idle"]
    /\ UNCHANGED <<correlatorVars, got, woken, ioVars, netVars, ownerVars>>

\* Mutex::wait passes a spurious wakeup of apr_thread_cond_wait on (to a timed
\* request it is no different from its timeout).
WakesForNothing(r) ==
    /\ pc[r] = "waiting"
    /\ r \notin Timed
    /\ latch[cmd[r]] # 0
    /\ woken' = woken \cup {r}
    /\ UNCHANGED <<correlatorVars, pc, cmd, got, outcome, failedSends, ioVars,
                   netVars, ownerVars>>

\* getResponse: wait on the latch, then read the response with no lock held.
GetResponse(r) ==
    /\ pc[r] = "waiting"
    /\ LatchOpen(r)
    /\ got' = [got EXCEPT ![r] = response[cmd[r]]]
    /\ pc' = [pc EXCEPT ![r] = "cleanup"]
    /\ UNCHANGED <<correlatorVars, cmd, woken, outcome, failedSends, ioVars, netVars,
                   ownerVars>>

\* Seeded fault: the future is deleted and stays in the map.
FaultDeleteInMap(r) ==
    /\ pc[r] = "cleanup"
    /\ live' = live \ {cmd[r]}
    /\ outcome' = [outcome EXCEPT ![r] = got[r]]
    /\ cmd' = [cmd EXCEPT ![r] = NULL]
    /\ got' = [got EXCEPT ![r] = NULL]
    /\ woken' = woken \ {r}
    /\ pc' = [pc EXCEPT ![r] = "idle"]
    /\ UNCHANGED <<closed, nextCommandId, requestMap, response, latch, failedSends,
                   ioVars, netVars, ownerVars>>

\* Seeded fault: the map is cleaned up only when there is a response.
FaultKeepOnTimeout(r) ==
    /\ pc[r] = "cleanup"
    /\ requestMap' = IF got[r] = NULL THEN requestMap ELSE requestMap \ {cmd[r]}
    /\ live' = IF got[r] = NULL THEN live ELSE live \ {cmd[r]}
    /\ outcome' = [outcome EXCEPT ![r] = got[r]]
    /\ cmd' = [cmd EXCEPT ![r] = NULL]
    /\ got' = [got EXCEPT ![r] = NULL]
    /\ woken' = woken \ {r}
    /\ pc' = [pc EXCEPT ![r] = "idle"]
    /\ UNCHANGED <<closed, nextCommandId, response, latch, failedSends, ioVars,
                   netVars, ownerVars>>

\* Under mapMutex the future is erased and deleted; then the response is
\* returned, or an exception thrown when it is NULL.
Cleanup(r) ==
    /\ pc[r] = "cleanup"
    /\ requestMap' = requestMap \ {cmd[r]}
    /\ live' = live \ {cmd[r]}
    /\ outcome' = [outcome EXCEPT ![r] = got[r]]
    /\ cmd' = [cmd EXCEPT ![r] = NULL]
    /\ got' = [got EXCEPT ![r] = NULL]
    /\ woken' = woken \ {r}
    /\ pc' = [pc EXCEPT ![r] = "idle"]
    /\ UNCHANGED <<closed, nextCommandId, response, latch, failedSends, ioVars,
                   netVars, ownerVars>>

\* ResponseCorrelator::oneway: an id is used up, then closed is tested.
Oneway(r) ==
    /\ pc[r] = "idle"
    /\ nextCommandId <= MaxCommandId
    /\ nextCommandId' = nextCommandId + 1
    /\ pc' = IF closed THEN pc ELSE [pc EXCEPT ![r] = "oneway"]
    /\ UNCHANGED <<closed, requestMap, live, response, latch, cmd, got, woken,
                   outcome, failedSends, ioVars, netVars, ownerVars>>

\* next->oneway for a command nobody answers: whether it is written or
\* refused, this model keeps no trace of it.
SendOneway(r) ==
    /\ pc[r] = "oneway"
    /\ pc' = [pc EXCEPT ![r] = "idle"]
    /\ UNCHANGED <<correlatorVars, cmd, got, woken, outcome, failedSends, ioVars,
                   netVars, ownerVars>>

-----------------------------------------------------------------------------
(* The network and the broker: external *)

BrokerAnswers(id) ==
    /\ id \in inflight
    /\ ~broken
    /\ inflight' = inflight \ {id}
    /\ wire' = wire \cup {id}
    /\ answered' = answered \cup {id}
    /\ UNCHANGED <<correlatorVars, callVars, ioVars, broken, ownerVars>>

ConnectionBreaks ==
    /\ ~broken
    /\ broken' = TRUE
    /\ inflight' = {}
    /\ UNCHANGED <<correlatorVars, callVars, ioVars, wire, answered, ownerVars>>

-----------------------------------------------------------------------------
(* The reader thread: IOTransport::run *)

\* while( !closed ): a reader that finds the transport closed ends quietly.
ReaderLoops ==
    /\ reader = "looping"
    /\ reader' = IF ioClosed THEN "dead" ELSE "reading"
    /\ UNCHANGED <<correlatorVars, callVars, ioClosed, readerCmd, netVars,
                   ownerVars>>

\* reader->readCommand() returns a response.
ReaderReads(id) ==
    /\ reader = "reading"
    /\ ~ioClosed
    /\ id \in wire
    /\ wire' = wire \ {id}
    /\ readerCmd' = id
    /\ reader' = "delivering"
    /\ UNCHANGED <<correlatorVars, callVars, ioClosed, broken, inflight,
                   answered, ownerVars>>

\* Seeded fault: close() leaves the input stream open, so that the reader
\* stays in its read.
FaultReaderNotWoken ==
    /\ reader = "reading"
    /\ broken
    /\ reader' = "failing"
    /\ UNCHANGED <<correlatorVars, callVars, ioClosed, readerCmd, netVars,
                   ownerVars>>

\* readCommand throws: the connection is lost, or close() has closed the
\* input stream under it.
ReaderFails ==
    /\ reader = "reading"
    /\ broken \/ ioClosed
    /\ reader' = "failing"
    /\ UNCHANGED <<correlatorVars, callVars, ioClosed, readerCmd, netVars,
                   ownerVars>>

\* Seeded fault: the response goes to any request that is waiting.
FaultAnyFuture ==
    /\ reader = "delivering"
    /\ \E id \in requestMap : SetResponse({id}, readerCmd)
    /\ readerCmd' = NULL
    /\ reader' = "looping"
    /\ UNCHANGED <<closed, nextCommandId, requestMap, live, callVars, ioClosed,
                   netVars, ownerVars>>

\* ResponseCorrelator::onCommand (a command that is no response is passed on
\* and changes nothing here): only a response whose correlation id is
\* still in the map is handed to the future registered for it.
OnCommand ==
    /\ reader = "delivering"
    /\ SetResponse({readerCmd} \cap requestMap, readerCmd)
    /\ readerCmd' = NULL
    /\ reader' = "looping"
    /\ UNCHANGED <<closed, nextCommandId, requestMap, live, callVars, ioClosed,
                   netVars, ownerVars>>

\* ResponseCorrelator::onTransportException, the last thing the reader does.
OnTransportException ==
    /\ reader = "failing"
    /\ WakeAll
    /\ reader' = "dead"
    /\ UNCHANGED <<closed, nextCommandId, requestMap, live, callVars, ioClosed,
                   readerCmd, netVars, ownerVars>>

-----------------------------------------------------------------------------
(* The owner: start and close *)

\* start() on a closed correlator starts IOTransport, which refuses once it
\* has been closed itself and does nothing when its thread already runs.
StartNext ==
    /\ owner = "idle"
    /\ closed
    /\ ~ioClosed
    /\ reader' = IF reader = "unstarted" THEN "looping" ELSE reader
    /\ owner' = "started"
    /\ UNCHANGED <<correlatorVars, callVars, ioClosed, readerCmd, netVars,
                   closeCalled>>

StartOpens ==
    /\ owner = "started"
    /\ closed' = FALSE
    /\ owner' = "idle"
    /\ UNCHANGED <<nextCommandId, requestMap, live, response, latch, callVars, ioVars,
                   netVars, closeCalled>>

\* close(), first half: wake every outstanding request.
CloseSweep ==
    /\ owner = "idle"
    /\ closeCalled' = TRUE
    /\ WakeAll
    /\ owner' = "swept"
    /\ UNCHANGED <<closed, nextCommandId, requestMap, live, callVars, ioVars, netVars>>

\* next->close(), unless the correlator is closed already.  IOTransport::close
\* marks itself closed and closes the input stream.
CloseNext ==
    /\ owner = "swept"
    /\ ioClosed' = IF closed THEN ioClosed ELSE TRUE
    /\ owner' = IF closed \/ ioClosed THEN "joined" ELSE "joining"
    /\ UNCHANGED <<correlatorVars, callVars, reader, readerCmd, netVars,
                   closeCalled>>

\* thread->join()
CloseJoins ==
    /\ owner = "joining"
    /\ reader = "dead"
    /\ owner' = "joined"
    /\ UNCHANGED <<correlatorVars, callVars, ioVars, netVars, closeCalled>>

CloseMarks ==
    /\ owner = "joined"
    /\ closed' = TRUE
    /\ owner' = "idle"
    /\ UNCHANGED <<nextCommandId, requestMap, live, response, latch, callVars, ioVars,
                   netVars, closeCalled>>

-----------------------------------------------------------------------------
RequesterStep(r) ==
    \/ Request(r)
    \/ PassIOChecks(r) \/ SendRequest(r) \/ SendRequestFails(r)
    \/ WakesForNothing(r) \/ GetResponse(r) \/ Cleanup(r)
    \/ Oneway(r) \/ SendOneway(r)

ReaderStep ==
    \/ ReaderLoops
    \/ \E id \in CommandIds : ReaderReads(id)
    \/ ReaderFails
    \/ OnCommand
    \/ OnTransportException

OwnerStep ==
    \/ StartNext \/ StartOpens
    \/ CloseSweep \/ CloseNext \/ CloseJoins \/ CloseMarks

NetworkStep == ConnectionBreaks \/ \E id \in CommandIds : BrokerAnswers(id)

Next ==
    \/ \E r \in Requesters : RequesterStep(r)
    \/ ReaderStep
    \/ OwnerStep
    \/ NetworkStep

Spec == Init /\ [][Next]_vars

\* A thread inside a call keeps running: the scheduler is fair to it.  No
\* thread has to start a call, the network owes nothing, and no wait has to
\* end without a reason.
Fairness ==
    /\ \A r \in Requesters :
         /\ WF_vars(PassIOChecks(r) \/ SendRequest(r) \/ SendRequestFails(r))
         /\ WF_vars(GetResponse(r))
         /\ WF_vars(Cleanup(r))
         /\ WF_vars(SendOneway(r))
    /\ WF_vars(ReaderStep)
    /\ WF_vars(StartOpens)
    /\ WF_vars(CloseNext)
    /\ WF_vars(CloseJoins)
    /\ WF_vars(CloseMarks)

FairSpec == Spec /\ Fairness

-----------------------------------------------------------------------------
(* Properties *)

\* The map holds exactly the futures of the requests under way and of those
\* whose send threw (the leak its TODO admits): a response always finds the
\* request it belongs to, and a request that returned, with or without a
\* response, leaves nothing behind.
MapIsExact ==
    requestMap = {cmd[r] : r \in {q \in Requesters : cmd[q] # NULL}}
                   \cup failedSends

\* What onCommand, close and onTransportException find in the map, and what a
\* waiting requester holds, has not been deleted (the comment at 102-105).
NoUseAfterDelete ==
    /\ requestMap \subseteq live
    /\ \A r \in Requesters : cmd[r] # NULL => cmd[r] \in live

\* The book-keeping of futures, which every thread shares: nothing that can be
\* found is deleted, and nothing that is deleted or done can be found.
FuturesAreKept == MapIsExact /\ NoUseAfterDelete

\* A requester never reads the response to somebody else's command, nor the
\* late response to one of its own earlier commands.
OwnResponse ==
    \A r \in Requesters : got[r] # NULL => got[r] = cmd[r] /\ got[r] \in answered

\* A request that is waiting when the transport fails is released: the
\* exception handler reaches every future, also one without a timeout.
WaiterReleasedOnFailure ==
    \A r \in Requesters :
      (pc[r] = "waiting" /\ reader = "failing") ~> pc[r] = "idle"

\* A request with a timeout returns whatever the broker, the connection and
\* the owner do.
TimedReturns ==
    \A r \in Timed : pc[r] = "registered" ~> pc[r] = "idle"

\* A request the broker has answered returns, also when the connection is
\* lost while the response is on its way, as long as nobody closes.
AnsweredReturns ==
    \A r \in Requesters :
      (pc[r] = "waiting" /\ cmd[r] \in answered)
         ~> (pc[r] = "idle" \/ closeCalled)

\* close() returns: the reader thread it joins always comes to its end.
CloseReturns == owner = "swept" ~> owner = "idle"

\* No call waits for ever: a failure releases the waiting, a timeout or an
\* answer the others, and close() its join.
CallsEnd == WaiterReleasedOnFailure /\ TimedReturns /\ AnsweredReturns /\ CloseReturns

\* No request hangs once the exception handler has run: the purpose its
\* comment (287-288) gives for releasing the outstanding requests.
NoHangAfterFailure ==
    \A r \in Requesters :
      (pc[r] = "waiting" /\ reader = "dead") ~> pc[r] = "idle"

\* An untimed wait ends at count zero: "Waits for the Count to be zero, and
\* then returns" (CountDownLatch.h:56-57), which FutureResponse.h:33-36 builds
\* on.  A wakeup for no reason refutes it, while the transport is up.
AwaitsZero ==
    \A r \in Requesters \ Timed : pc[r] = "cleanup" => latch[cmd[r]] = 0

-----------------------------------------------------------------------------
(* The promise of RequestReply, kept *)

Phase ==
    IF broken \/ ioClosed \/ closeCalled THEN "down"
    ELSE IF reader = "unstarted" THEN "new" ELSE "up"

Promise == INSTANCE RequestReply WITH
    calling <- cmd,
    used <- 1..(nextCommandId - 1),
    phase <- Phase,
    disturbed <- woken

\* Every step of the correlator is a step of RequestReply: ids are never
\* reused, a call ends with the answer to its own command, and without a
\* timeout it fails only when the transport is not up or when its wait ended
\* for no reason.
ImplementsRequestReply == Promise!Spec
=============================================================================
