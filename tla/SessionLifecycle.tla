-------------------------- MODULE SessionLifecycle --------------------------
(***************************************************************************)
(* The sessions of an ActiveMQConnection: its start, stop and close walk   *)
(* over activeSessions while each session's own thread creates, uses and   *)
(* closes it, and the reader dispatches through the connection's map of    *)
(* dispatchers.                                                            *)
(*                                                                         *)
(* A session has one consumer.  Sessions are numbers: their addresses, in  *)
(* the order of which a std::set is walked.  activeSessions is read by     *)
(* start and stop without its lock, and changed under it in two steps, so  *)
(* that the race between them can be seen.                                 *)
(*                                                                         *)
(* The application makes one call of the connection at a time, none of a   *)
(* connection it has closed, and none of a session or consumer it has      *)
(* deleted.                                                                *)
(***************************************************************************)
EXTENDS Integers, FiniteSets, FiniteSetsExt

CONSTANTS Sessions,
          Consuming,     \* those that may have a consumer
          CanBreak

ASSUME SessionsAssumption == Sessions \subseteq Nat \ {0} /\ IsFiniteSet(Sessions)
ASSUME ConsumingAssumption == Consuming \subseteq Sessions
ASSUME CanBreakAssumption == CanBreak \in BOOLEAN

VARIABLES
    started, closed,  \* of the ActiveMQConnection
    connected,        \* connectionData, and with it connector and reader, exists
    broken,           \* the connection to the broker is lost
    active,           \* activeSessions
    changing,         \* the thread that adds to or removes from it
    dispatchers,      \* the sessions whose consumer is in the map
    life,             \* per session: not created, open, closed or deleted
    executor,         \* per session: its executor
    resource,         \* per session: its ConsumerInfo; "closed" if it is still
                      \* in closableSessionResources, "dangling" if it is but
                      \* has been deleted
    resourceLock,     \* per session: who holds closableSessionResources
    op, at,           \* per thread: the call it is in, and its position there
    wasStarted,       \* per thread: local of onConnectorResourceClosed
    target,           \* the session the Owner is closing
    todo,             \* start and close: their copy of activeSessions
    cursor,           \* stop: what its iterator points to
    reader,           \* the session the reader dispatches to, or Nobody
    unsent,           \* history: a consumer's close could not be sent
    clash,            \* history: calls of connection and session that overlapped
    undefined         \* something deleted has been used, or activeSessions read
                      \* while it changed: nothing is said of what follows

connectionVars == <<started, closed, connected, active, dispatchers>>
sessionVars == <<life, executor, resource>>
lockVars == <<changing, resourceLock>>
threadVars == <<op, at, wasStarted, target, todo, cursor>>
historyVars == <<unsent, clash, undefined>>
vars == <<connectionVars, broken, sessionVars, lockVars, threadVars, reader,
          historyVars>>

Owner == 0
Nobody == -1
End == -2
Threads == Sessions \cup {Owner}

\* The session a thread is busy with: each has a thread of its own.
Of(t) == IF t = Owner THEN target ELSE t

Positions ==
    {"idle", "requesting", "adding", "added", "starting", "registering",
     "subscribing", "resource", "disposing", "asking", "stopping", "removing",
     "purging", "forgetting", "closing", "locking", "unlocking", "entering",
     "leaving", "dropping", "joining", "copying", "walking", "disconnecting"}

SessionsTypeOK ==
    /\ active \subseteq {s \in Sessions : life[s] # "none"}
    /\ dispatchers \subseteq {s \in Sessions : resource[s] # "none"}
    /\ life \in [Sessions -> {"none", "open", "closed", "deleted"}]
    /\ executor \in [Sessions -> {"none", "stopped", "started", "ending", "gone"}]
    /\ resource \in [Sessions -> {"none", "open", "closed", "removed", "dangling"}]
    /\ \A s \in Sessions : executor[s] = "none" <=> life[s] = "none"

ThreadsTypeOK ==
    /\ at \in [Threads -> Positions]
    /\ op \in [Threads -> {"none", "create", "createConsumer", "closeConsumer",
                           "close", "start", "stop"}]
    /\ \A t \in Threads : op[t] = "none" <=> at[t] = "idle"
    /\ wasStarted \in [Threads -> BOOLEAN]
    /\ target \in Sessions \cup {Nobody} /\ reader \in Sessions \cup {Nobody}
    /\ todo \subseteq Sessions /\ cursor \in Sessions \cup {End}

LocksTypeOK ==
    /\ changing \in Threads \cup {Nobody}
    /\ changing # Nobody => at[changing] \in {"adding", "leaving"}
    /\ resourceLock \in [Sessions -> Threads \cup {Nobody}]

TypeOK ==
    /\ {started, closed, connected, broken, unsent, undefined} \subseteq BOOLEAN
    /\ clash \subseteq {"undone", "missed", "incompatible"}
    /\ SessionsTypeOK /\ ThreadsTypeOK /\ LocksTypeOK

Init ==
    /\ started = FALSE /\ closed = FALSE /\ connected = TRUE /\ broken = FALSE
    /\ active = {} /\ dispatchers = {}
    /\ changing = Nobody
    /\ life = [s \in Sessions |-> "none"]
    /\ executor = [s \in Sessions |-> "none"]
    /\ resource = [s \in Sessions |-> "none"]
    /\ resourceLock = [s \in Sessions |-> Nobody]
    /\ op = [t \in Threads |-> "none"]
    /\ at = [t \in Threads |-> "idle"]
    /\ wasStarted = [t \in Threads |-> FALSE]
    /\ target = Nobody /\ todo = {} /\ cursor = End /\ reader = Nobody
    /\ unsent = FALSE /\ clash = {} /\ undefined = FALSE

-----------------------------------------------------------------------------
Goto(t, position) == at' = [at EXCEPT ![t] = position]

\* What may come of a call of the connection that overlaps one of a session:
\* a stop is "undone" by a call that starts the session; a close has "missed"
\* what is created or closed meanwhile; or the two are "incompatible".
Clash(call, other) ==
    (IF call = "stop" /\ other \in {"create", "createConsumer", "closeConsumer"}
       THEN {"undone"} ELSE {})
    \cup (IF call = "close" /\ other \in {"create", "createConsumer", "closeConsumer"}
            THEN {"missed"} ELSE {})
    \cup (IF call = "close" \/ (call # "none" /\ other \in {"create", "close", "delete"})
            THEN {"incompatible"} ELSE {})

\* A call of a session begins, ...
SessionCall(s, call, position) ==
    /\ at[s] = "idle"
    /\ op' = [op EXCEPT ![s] = call]
    /\ Goto(s, position)
    /\ clash' = clash \cup Clash(op[Owner], call)

\* ... or one of the connection.
ConnectionCall(call, position) ==
    /\ at[Owner] = "idle" /\ ~closed
    /\ op' = [op EXCEPT ![Owner] = call]
    /\ Goto(Owner, position)
    /\ clash' = clash \cup
         UNION {Clash(call, op[s]) : s \in {r \in Sessions : op[r] # "none"}}

\* A session's thread returns; the Owner goes on to its next session.
Return(t) ==
    IF t = Owner
      THEN Goto(t, "walking") /\ UNCHANGED op
      ELSE Goto(t, "idle") /\ op' = [op EXCEPT ![t] = "none"]

\* ActiveMQSession::start and stop, on an executor that may be NULL.
StartExecutor(s) ==
    executor' = IF executor[s] = "stopped" THEN [executor EXCEPT ![s] = "started"]
                                           ELSE executor
StopExecutor(s) ==
    executor' = IF executor[s] = "started" THEN [executor EXCEPT ![s] = "stopped"]
                                           ELSE executor

Undefined(condition) == undefined' = (undefined \/ condition)

-----------------------------------------------------------------------------
(* createSession and createConsumer *)

Create(s) ==
    /\ life[s] = "none" /\ ~closed
    /\ SessionCall(s, "create", "requesting")
    /\ UNCHANGED <<connectionVars, broken, sessionVars, lockVars, wasStarted, target,
                   todo, cursor, reader, unsent, undefined>>

\* The broker has answered: the session is constructed, and activeSessions
\* locked.
Created(s) ==
    /\ at[s] = "requesting" /\ changing = Nobody
    /\ connected /\ ~broken
    /\ life' = [life EXCEPT ![s] = "open"]
    /\ executor' = [executor EXCEPT ![s] = "stopped"]
    /\ changing' = s
    /\ Goto(s, "adding")
    /\ UNCHANGED <<connectionVars, broken, resource, resourceLock, op, wasStarted,
                   target, todo, cursor, reader, historyVars>>

\* The request fails, or connectionData has gone while it was made.
CreateFails(s) ==
    /\ at[s] = "requesting" /\ (broken \/ ~connected)
    /\ Undefined(~connected)
    /\ Return(s)
    /\ UNCHANGED <<connectionVars, broken, sessionVars, lockVars, wasStarted, target,
                   todo, cursor, reader, unsent, clash>>

Added(s) ==
    /\ at[s] = "adding"
    /\ active' = active \cup {s}
    /\ changing' = Nobody
    /\ Goto(s, "added")
    /\ UNCHANGED <<started, closed, connected, dispatchers, broken, sessionVars,
                   resourceLock, op, wasStarted, target, todo, cursor, reader,
                   historyVars>>

\* "If we're already started, start the session."
TestsStarted(s) ==
    /\ at[s] = "added"
    /\ IF started THEN Goto(s, "starting") /\ UNCHANGED op ELSE Return(s)
    /\ UNCHANGED <<connectionVars, broken, sessionVars, lockVars, wasStarted, target,
                   todo, cursor, reader, historyVars>>

StartsSession(s) ==
    /\ at[s] = "starting"
    /\ StartExecutor(s)
    /\ Return(s)
    /\ UNCHANGED <<connectionVars, broken, life, resource, lockVars, wasStarted,
                   target, todo, cursor, reader, historyVars>>

\* The ConsumerInfo is created and put among the closable resources.
CreateConsumer(s) ==
    /\ s \in Consuming /\ life[s] = "open" /\ resource[s] = "none" /\ ~closed
    /\ resourceLock[s] = Nobody
    /\ SessionCall(s, "createConsumer", "registering")
    /\ resource' = [resource EXCEPT ![s] = "open"]
    /\ UNCHANGED <<connectionVars, broken, life, executor, lockVars, wasStarted, target,
                   todo, cursor, reader, unsent, undefined>>

AddDispatcher(s) ==
    /\ at[s] = "registering" /\ reader = Nobody
    /\ dispatchers' = dispatchers \cup {s}
    /\ Goto(s, "subscribing")
    /\ UNCHANGED <<started, closed, connected, active, broken, sessionVars, lockVars, op,
                   wasStarted, target, todo, cursor, reader, historyVars>>

Subscribed(s) ==
    /\ at[s] = "subscribing"
    /\ connected /\ ~broken
    /\ Return(s)
    /\ UNCHANGED <<connectionVars, broken, sessionVars, lockVars, wasStarted, target,
                   todo, cursor, reader, historyVars>>

\* startConsumer throws, and the consumer is closed and deleted again.
SubscribeFails(s) ==
    /\ at[s] = "subscribing" /\ (broken \/ ~connected)
    /\ Undefined(~connected)
    /\ Goto(s, "resource")
    /\ UNCHANGED <<connectionVars, broken, sessionVars, lockVars, op, wasStarted, target,
                   todo, cursor, reader, unsent, clash>>

-----------------------------------------------------------------------------
(* The close of a consumer: by its session's thread, which then deletes it  *)
(* (a delete without a close that throws leaks the ConsumerInfo instead),   *)
(* or in ActiveMQSession::close                                             *)

CloseConsumer(s) ==
    /\ resource[s] \in {"open", "closed"} /\ life[s] # "deleted"
    /\ SessionCall(s, "closeConsumer", "resource")
    /\ UNCHANGED <<connectionVars, broken, sessionVars, lockVars, wasStarted, target,
                   todo, cursor, reader, unsent, undefined>>

\* BaseConnectorResource::close has returned, or thrown.  A consumer is
\* deleted with its ConsumerInfo, whether or not that is still in the set.
AfterResource(t) ==
    IF op[t] = "close"
      THEN Goto(t, "unlocking") /\ UNCHANGED <<op, resource>>
      ELSE /\ Return(t)
           /\ resource' = IF resource[Of(t)] = "closed"
                            THEN [resource EXCEPT ![Of(t)] = "dangling"] ELSE resource

\* BaseConnectorResource::close up to the request of closeResource, which is
\* not made for a consumer that has not been started.
CloseResource(t) ==
    LET s == Of(t) IN
    /\ at[t] = "resource"
    /\ Undefined(resource[s] = "dangling" \/ ~connected)
    /\ IF resource[s] = "open"
         THEN /\ resource' = [resource EXCEPT ![s] = "closed"]
              /\ Goto(t, IF op[s] = "createConsumer" THEN "asking" ELSE "disposing")
              /\ UNCHANGED op
         ELSE AfterResource(t)
    /\ UNCHANGED <<connectionVars, broken, life, executor, lockVars, wasStarted, target,
                   todo, cursor, reader, unsent, clash>>

\* The broker has disposed of the consumer, or the connector is in its error
\* state and does not ask.
Disposed(t) ==
    /\ at[t] = "disposing"
    /\ Undefined(~connected)
    /\ Goto(t, "asking")
    /\ UNCHANGED <<connectionVars, broken, sessionVars, lockVars, op, wasStarted, target,
                   todo, cursor, reader, unsent, clash>>

\* closeResource throws: the session is not told.
DisposeFails(t) ==
    /\ at[t] = "disposing" /\ broken
    /\ unsent' = TRUE
    /\ AfterResource(t)
    /\ UNCHANGED <<connectionVars, broken, life, executor, lockVars, wasStarted, target,
                   todo, cursor, reader, clash, undefined>>

\* onConnectorResourceClosed asks whether the session is started, ...
Ask(t) ==
    LET s == Of(t) IN
    /\ at[t] = "asking"
    /\ Undefined(life[s] = "deleted")
    /\ IF life[s] # "open"
         THEN AfterResource(t) /\ UNCHANGED wasStarted
         ELSE /\ wasStarted' = [wasStarted EXCEPT ![t] = executor[s] = "started"]
              /\ Goto(t, IF executor[s] = "started" THEN "stopping" ELSE "removing")
              /\ UNCHANGED <<op, resource>>
    /\ UNCHANGED <<connectionVars, broken, life, executor, lockVars, target,
                   todo, cursor, reader, unsent, clash>>

\* ... stops it, ...
StopForCall(t) ==
    /\ at[t] = "stopping"
    /\ StopExecutor(Of(t))
    /\ Goto(t, "removing")
    /\ UNCHANGED <<connectionVars, broken, life, resource, lockVars, op, wasStarted,
                   target, todo, cursor, reader, historyVars>>

\* Seeded fault: the reader's lock is not taken.
FaultRemovesUnlocked(t) ==
    /\ at[t] = "removing"
    /\ dispatchers' = dispatchers \ {Of(t)}
    /\ Goto(t, "purging")
    /\ UNCHANGED <<started, closed, connected, active, broken, sessionVars, lockVars, op,
                   wasStarted, target, todo, cursor, reader, historyVars>>

\* ... removes the dispatcher, under the lock the reader dispatches with, ...
RemoveDispatcher(t) ==
    /\ at[t] = "removing" /\ reader = Nobody
    /\ dispatchers' = dispatchers \ {Of(t)}
    /\ Goto(t, "purging")
    /\ UNCHANGED <<started, closed, connected, active, broken, sessionVars, lockVars, op,
                   wasStarted, target, todo, cursor, reader, historyVars>>

\* Seeded fault: the session is started again whether or not it was started.
FaultRestarts(t) ==
    /\ at[t] = "purging"
    /\ Undefined(executor[Of(t)] = "ending")
    /\ StartExecutor(Of(t))
    /\ Goto(t, "forgetting")
    /\ UNCHANGED <<connectionVars, broken, life, resource, lockVars, op, wasStarted,
                   target, todo, cursor, reader, unsent, clash>>

\* ... purges the executor and starts it again, ...
Purge(t) ==
    /\ at[t] = "purging"
    /\ Undefined(executor[Of(t)] = "ending")
    /\ IF wasStarted[t] THEN StartExecutor(Of(t)) ELSE UNCHANGED executor
    /\ Goto(t, "forgetting")
    /\ UNCHANGED <<connectionVars, broken, life, resource, lockVars, op, wasStarted,
                   target, todo, cursor, reader, unsent, clash>>

\* ... and takes the resource out of the set.
Forget(t) ==
    LET s == Of(t) IN
    /\ at[t] = "forgetting" /\ resourceLock[s] \in {Nobody, t}
    /\ resource' = [resource EXCEPT ![s] = "removed"]
    /\ IF op[t] = "close" THEN Goto(t, "unlocking") /\ UNCHANGED op ELSE Return(t)
    /\ wasStarted' = [wasStarted EXCEPT ![t] = FALSE]
    /\ UNCHANGED <<connectionVars, broken, life, executor, lockVars, target,
                   todo, cursor, reader, historyVars>>
-----------------------------------------------------------------------------
(* ActiveMQSession::close, by the session's thread or by the Owner *)

CloseSession(s) ==
    /\ life[s] = "open"
    /\ SessionCall(s, "close", "closing")
    /\ UNCHANGED <<connectionVars, broken, sessionVars, lockVars, wasStarted, target,
                   todo, cursor, reader, unsent, undefined>>

\* closed is tested, the executor stopped.
CloseBegins(t) ==
    LET s == Of(t) IN
    /\ at[t] = "closing"
    /\ Undefined(life[s] = "deleted")
    /\ IF life[s] = "open"
         THEN Goto(t, "locking") /\ StopExecutor(s) /\ UNCHANGED op
         ELSE Return(t) /\ UNCHANGED executor
    /\ UNCHANGED <<connectionVars, broken, life, resource, lockVars, wasStarted, target,
                   todo, cursor, reader, unsent, clash>>

\* The lock of closableSessionResources is held while they are closed.
LockResources(t) ==
    LET s == Of(t) IN
    /\ at[t] = "locking" /\ resourceLock[s] = Nobody
    /\ resourceLock' = [resourceLock EXCEPT ![s] = t]
    /\ Goto(t, IF resource[s] \in {"none", "removed"} THEN "unlocking" ELSE "resource")
    /\ UNCHANGED <<connectionVars, broken, sessionVars, changing, op, wasStarted, target,
                   todo, cursor, reader, historyVars>>

UnlockResources(t) ==
    /\ at[t] = "unlocking"
    /\ resourceLock' = [resourceLock EXCEPT ![Of(t)] = Nobody]
    /\ Goto(t, "entering")
    /\ UNCHANGED <<connectionVars, broken, sessionVars, changing, op, wasStarted, target,
                   todo, cursor, reader, historyVars>>

\* removeSession, in two steps.
RemovesSession(t) ==
    /\ at[t] = "entering" /\ changing = Nobody
    /\ changing' = t
    /\ Goto(t, "leaving")
    /\ UNCHANGED <<connectionVars, broken, sessionVars, resourceLock, op, wasStarted,
                   target, todo, cursor, reader, historyVars>>

\* Seeded fault: removeSession returns with the set locked.
FaultStaysLocked(t) ==
    LET s == Of(t) IN
    /\ at[t] = "leaving"
    /\ active' = active \ {s}
    /\ Undefined(\E u \in Threads \ {t} : at[u] = "dropping" /\ Of(u) = s)
    /\ Goto(t, "dropping")
    /\ UNCHANGED <<started, closed, connected, dispatchers, broken, sessionVars,
                   lockVars, op, wasStarted, target, todo, cursor, reader, unsent, clash>>

\* Two threads delete the sessionInfo: each asks the broker to dispose of it.
RemovedSession(t) ==
    LET s == Of(t) IN
    /\ at[t] = "leaving"
    /\ active' = active \ {s}
    /\ changing' = Nobody
    /\ Undefined(\E u \in Threads \ {t} : at[u] = "dropping" /\ Of(u) = s)
    /\ Goto(t, "dropping")
    /\ UNCHANGED <<started, closed, connected, dispatchers, broken, sessionVars,
                   resourceLock, op, wasStarted, target, todo, cursor, reader,
                   unsent, clash>>

\* closed is set; the executor's destructor joins its thread.
MarkClosed(t) ==
    LET s == Of(t) IN
    /\ at[t] = "dropping"
    /\ Undefined(~connected \/ life[s] = "deleted" \/ executor[s] = "ending")
    /\ life' = [life EXCEPT ![s] = IF life[s] = "deleted" THEN "deleted" ELSE "closed"]
    /\ executor' = [executor EXCEPT ![s] = IF @ = "gone" THEN "gone" ELSE "ending"]
    /\ Goto(t, "joining")
    /\ UNCHANGED <<connectionVars, broken, resource, lockVars, op, wasStarted, target,
                   todo, cursor, reader, unsent, clash>>

ExecutorDeleted(t) ==
    LET s == Of(t) IN
    /\ at[t] = "joining"
    /\ executor' = [executor EXCEPT ![s] = "gone"]
    /\ Return(t)
    /\ UNCHANGED <<connectionVars, broken, life, resource, lockVars, wasStarted, target,
                   todo, cursor, reader, historyVars>>

\* The application deletes a session that is closed.
DeleteSession(s) ==
    /\ at[s] = "idle" /\ life[s] = "closed"
    /\ life' = [life EXCEPT ![s] = "deleted"]
    /\ clash' = clash \cup Clash(op[Owner], "delete")
    /\ UNCHANGED <<connectionVars, broken, executor, resource, lockVars, threadVars,
                   reader, unsent, undefined>>

-----------------------------------------------------------------------------
(* The connection's start, stop and close *)

Start ==
    /\ ConnectionCall("start", "copying")
    /\ started' = TRUE
    /\ UNCHANGED <<closed, connected, active, dispatchers, broken, sessionVars,
                   lockVars, wasStarted, target, todo, cursor, reader, unsent, undefined>>

\* toArray, without the lock.
CopySessions ==
    /\ at[Owner] = "copying"
    /\ todo' = active
    /\ Undefined(changing # Nobody)
    /\ Goto(Owner, "walking")
    /\ UNCHANGED <<connectionVars, broken, sessionVars, lockVars, op, wasStarted, target,
                   cursor, reader, unsent, clash>>

StartNext(s) ==
    /\ at[Owner] = "walking" /\ op[Owner] = "start" /\ s \in todo
    /\ Undefined(life[s] = "deleted")
    /\ StartExecutor(s)
    /\ todo' = todo \ {s}
    /\ UNCHANGED <<connectionVars, broken, life, resource, lockVars, op, at, wasStarted,
                   target, cursor, reader, unsent, clash>>

\* What a std::set's iterator points to after s, or at the start.
After(s) == LET rest == {r \in active : r > s}
            IN  IF rest = {} THEN End ELSE Min(rest)

Stop ==
    /\ ConnectionCall("stop", "walking")
    /\ started' = FALSE
    /\ cursor' = After(0)
    /\ Undefined(changing # Nobody)
    /\ UNCHANGED <<closed, connected, active, dispatchers, broken, sessionVars,
                   lockVars, wasStarted, target, todo, reader, unsent>>

\* iter->next()->stop(), without the lock: the iterator does not survive the
\* removal of what it points to.
StopNext ==
    /\ at[Owner] = "walking" /\ op[Owner] = "stop" /\ cursor # End
    /\ Undefined(cursor \notin active \/ changing # Nobody)
    /\ StopExecutor(cursor)
    /\ cursor' = After(cursor)
    /\ UNCHANGED <<connectionVars, broken, life, resource, lockVars, op, at, wasStarted,
                   target, todo, reader, unsent, clash>>

StartOrStopReturns ==
    /\ at[Owner] = "walking"
    /\ \/ op[Owner] = "start" /\ todo = {}
       \/ op[Owner] = "stop" /\ cursor = End
    /\ op' = [op EXCEPT ![Owner] = "none"]
    /\ Goto(Owner, "idle")
    /\ UNCHANGED <<connectionVars, broken, sessionVars, lockVars, wasStarted, target,
                   todo, cursor, reader, historyVars>>

\* close copies the set under its lock.
Close ==
    /\ ConnectionCall("close", "walking")
    /\ changing = Nobody
    /\ todo' = active
    /\ UNCHANGED <<connectionVars, broken, sessionVars, lockVars, wasStarted, target,
                   cursor, reader, unsent, undefined>>

CloseNext(s) ==
    /\ at[Owner] = "walking" /\ op[Owner] = "close" /\ s \in todo
    /\ target' = s
    /\ todo' = todo \ {s}
    /\ Goto(Owner, "closing")
    /\ UNCHANGED <<connectionVars, broken, sessionVars, lockVars, op, wasStarted,
                   cursor, reader, historyVars>>

CloseConnection ==
    /\ at[Owner] = "walking" /\ op[Owner] = "close" /\ todo = {}
    /\ started' = FALSE /\ closed' = TRUE
    /\ Goto(Owner, "disconnecting")
    /\ UNCHANGED <<connected, active, dispatchers, broken, sessionVars, lockVars, op,
                   wasStarted, target, todo, cursor, reader, historyVars>>

\* delete connectionData joins the reader.
Disconnect ==
    /\ at[Owner] = "disconnecting" /\ reader = Nobody
    /\ connected' = FALSE
    /\ op' = [op EXCEPT ![Owner] = "none"]
    /\ Goto(Owner, "idle")
    /\ target' = Nobody
    /\ UNCHANGED <<started, closed, active, dispatchers, broken, sessionVars, lockVars,
                   wasStarted, todo, cursor, reader, historyVars>>

-----------------------------------------------------------------------------
(* The reader: onConsumerMessage holds the lock of dispatchers from the    *)
(* lookup to the end of the dispatch                                       *)

OnConsumerMessage(s) ==
    /\ reader = Nobody /\ connected
    /\ s \in dispatchers
    /\ reader' = s
    /\ UNCHANGED <<connectionVars, broken, sessionVars, lockVars, threadVars, historyVars>>

Dispatched ==
    /\ reader # Nobody
    /\ Undefined(life[reader] = "deleted" \/ executor[reader] = "ending")
    /\ reader' = Nobody
    /\ UNCHANGED <<connectionVars, broken, sessionVars, lockVars, threadVars,
                   unsent, clash>>

ConnectionBreaks ==
    /\ CanBreak /\ ~broken
    /\ broken' = TRUE
    /\ UNCHANGED <<connectionVars, sessionVars, lockVars, threadVars, reader, historyVars>>

-----------------------------------------------------------------------------
Creating(s) ==
    \/ Created(s) \/ CreateFails(s) \/ Added(s) \/ TestsStarted(s) \/ StartsSession(s)
    \/ AddDispatcher(s) \/ Subscribed(s) \/ SubscribeFails(s)
Closing(t) ==
    \/ CloseResource(t) \/ Disposed(t) \/ DisposeFails(t) \/ Ask(t) \/ StopForCall(t)
    \/ RemoveDispatcher(t) \/ Purge(t) \/ Forget(t)
    \/ CloseBegins(t) \/ LockResources(t) \/ UnlockResources(t)
    \/ RemovesSession(t) \/ RemovedSession(t) \/ MarkClosed(t) \/ ExecutorDeleted(t)
Walking ==
    \/ CopySessions \/ StopNext \/ StartOrStopReturns \/ CloseConnection \/ Disconnect
    \/ \E s \in Sessions : StartNext(s) \/ CloseNext(s)

Next ==
    /\ ~undefined
    /\ \/ \E s \in Sessions :
            \/ Create(s) \/ CreateConsumer(s) \/ CloseConsumer(s)
            \/ CloseSession(s) \/ DeleteSession(s)
            \/ Creating(s) \/ OnConsumerMessage(s)
       \/ \E t \in Threads : Closing(t)
       \/ Start \/ Stop \/ Close \/ Walking
       \/ Dispatched \/ ConnectionBreaks

Spec == Init /\ [][Next]_vars

-----------------------------------------------------------------------------
AtRest == ~undefined /\ \A t \in Threads : at[t] = "idle"

\* "If we're already started, start the session" (ActiveMQConnection.cpp 104),
\* and start and stop reach all sessions: whenever no call is under way every
\* session runs exactly if its connection does, though start overlap the calls
\* of the sessions, and unless a stop has.
SessionsFollow ==
    AtRest /\ ~closed /\ "undone" \notin clash
    => \A s \in active : executor[s] = IF started THEN "started" ELSE "stopped"

\* "Closes this connection as well as any Sessions created from it (and those
\* Sessions' consumers and producers)" (cms/Connection.h 44-46), also those
\* that are being closed meanwhile, unless it has overlapped the creation of a
\* session or consumer or the close of a consumer, or that could not be sent.
CloseReachesAll ==
    AtRest /\ closed /\ "missed" \notin clash
    => /\ active = {}
       /\ \A s \in Sessions : life[s] \in {"none", "closed", "deleted"}
       /\ unsent \/ dispatchers = {}

ConnectionReaches == SessionsFollow /\ CloseReachesAll

\* Nothing deleted is used by connection, sessions or reader as long as the
\* application makes no incompatible calls at once, and no close of a consumer
\* is lost with the connection.
NothingDeleted == undefined => unsent \/ "incompatible" \in clash
=============================================================================
