------------------------- MODULE StompSubscriptions -------------------------
(***************************************************************************)
(* Consumers of one Stomp connection: StompSessionManager shares one       *)
(* subscription per destination among them, under its mutex, and           *)
(* StompConnector::closeResource, ActiveMQConsumer and ActiveMQSession end *)
(* the life of each consumer's ConsumerInfo.                               *)
(*                                                                         *)
(* Threads: one per consumer, that creates, closes and deletes it or       *)
(* closes its session; the reader, that delivers messages and handles an   *)
(* ERROR frame; the Owner, that closes the connector.  transport->close()  *)
(* joins the reader, and is called with a lock held in three places.       *)
(***************************************************************************)
EXTENDS Naturals, FiniteSets

CONSTANTS Consumers, Destinations,
          dest              \* per consumer: its destination

ASSUME DestinationAssumption == dest \in [Consumers -> Destinations]

VARIABLES
    known,        \* destinations with an entry in destinationMap
    entry,        \* per destination: the consumers of its entry
    mutex,        \* holder of the manager's mutex, or none
    at,           \* per consumer: position of its thread
    call,         \* per consumer: what that thread is doing
    info,         \* per consumer: its ConsumerInfo
    amq,          \* per consumer: its ActiveMQConsumer
    subscribed,   \* destinations subscribed to by what has been written
    state,        \* StompConnector is connected
    io,           \* IOTransport is not closed
    link,         \* the connection under it holds
    reader,       \* position of the reader
    incoming,     \* destination of the message it has read
    owner,        \* position of the thread that closes the connector
    lost,         \* history: an unsubscription could not be written
    undefined     \* history: a deleted ConsumerInfo has been used

managerVars == <<known, entry, mutex, subscribed>>
consumerVars == <<at, call, info, amq>>
ioVars == <<state, io, link, reader, incoming, owner>>
vars == <<managerVars, consumerVars, ioVars, lost, undefined>>

None == "none"

ASSUME NoneAssumption == None \notin Consumers

\* A ConsumerInfo is "closed" when its listeners have been told, "freed" when
\* its consumer has deleted it then; "dangling" when closeResource has, with
\* session and consumer still referring to it.
ManagerTypeOK ==
    /\ known \subseteq Destinations
    /\ entry \in [Destinations -> SUBSET Consumers]
    /\ mutex \in Consumers \cup {None}
    /\ subscribed \subseteq Destinations
    /\ \A d \in Destinations \ known : entry[d] = {}

ConsumersTypeOK ==
    /\ at \in [Consumers -> {"idle", "starting", "subscribing", "removing",
                             "unsubscribing", "closing", "joining"}]
    /\ call \in [Consumers -> {None, "start", "close", "session", "delete"}]
    /\ info \in [Consumers -> {"absent", "live", "closed", "freed", "dangling"}]
    /\ amq \in [Consumers -> {"absent", "open", "closed", "deleted"}]

IoTypeOK ==
    /\ state \in BOOLEAN /\ io \in BOOLEAN /\ link \in BOOLEAN
    /\ lost \in BOOLEAN /\ undefined \in BOOLEAN
    /\ reader \in {"reading", "delivering", "closing", "dead"}
    /\ incoming \in Destinations \cup {None}
    /\ owner \in {"idle", "locking", "joining", "done"}

\* Positions go with calls, and the mutex with the positions under it.
PositionsOK ==
    \A c \in Consumers :
        /\ at[c] = "idle" <=> call[c] = None
        /\ at[c] \in {"subscribing", "unsubscribing", "closing", "joining"} <=> mutex = c

TypeOK == ManagerTypeOK /\ ConsumersTypeOK /\ IoTypeOK /\ PositionsOK

Init ==
    /\ known = {}
    /\ entry = [d \in Destinations |-> {}]
    /\ mutex = None
    /\ at = [c \in Consumers |-> "idle"]
    /\ call = [c \in Consumers |-> None]
    /\ info = [c \in Consumers |-> "absent"]
    /\ amq = [c \in Consumers |-> "absent"]
    /\ subscribed = {}
    /\ state = TRUE
    /\ io = TRUE
    /\ link = TRUE
    /\ reader = "reading"
    /\ incoming = None
    /\ owner = "idle"
    /\ lost = FALSE
    /\ undefined = FALSE

Goto(c, position) == at' = [at EXCEPT ![c] = position]
Begins(c, position, what) ==
    /\ at[c] = "idle"
    /\ Goto(c, position)
    /\ call' = [call EXCEPT ![c] = what]

-----------------------------------------------------------------------------
(* What becomes of the objects when a call has gone through the manager *)

\* removeConsumer has returned: the listeners close the ActiveMQConsumer and
\* take the ConsumerInfo from the session, the destructor deletes it.
Removed(c) ==
    /\ Goto(c, "idle")
    /\ call' = [call EXCEPT ![c] = None]
    /\ info' = [info EXCEPT ![c] = IF call[c] = "delete" THEN "freed" ELSE "closed"]
    /\ amq' = [amq EXCEPT ![c] = IF call[c] = "delete" THEN "deleted" ELSE "closed"]

\* It has thrown: closeResource deletes the ConsumerInfo, and no listener is
\* told.  ActiveMQConsumer::close notes the exception and counts as closed;
\* the session, which called close of the ConsumerInfo, absorbs it.
NotRemoved(c) ==
    /\ Goto(c, "idle")
    /\ call' = [call EXCEPT ![c] = None]
    /\ info' = [info EXCEPT ![c] = "dangling"]
    /\ amq' = [amq EXCEPT ![c] = CASE call[c] = "close" -> "closed"
                                   [] call[c] = "session" -> @
                                   [] call[c] = "delete" -> "deleted"]

-----------------------------------------------------------------------------
(* StompSessionManager::startConsumer, called by createConsumer *)

CreateConsumer(c) ==
    /\ info[c] = "absent" /\ state
    /\ Begins(c, "starting", "start")
    /\ info' = [info EXCEPT ![c] = "live"]
    /\ amq' = [amq EXCEPT ![c] = "open"]
    /\ UNCHANGED <<managerVars, ioVars, lost, undefined>>

\* A start that fails is undone by deleting the consumer, which removes it.
Undone(c) ==
    /\ Goto(c, "removing")
    /\ call' = [call EXCEPT ![c] = "delete"]
    /\ UNCHANGED <<info, amq>>

\* enforceConnected throws.
NotConnected(c) ==
    /\ at[c] = "starting" /\ ~state
    /\ Undone(c)
    /\ UNCHANGED <<managerVars, ioVars, lost, undefined>>

\* The first of a destination subscribes, those after it only join in.
StartConsumer(c) ==
    /\ at[c] = "starting" /\ mutex = None
    /\ known' = known \cup {dest[c]}
    /\ IF entry[dest[c]] = {}
         THEN /\ Goto(c, "subscribing")
              /\ mutex' = c
              /\ UNCHANGED <<entry, call>>
         ELSE /\ entry' = [entry EXCEPT ![dest[c]] = @ \cup {c}]
              /\ Goto(c, "idle")
              /\ call' = [call EXCEPT ![c] = None]
              /\ UNCHANGED mutex
    /\ UNCHANGED <<subscribed, info, amq, ioVars, lost, undefined>>

\* On a lost connection the command may still be buffered.
Subscribe(c) ==
    /\ at[c] = "subscribing" /\ io
    /\ subscribed' = subscribed \cup {dest[c]}
    /\ entry' = [entry EXCEPT ![dest[c]] = @ \cup {c}]
    /\ mutex' = None
    /\ Goto(c, "idle")
    /\ call' = [call EXCEPT ![c] = None]
    /\ UNCHANGED <<known, info, amq, ioVars, lost, undefined>>

-----------------------------------------------------------------------------
(* StompSessionManager::removeConsumer, called by closeResource *)

\* Seeded fault: the consumer is removed once the broker has been told.
FaultRemoveConsumer(c) ==
    /\ at[c] = "removing" /\ mutex = None
    /\ IF entry[dest[c]] \subseteq {c} /\ dest[c] \in known
         THEN /\ Goto(c, "unsubscribing")
              /\ mutex' = c
              /\ UNCHANGED <<entry, call, info, amq>>
         ELSE /\ Removed(c)
              /\ UNCHANGED <<entry, mutex>>
    /\ UNCHANGED <<known, subscribed, ioVars, lost, undefined>>

\* Seeded fault: only the last consumer is removed from the entry.
FaultRemovesLast(c) ==
    /\ at[c] = "removing" /\ mutex = None
    /\ IF entry[dest[c]] \subseteq {c} /\ dest[c] \in known
         THEN /\ Goto(c, "unsubscribing")
              /\ mutex' = c
              /\ entry' = [entry EXCEPT ![dest[c]] = {}]
              /\ UNCHANGED <<call, info, amq>>
         ELSE /\ Removed(c)
              /\ UNCHANGED <<entry, mutex>>
    /\ UNCHANGED <<known, subscribed, ioVars, lost, undefined>>

RemoveConsumer(c) ==
    /\ at[c] = "removing" /\ mutex = None
    /\ entry' = [entry EXCEPT ![dest[c]] = @ \ {c}]
    /\ IF entry'[dest[c]] = {} /\ dest[c] \in known
         THEN /\ Goto(c, "unsubscribing")
              /\ mutex' = c
              /\ UNCHANGED <<call, info, amq>>
         ELSE /\ Removed(c)
              /\ UNCHANGED mutex
    /\ UNCHANGED <<known, subscribed, ioVars, lost, undefined>>

Unsubscribe(c) ==
    /\ at[c] = "unsubscribing" /\ io
    /\ subscribed' = subscribed \ {dest[c]}
    /\ mutex' = None
    /\ Removed(c)
    /\ UNCHANGED <<known, entry, ioVars, lost, undefined>>

\* The command cannot be written: transport->close(), the mutex still held.
WriteFails(c) ==
    /\ at[c] \in {"subscribing", "unsubscribing"} /\ (~io \/ ~link)
    /\ lost' = (lost \/ at[c] = "unsubscribing")
    /\ Goto(c, IF io THEN "joining" ELSE "closing")
    /\ io' = FALSE
    /\ UNCHANGED <<managerVars, call, info, amq, state, link, reader, incoming, owner,
                   undefined>>

Joined(c) ==
    /\ at[c] = "joining" /\ reader = "dead"
    /\ Goto(c, "closing")
    /\ UNCHANGED <<managerVars, call, info, amq, ioVars, lost, undefined>>

\* Seeded fault: the exception passes an unlock by hand.
FaultStaysLocked(c) ==
    /\ at[c] = "closing"
    /\ IF call[c] = "start" THEN Undone(c) ELSE NotRemoved(c)
    /\ UNCHANGED <<managerVars, ioVars, lost, undefined>>

\* The exception leaves the mutex.
Throws(c) ==
    /\ at[c] = "closing"
    /\ mutex' = None
    /\ IF call[c] = "start" THEN Undone(c) ELSE NotRemoved(c)
    /\ UNCHANGED <<known, entry, subscribed, ioVars, lost, undefined>>

-----------------------------------------------------------------------------
(* The end of a consumer *)

CloseConsumer(c) ==
    /\ at[c] = "idle" /\ amq[c] = "open" /\ info[c] \in {"live", "dangling"}
    /\ IF info[c] = "live"
         THEN Begins(c, "removing", "close") /\ UNCHANGED undefined
         ELSE undefined' = TRUE /\ UNCHANGED <<at, call>>
    /\ UNCHANGED <<managerVars, info, amq, ioVars, lost>>

\* ActiveMQSession::close closes each ConsumerInfo it has not been told of.
CloseSession(c) ==
    /\ at[c] = "idle" /\ info[c] \in {"live", "dangling"}
    /\ IF info[c] = "live"
         THEN Begins(c, "removing", "session") /\ UNCHANGED undefined
         ELSE undefined' = TRUE /\ UNCHANGED <<at, call>>
    /\ UNCHANGED <<managerVars, info, amq, ioVars, lost>>

\* ~ActiveMQConsumer: close, unless that has been done, and the deletion.
DeleteConsumer(c) ==
    /\ at[c] = "idle" /\ amq[c] \in {"open", "closed"}
    /\ \/ /\ info[c] = "live"
          /\ Begins(c, "removing", "delete")
          /\ UNCHANGED <<info, amq, undefined>>
       \/ /\ info[c] = "closed"
          /\ info' = [info EXCEPT ![c] = "freed"]
          /\ amq' = [amq EXCEPT ![c] = "deleted"]
          /\ UNCHANGED <<at, call, undefined>>
       \/ /\ info[c] = "dangling"
          /\ amq' = [amq EXCEPT ![c] = "deleted"]
          /\ undefined' = TRUE
          /\ UNCHANGED <<at, call, info>>
    /\ UNCHANGED <<managerVars, ioVars, lost>>

-----------------------------------------------------------------------------
(* The reader, and the Owner *)

\* A message, perhaps one that was under way when its subscription ended.
ReadMessage(d) ==
    /\ reader = "reading" /\ io /\ d \in known
    /\ reader' = "delivering"
    /\ incoming' = d
    /\ UNCHANGED <<managerVars, consumerVars, state, io, link, owner, lost, undefined>>

\* onStompCommand, under the mutex: to every consumer of the entry.
Deliver ==
    /\ reader = "delivering" /\ mutex = None
    /\ undefined' = (undefined \/ \E c \in entry[incoming] : info[c] # "live")
    /\ reader' = "reading"
    /\ incoming' = None
    /\ UNCHANGED <<managerVars, consumerVars, state, io, link, owner, lost>>

\* An ERROR frame: StompConnector::close on the reader's own thread, which
\* tests state, ...
ReadError ==
    /\ reader = "reading" /\ io
    /\ reader' = IF state THEN "closing" ELSE "reading"
    /\ UNCHANGED <<managerVars, consumerVars, state, io, link, incoming, owner, lost,
                   undefined>>

\* ... takes the connector's mutex, disconnects and closes the transport: the
\* join of itself fails, and the loop then finds it closed.
CloseByError ==
    /\ reader = "closing" /\ owner # "joining"
    /\ state' = FALSE
    /\ io' = FALSE
    /\ reader' = "dead"
    /\ UNCHANGED <<managerVars, consumerVars, link, incoming, owner, lost, undefined>>

\* Seeded fault: the input stream is not closed before the join.
FaultReadsOn ==
    /\ reader = "reading" /\ ~link
    /\ reader' = "dead"
    /\ UNCHANGED <<managerVars, consumerVars, state, io, link, incoming, owner, lost,
                   undefined>>

\* IOTransport::run ends; onTransportException leaves state as it is.
ReaderEnds ==
    /\ reader = "reading" /\ (~io \/ ~link)
    /\ reader' = "dead"
    /\ UNCHANGED <<managerVars, consumerVars, state, io, link, incoming, owner, lost,
                   undefined>>

\* StompConnector::close: the test of state, ...
CloseConnector ==
    /\ owner = "idle"
    /\ owner' = IF state THEN "locking" ELSE "done"
    /\ UNCHANGED <<managerVars, consumerVars, state, io, link, reader, incoming, lost,
                   undefined>>

\* ... under the mutex disconnect and transport->close(), which joins the reader.
Disconnect ==
    /\ owner = "locking"
    /\ state' = FALSE
    /\ io' = FALSE
    /\ owner' = IF io THEN "joining" ELSE "done"
    /\ UNCHANGED <<managerVars, consumerVars, link, reader, incoming, lost, undefined>>

ConnectorClosed ==
    /\ owner = "joining" /\ reader = "dead"
    /\ owner' = "done"
    /\ UNCHANGED <<managerVars, consumerVars, state, io, link, reader, incoming, lost,
                   undefined>>

ConnectionBreaks ==
    /\ link
    /\ link' = FALSE
    /\ UNCHANGED <<managerVars, consumerVars, state, io, reader, incoming, owner, lost,
                   undefined>>

-----------------------------------------------------------------------------
Calling(c) ==
    \/ NotConnected(c) \/ StartConsumer(c) \/ Subscribe(c)
    \/ RemoveConsumer(c) \/ Unsubscribe(c) \/ WriteFails(c) \/ Joined(c) \/ Throws(c)

Next ==
    \/ \E c \in Consumers :
           \/ CreateConsumer(c) \/ Calling(c)
           \/ CloseConsumer(c) \/ CloseSession(c) \/ DeleteConsumer(c)
    \/ \E d \in Destinations : ReadMessage(d)
    \/ Deliver \/ ReadError \/ CloseByError \/ ReaderEnds
    \/ CloseConnector \/ Disconnect \/ ConnectorClosed \/ ConnectionBreaks

\* Threads go on when they can; nobody wants the mutex for ever.
Fairness ==
    /\ \A c \in Consumers : WF_vars(Calling(c))
    /\ WF_vars(Deliver) /\ WF_vars(CloseByError) /\ WF_vars(ReaderEnds)
    /\ WF_vars(Disconnect) /\ WF_vars(ConnectorClosed)

Spec == Init /\ [][Next]_vars
FairSpec == Spec /\ Fairness

-----------------------------------------------------------------------------
\* A destination is subscribed to exactly while it has consumers, whatever
\* the order in which they come and go, as long as commands can be written.
SubscribedWhileUsed ==
    io => \A d \in Destinations : mutex # None \/ (d \in subscribed <=> entry[d] # {})

\* Neither the reader nor session or consumer use a deleted ConsumerInfo, as
\* long as every unsubscription could be written.
InfoIsValid == undefined => lost

\* The reader waits for a lock held by the thread that joins it.
JoinUnderLock ==
    \/ reader = "delivering" /\ \E c \in Consumers : mutex = c /\ at[c] = "joining"
    \/ reader = "closing" /\ owner = "joining"

\* Every call returns, and the connector is closed: nothing but a join of the
\* reader under a lock the reader wants can keep them.
CallsReturn ==
    /\ \A c \in Consumers : call[c] # None ~> (call[c] = None \/ JoinUnderLock)
    /\ owner # "idle" ~> (owner = "done" \/ JoinUnderLock)

\* Connector.h says of closeResource that the caller must still delete the
\* resource; so the consumer and the session do.
CallerDeletes == ~undefined

=============================================================================
