--------------------------- MODULE SessionConsumer ---------------------------
(***************************************************************************)
(* core/ActiveMQConsumer.cpp in an AUTO_ACKNOWLEDGE session: a message's   *)
(* way from the transport's reader through the session's executor to a     *)
(* listener or to receive(), while consumers get their listener, are       *)
(* closed and are deleted.                                                 *)
(*                                                                         *)
(* Threads: the reader; the executor's Dispatcher; App, that uses the      *)
(* session; a thread that receives; Owner, that starts and stops the       *)
(* connection.  A session is used by one thread at a time, so one call of  *)
(* App or of a listener is under way at most; a close may overtake a       *)
(* receive.  No listener is set on a consumer whose receive is under way.  *)
(*                                                                         *)
(* What a deleted consumer leads to is undefined: the model stops there.   *)
(***************************************************************************)
EXTENDS Naturals, Sequences, SequencesExt, FiniteSets

CONSTANTS App, Owner, Dispatcher,
          MaxMessage,   \* bound: the broker sends the messages 1..MaxMessage
          Consumers, ConsumerOf,
          Closing,      \* bound: the consumers that may be closed
          Receiving,    \* bound: those that receive() may be called on
          CanBreak      \* the connection may break

ASSUME ThreadsAssumption == Cardinality({App, Owner, Dispatcher}) = 3
ASSUME MaxMessageAssumption == MaxMessage \in Nat
ASSUME ConsumersAssumption == Consumers # {} /\ Receiving \subseteq Consumers

Messages == 1..MaxMessage

ASSUME ConsumerOfAssumption == ConsumerOf \in [Messages -> Consumers]

VARIABLES
    \* the executor's, see SessionExecutor
    started, closed, messageQueue, thread, dataList, current, closer, quiet,
    \* ActiveMQConnection and the connector
    connStarted,      \* ActiveMQConnection::started
    state,            \* OpenWireConnector::state: "connected", "error", or
                      \* "broken": no longer works, the reader does not know
    consumerInfoMap,  \* OpenWireConnector::consumerInfoMap
    dispatchers,      \* ActiveMQConnection::dispatchers
    consumers,        \* ActiveMQSession::consumers
    \* the consumers'
    listening,        \* those with a listener
    closedConsumers,  \* ActiveMQConsumer::closed
    deleted,          \* those deleted by the application
    unconsumed,       \* ActiveMQConsumer::unconsumedMessages
    \* the threads'
    reader,           \* what the reader passes to the connection: <<>> or <<m>>
    position,         \* of the Dispatcher in dispatch()
    receiver,         \* the thread that receives
    call,             \* the call of App, or of the listener, under way
    reversedList,     \* ActiveMQSession::redispatch's local
    \* history
    sent,             \* messages the broker has sent
    given,            \* given to the application
    acked,            \* acknowledged
    expired,          \* expired on their way
    lost,             \* freed or leaked, neither given nor expired
    raced,            \* consumers whose listener was set in a running session
    mishaps,          \* what the session's calls are not prepared for
    undefined         \* the thread that used a deleted consumer

executorVars == <<started, closed, messageQueue, thread, dataList, current,
                  closer, quiet>>
connectionVars == <<connStarted, state, consumerInfoMap, dispatchers,
                    consumers>>
consumerVars == <<listening, closedConsumers, deleted, unconsumed>>
historyVars == <<sent, given, acked, expired, lost, raced, mishaps>>

vars == <<executorVars, connectionVars, consumerVars, reader, position,
          receiver, call, reversedList, historyVars, undefined>>

Executor == INSTANCE SessionExecutor WITH Callers <- {App, Owner}

AnyConsumer == CHOOSE c \in Consumers : TRUE

NoCall == [op |-> "none", at |-> "none", by |-> App, on |-> AnyConsumer,
           wasStarted |-> FALSE]

CallPositions == {"none", "resource", "asking", "stopping", "working",
                  "redispatching", "removing", "purging", "restarting",
                  "marking", "emptying", "notifying"}

NoReceive == [at |-> "idle", on |-> AnyConsumer,
              forever |-> FALSE, message |-> <<>>]

AtMostOne == {<<>>} \cup {<<m>> : m \in Messages}

TypeOK ==
    /\ Executor!TypeOK
    /\ connStarted \in BOOLEAN
    /\ state \in {"connected", "broken", "error"}
    /\ consumerInfoMap \subseteq Consumers
    /\ dispatchers \subseteq Consumers /\ consumers \subseteq Consumers
    /\ listening \subseteq Consumers
    /\ deleted \subseteq closedConsumers /\ closedConsumers \subseteq Consumers
    /\ unconsumed \in [Consumers -> Seq(Messages)]
    /\ reader \in AtMostOne
    /\ position \in {"idle", "entered", "found", "pushing", "listening"}
    /\ position = "idle" <=> current = <<>>
    /\ receiver \in [at : {"idle", "testing", "waiting", "took"},
                     on : Consumers, forever : BOOLEAN, message : AtMostOne]
    /\ receiver.at = "took" <=> receiver.message # <<>>
    /\ call \in [op : {"none", "listen", "close"}, at : CallPositions,
                 by : {App, Dispatcher}, on : Consumers, wasStarted : BOOLEAN]
    /\ call.op = "none" <=> call = NoCall
    /\ reversedList \in Seq(Messages)
    /\ sent \subseteq Messages
    /\ given \cup expired \cup lost \subseteq sent
    /\ acked \subseteq sent
    /\ raced \subseteq listening
    /\ mishaps \subseteq {"start", "stop", "unsent", "inside"}
    /\ undefined \in {"no", "reader", "dispatcher"}

Init ==
    /\ Executor!Init
    /\ connStarted = FALSE /\ state = "connected"
    /\ consumerInfoMap = Consumers /\ dispatchers = Consumers
    /\ consumers = Consumers
    /\ listening = {} /\ closedConsumers = {} /\ deleted = {}
    /\ unconsumed = [c \in Consumers |-> <<>>]
    /\ reader = <<>> /\ position = "idle"
    /\ receiver = NoReceive /\ call = NoCall /\ reversedList = <<>>
    /\ sent = {} /\ given = {} /\ acked = {} /\ expired = {} /\ lost = {}
    /\ raced = {} /\ mishaps = {} /\ undefined = "no"

\* The messages of q that are for consumer c.
For(c, q) == {m \in ToSet(q) : ConsumerOf[m] = c}

\* ActiveMQConsumer::acknowledge goes through; else it throws.
AckWorks(c) == c \notin closedConsumers /\ state = "connected"

\* A message found expired is acknowledged; it is leaked when that throws.
Expires(m) ==
    IF AckWorks(ConsumerOf[m])
    THEN /\ acked' = acked \cup {m}
         /\ expired' = expired \cup {m}
         /\ UNCHANGED lost
    ELSE lost' = lost \cup {m} /\ UNCHANGED <<acked, expired>>

-----------------------------------------------------------------------------
(* The reader: OpenWireConnector::onCommand *)

\* The next message comes in; its consumer's info is looked up under the lock
\* of consumerInfoMap, and used when that lock has been released.
OnCommand ==
    /\ state = "connected" /\ reader = <<>>
    /\ \E m \in Messages \ sent :
         /\ \A n \in Messages \ sent : ConsumerOf[n] = ConsumerOf[m] => m <= n
         /\ sent' = sent \cup {m}
         /\ IF ConsumerOf[m] \in consumerInfoMap
            THEN reader' = <<m>> /\ UNCHANGED lost
            ELSE lost' = lost \cup {m} /\ UNCHANGED reader
    /\ UNCHANGED <<executorVars, connectionVars, consumerVars, position,
                   receiver, call, reversedList, given, acked, expired, raced,
                   mishaps, undefined>>

\* ActiveMQConnection::onConsumerMessage: the message goes to the dispatcher
\* registered for the consumer, with the lock of dispatchers held.  Without
\* one getValue throws, and the message is leaked.
OnConsumerMessage ==
    /\ reader # <<>>
    /\ ConsumerOf[reader[1]] \notin deleted
    /\ IF ConsumerOf[reader[1]] \in dispatchers
       THEN Executor!Execute(reader[1]) /\ UNCHANGED lost
       ELSE lost' = lost \cup ToSet(reader) /\ UNCHANGED executorVars
    /\ reader' = <<>>
    /\ UNCHANGED <<connectionVars, consumerVars, position, receiver, call,
                   reversedList, sent, given, acked, expired, raced, mishaps,
                   undefined>>

ReaderUsesDeleted ==
    /\ reader # <<>>
    /\ ConsumerOf[reader[1]] \in deleted
    /\ undefined' = "reader"
    /\ UNCHANGED <<executorVars, connectionVars, consumerVars, reader,
                   position, receiver, call, reversedList, historyVars>>

\* The connection fails: external.
ConnectionBreaks ==
    /\ CanBreak /\ state = "connected"
    /\ state' = "broken"
    /\ UNCHANGED <<executorVars, connStarted, consumerInfoMap, dispatchers,
                   consumers, consumerVars, reader, position, receiver, call,
                   reversedList, historyVars, undefined>>

\* The reader's thread finds out.
OnTransportException ==
    /\ state = "broken" /\ reader = <<>>
    /\ state' = "error"
    /\ UNCHANGED <<executorVars, connStarted, consumerInfoMap, dispatchers,
                   consumers, consumerVars, reader, position, receiver, call,
                   reversedList, historyVars, undefined>>

-----------------------------------------------------------------------------
(* The owner: ActiveMQConnection::start and stop *)

\* Between the test of started and the start() of a call, it interferes.
ConnectionStart ==
    /\ connStarted' = TRUE
    /\ Executor!Start
    /\ mishaps' = IF call.op # "none" /\ ~started
                  THEN mishaps \cup {"start"} ELSE mishaps
    /\ UNCHANGED <<state, consumerInfoMap, dispatchers, consumers,
                   consumerVars, reader, position, receiver, call,
                   reversedList, sent, given, acked, expired, lost, raced,
                   undefined>>

ConnectionStop ==
    /\ connStarted' = FALSE
    /\ Executor!Stop(Owner)
    /\ UNCHANGED <<state, consumerInfoMap, dispatchers, consumers,
                   consumerVars, reader, position, receiver, call,
                   reversedList, historyVars, undefined>>

\* A listener stops the connection: the rest of the batch is dispatched in a
\* session that is not started.
ListenerStops ==
    /\ position = "listening" /\ call.op = "none"
    /\ started
    /\ connStarted' = FALSE
    /\ Executor!Stop(Dispatcher)
    /\ mishaps' = mishaps \cup {"stop"}
    /\ UNCHANGED <<state, consumerInfoMap, dispatchers, consumers,
                   consumerVars, reader, position, receiver, call,
                   reversedList, sent, given, acked, expired, lost, raced,
                   undefined>>

-----------------------------------------------------------------------------
(* The Dispatcher: ActiveMQSessionExecutor::dispatch *)

ExecutorStep ==
    /\ Executor!TakeBatch \/ Executor!EndBatch \/ Executor!Decide
    /\ UNCHANGED <<connectionVars, consumerVars, reader, position, receiver,
                   call, reversedList, historyVars, undefined>>

\* A condition variable may wake a waiter that nobody has notified: external.
SpuriousWakeup ==
    /\ \/ Executor!SpuriousWakeup /\ UNCHANGED receiver
       \/ /\ receiver.at = "waiting"
          /\ receiver' = [receiver EXCEPT !.at = "testing"]
          /\ UNCHANGED executorVars
    /\ UNCHANGED <<connectionVars, consumerVars, reader, position, call,
                   reversedList, historyVars, undefined>>

Dispatch ==
    /\ Executor!Dispatch
    /\ position' = "entered"
    /\ UNCHANGED <<connectionVars, consumerVars, reader, receiver, call,
                   reversedList, historyVars, undefined>>

Target == ConsumerOf[current[1]]

\* The Dispatcher is at p and its consumer's memory is still there.
IsAt(p) == position = p /\ Target \notin deleted

UsesDeleted ==
    /\ position # "idle" /\ Target \in deleted
    /\ undefined' = "dispatcher"
    /\ UNCHANGED <<executorVars, connectionVars, consumerVars, reader,
                   position, receiver, call, reversedList, historyVars>>

\* The consumer is looked up in the session's map; if it is gone getValue
\* throws and the message is leaked.
LookUp ==
    /\ IsAt("entered")
    /\ IF Target \in consumers
       THEN position' = "found" /\ UNCHANGED <<executorVars, lost>>
       ELSE /\ position' = "idle"
            /\ lost' = lost \cup ToSet(current)
            /\ Executor!DispatchReturns
    /\ UNCHANGED <<connectionVars, consumerVars, reader, receiver, call,
                   reversedList, sent, given, acked, expired, raced, mishaps,
                   undefined>>

\* ActiveMQConsumer::dispatch with an expired message.
DispatchExpired ==
    /\ IsAt("found")
    /\ Expires(current[1])
    /\ position' = "idle"
    /\ Executor!DispatchReturns
    /\ UNCHANGED <<connectionVars, consumerVars, reader, receiver, call,
                   reversedList, sent, given, raced, mishaps, undefined>>

\* There is a listener, and it is called.
OnMessage ==
    /\ IsAt("found")
    /\ Target \in listening
    /\ given' = given \cup ToSet(current)
    /\ position' = "listening"
    /\ UNCHANGED <<executorVars, connectionVars, consumerVars, reader,
                   receiver, call, reversedList, sent, acked, expired, lost,
                   raced, mishaps, undefined>>

\* Seeded fault: only receive() acknowledges.
FaultNoAck ==
    /\ IsAt("listening")
    /\ call.by = Dispatcher => call.op = "none"
    /\ position' = "idle"
    /\ Executor!DispatchReturns
    /\ UNCHANGED <<connectionVars, consumerVars, reader, receiver, call,
                   reversedList, historyVars, undefined>>

\* It returns, and the message is acknowledged and deleted.
OnMessageReturns ==
    /\ IsAt("listening")
    /\ call.by = Dispatcher => call.op = "none"
    /\ acked' = IF AckWorks(Target) THEN acked \cup ToSet(current) ELSE acked
    /\ position' = "idle"
    /\ Executor!DispatchReturns
    /\ UNCHANGED <<connectionVars, consumerVars, reader, receiver, call,
                   reversedList, sent, given, expired, lost, raced, mishaps,
                   undefined>>

\* There is none: listener is tested without a lock, before the push.
NoListener ==
    /\ IsAt("found")
    /\ Target \notin listening
    /\ position' = "pushing"
    /\ UNCHANGED <<executorVars, connectionVars, consumerVars, reader,
                   receiver, call, reversedList, historyVars, undefined>>

\* unconsumedMessages.notifyAll()
WakeReceiver(c) ==
    receiver' = IF receiver.at = "waiting" /\ receiver.on = c
                THEN [receiver EXCEPT !.at = "testing"] ELSE receiver

PushUnconsumed ==
    /\ IsAt("pushing")
    /\ unconsumed' = [unconsumed EXCEPT ![Target] = @ \o current]
    /\ WakeReceiver(Target)
    /\ position' = "idle"
    /\ Executor!DispatchReturns
    /\ UNCHANGED <<connectionVars, listening, closedConsumers, deleted,
                   reader, call, reversedList, historyVars, undefined>>

-----------------------------------------------------------------------------
(* ActiveMQConsumer::receive, with and without a timeout *)

Receive ==
    /\ receiver.at = "idle"
    /\ \E c \in Receiving \ (listening \cup closedConsumers) :
         \E forever \in BOOLEAN :
           /\ ~(call.op = "listen" /\ call.on = c)
           /\ receiver' = [at |-> "testing", on |-> c, forever |-> forever,
                           message |-> <<>>]
    /\ UNCHANGED <<executorVars, connectionVars, consumerVars, reader,
                   position, call, reversedList, historyVars, undefined>>

\* dequeue: with the lock of unconsumedMessages held, wait...
DequeueWaits ==
    /\ receiver.at = "testing"
    /\ unconsumed[receiver.on] = <<>>
    /\ receiver.on \notin closedConsumers
    /\ receiver' = [receiver EXCEPT !.at = "waiting"]
    /\ UNCHANGED <<executorVars, connectionVars, consumerVars, reader,
                   position, call, reversedList, historyVars, undefined>>

\* ... or give up when closed or out of time...
DequeueReturnsNull ==
    /\ \/ receiver.at = "testing"
       \/ receiver.at = "waiting" /\ ~receiver.forever
    /\ unconsumed[receiver.on] = <<>>
    /\ receiver.on \in closedConsumers \/ ~receiver.forever
    /\ receiver' = NoReceive
    /\ UNCHANGED <<executorVars, connectionVars, consumerVars, reader,
                   position, call, reversedList, historyVars, undefined>>

\* ... or take the first message...
DequeueTakes ==
    /\ receiver.at = "testing"
    /\ unconsumed[receiver.on] # <<>>
    /\ receiver' = [receiver EXCEPT !.at = "took",
                      !.message = <<Head(unconsumed[receiver.on])>>]
    /\ unconsumed' = [unconsumed EXCEPT ![receiver.on] = Tail(@)]
    /\ UNCHANGED <<executorVars, connectionVars, listening, closedConsumers,
                   deleted, reader, position, call, reversedList, historyVars,
                   undefined>>

\* ... which may have expired: it is acknowledged, and the loop goes on; if
\* the ack throws, receive() does.
DequeueExpired ==
    /\ receiver.at = "testing"
    /\ unconsumed[receiver.on] # <<>>
    /\ Expires(Head(unconsumed[receiver.on]))
    /\ unconsumed' = [unconsumed EXCEPT ![receiver.on] = Tail(@)]
    /\ receiver' = IF AckWorks(receiver.on) THEN receiver ELSE NoReceive
    /\ UNCHANGED <<executorVars, connectionVars, listening, closedConsumers,
                   deleted, reader, position, call, reversedList, sent, given,
                   raced, mishaps, undefined>>

\* The message is acknowledged and its clone returned; if the ack throws the
\* application gets an exception instead, and the message is leaked.
ReceiveReturns ==
    /\ receiver.at = "took"
    /\ IF AckWorks(receiver.on)
       THEN /\ acked' = acked \cup ToSet(receiver.message)
            /\ given' = given \cup ToSet(receiver.message)
            /\ UNCHANGED lost
       ELSE lost' = lost \cup ToSet(receiver.message) /\ UNCHANGED <<acked, given>>
    /\ receiver' = NoReceive
    /\ UNCHANGED <<executorVars, connectionVars, consumerVars, reader,
                   position, call, reversedList, sent, expired, raced,
                   mishaps, undefined>>

-----------------------------------------------------------------------------
(* The session is stopped for setMessageListener and for close *)

MayCall(t) ==
    /\ call.op = "none"
    /\ t = Dispatcher => IsAt("listening")

At(p) == call.at = p
GoTo(p) == call' = [call EXCEPT !.at = p]

\* Seeded fault: the session is left running.
FaultNoStop ==
    /\ At("asking")
    /\ call' = [call EXCEPT !.wasStarted = started, !.at = "working"]
    /\ UNCHANGED <<executorVars, connectionVars, consumerVars, reader,
                   position, receiver, reversedList, historyVars, undefined>>

\* bool wasStarted = isStarted()
AskStarted ==
    /\ At("asking")
    /\ call' = [call EXCEPT !.wasStarted = started,
                            !.at = IF started THEN "stopping" ELSE "working"]
    /\ UNCHANGED <<executorVars, connectionVars, consumerVars, reader,
                   position, receiver, reversedList, historyVars, undefined>>

\* Seeded fault: dispatchMutex is not reentrant.
FaultStopFromListener ==
    /\ At("stopping")
    /\ Executor!Stop(App)
    /\ GoTo("working")
    /\ UNCHANGED <<connectionVars, consumerVars, reader, position, receiver,
                   reversedList, historyVars, undefined>>

StopForCall ==
    /\ At("stopping")
    /\ Executor!Stop(call.by)
    /\ GoTo("working")
    /\ UNCHANGED <<connectionVars, consumerVars, reader, position, receiver,
                   reversedList, historyVars, undefined>>

\* Seeded fault: the session stays stopped.
FaultNoRestart ==
    /\ At("restarting")
    /\ IF call.op = "listen" THEN call' = NoCall ELSE GoTo("marking")
    /\ UNCHANGED <<executorVars, connectionVars, consumerVars, reader,
                   position, receiver, reversedList, historyVars, undefined>>

\* if( wasStarted ) start()
Restart ==
    /\ At("restarting")
    /\ IF call.wasStarted THEN Executor!Start ELSE UNCHANGED executorVars
    /\ IF call.op = "listen" THEN call' = NoCall ELSE GoTo("marking")
    /\ UNCHANGED <<connectionVars, consumerVars, reader, position, receiver,
                   reversedList, historyVars, undefined>>

-----------------------------------------------------------------------------
(* ActiveMQConsumer::setMessageListener *)

SetMessageListener(t, c) ==
    /\ MayCall(t)
    /\ c \notin closedConsumers \cup listening
    /\ ~(receiver.at # "idle" /\ receiver.on = c)
    /\ listening' = listening \cup {c}
    /\ raced' = IF started THEN raced \cup {c} ELSE raced
    /\ call' = [op |-> "listen", at |-> "asking", by |-> t, on |-> c,
                wasStarted |-> FALSE]
    /\ UNCHANGED <<executorVars, connectionVars, closedConsumers, deleted,
                   unconsumed, reader, position, receiver, reversedList, sent,
                   given, acked, expired, lost, mishaps, undefined>>

\* Seeded faults: the list is copied as it is, not cleared, or cleared
\* before it is copied.
RedispatchAs(copy, rest) ==
    /\ At("working") /\ call.op = "listen"
    /\ reversedList' = copy
    /\ unconsumed' = [unconsumed EXCEPT ![call.on] = rest]
    /\ GoTo("redispatching")
    /\ UNCHANGED <<executorVars, connectionVars, listening, closedConsumers,
                   deleted, reader, position, receiver, historyVars,
                   undefined>>
FaultNotReversed == RedispatchAs(unconsumed[call.on], <<>>)
FaultNotCleared ==
    RedispatchAs(Reverse(unconsumed[call.on]), unconsumed[call.on])
FaultClearedFirst == RedispatchAs(<<>>, <<>>)

\* ActiveMQSession::redispatch copies the list in reverse...
ReverseUnconsumed ==
    /\ At("working") /\ call.op = "listen"
    /\ reversedList' = Reverse(unconsumed[call.on])
    /\ unconsumed' = [unconsumed EXCEPT ![call.on] = <<>>]
    /\ GoTo("redispatching")
    /\ UNCHANGED <<executorVars, connectionVars, listening, closedConsumers,
                   deleted, reader, position, receiver, historyVars,
                   undefined>>

\* ... and pushes it, one by one, to the front of the executor's queue.
Redispatch ==
    /\ At("redispatching")
    /\ reversedList # <<>>
    /\ Executor!ExecuteFirst(Head(reversedList))
    /\ reversedList' = Tail(reversedList)
    /\ UNCHANGED <<connectionVars, consumerVars, reader, position, receiver,
                   call, historyVars, undefined>>

Redispatched ==
    /\ At("redispatching")
    /\ reversedList = <<>>
    /\ GoTo("restarting")
    /\ UNCHANGED <<executorVars, connectionVars, consumerVars, reader,
                   position, receiver, reversedList, historyVars, undefined>>

-----------------------------------------------------------------------------
(* ActiveMQConsumer::close *)

CloseConsumer(t, c) ==
    /\ MayCall(t)
    /\ c \in Closing \ closedConsumers
    /\ call' = [op |-> "close", at |-> "resource", by |-> t, on |-> c,
                wasStarted |-> FALSE]
    /\ mishaps' = IF t = Dispatcher THEN mishaps \cup {"inside"} ELSE mishaps
    /\ UNCHANGED <<executorVars, connectionVars, consumerVars, reader,
                   position, receiver, reversedList, sent, given, acked,
                   expired, lost, raced, undefined>>

\* Seeded fault: the session does not listen to its resources.
FaultNotTold ==
    /\ At("resource")
    /\ consumerInfoMap' = consumerInfoMap \ {call.on}
    /\ GoTo("marking")
    /\ UNCHANGED <<executorVars, connStarted, state, dispatchers, consumers,
                   consumerVars, reader, position, receiver, reversedList,
                   historyVars, undefined>>

\* The connector forgets the consumer and tells the broker.  If that throws,
\* the listeners of the resource, and so the session, are not told.
CloseResource ==
    /\ At("resource")
    /\ consumerInfoMap' = IF state = "error" THEN consumerInfoMap
                          ELSE consumerInfoMap \ {call.on}
    /\ IF state = "broken"
       THEN GoTo("marking") /\ mishaps' = mishaps \cup {"unsent"}
       ELSE GoTo("asking") /\ UNCHANGED mishaps
    /\ UNCHANGED <<executorVars, connStarted, state, dispatchers, consumers,
                   consumerVars, reader, position, receiver, reversedList,
                   sent, given, acked, expired, lost, raced, undefined>>

\* ActiveMQSession::onConnectorResourceClosed, with the session stopped.
RemoveDispatcher ==
    /\ At("working") /\ call.op = "close"
    /\ dispatchers' = dispatchers \ {call.on}
    /\ GoTo("removing")
    /\ UNCHANGED <<executorVars, connStarted, state, consumerInfoMap,
                   consumers, consumerVars, reader, position, receiver,
                   reversedList, historyVars, undefined>>

\* Seeded fault: the executor's queue is not purged.
FaultNoPurge ==
    /\ At("removing")
    /\ consumers' = consumers \ {call.on}
    /\ GoTo("restarting")
    /\ UNCHANGED <<executorVars, connStarted, state, consumerInfoMap,
                   dispatchers, consumerVars, reader, position, receiver,
                   reversedList, historyVars, undefined>>

RemoveConsumer ==
    /\ At("removing")
    /\ consumers' = consumers \ {call.on}
    /\ GoTo("purging")
    /\ UNCHANGED <<executorVars, connStarted, state, consumerInfoMap,
                   dispatchers, consumerVars, reader, position, receiver,
                   reversedList, historyVars, undefined>>

PurgeConsumerMessages ==
    /\ At("purging")
    /\ Executor!Purge(call.on)
    /\ lost' = lost \cup For(call.on, messageQueue)
    /\ GoTo("restarting")
    /\ UNCHANGED <<connectionVars, consumerVars, reader, position, receiver,
                   reversedList, sent, given, acked, expired, raced, mishaps,
                   undefined>>

\* closed = true, with no lock held.
MarkClosed ==
    /\ At("marking")
    /\ closedConsumers' = closedConsumers \cup {call.on}
    /\ GoTo("emptying")
    /\ UNCHANGED <<executorVars, connectionVars, listening, deleted,
                   unconsumed, reader, position, receiver, reversedList,
                   historyVars, undefined>>

PurgeMessages ==
    /\ At("emptying")
    /\ lost' = lost \cup ToSet(unconsumed[call.on])
    /\ unconsumed' = [unconsumed EXCEPT ![call.on] = <<>>]
    /\ GoTo("notifying")
    /\ UNCHANGED <<executorVars, connectionVars, listening, closedConsumers,
                   deleted, reader, position, receiver, reversedList, sent,
                   given, acked, expired, raced, mishaps, undefined>>

\* Seeded fault: nobody is woken.
FaultNobodyWoken ==
    /\ At("notifying")
    /\ call' = NoCall
    /\ UNCHANGED <<executorVars, connectionVars, consumerVars, reader,
                   position, receiver, reversedList, historyVars, undefined>>

\* A receive that waits is woken, and close() returns.
NotifyReceivers ==
    /\ At("notifying")
    /\ WakeReceiver(call.on)
    /\ call' = NoCall
    /\ UNCHANGED <<executorVars, connectionVars, consumerVars, reader,
                   position, reversedList, historyVars, undefined>>

\* Seeded fault: the destructor does not close the consumer.
FaultDeleteOpen(c) ==
    /\ MayCall(App)
    /\ c \in Closing \ deleted
    /\ ~(receiver.at # "idle" /\ receiver.on = c)
    /\ deleted' = deleted \cup {c}
    /\ UNCHANGED <<executorVars, connectionVars, listening, closedConsumers,
                   unconsumed, reader, position, receiver, call, reversedList,
                   historyVars, undefined>>

\* App deletes a consumer that it has closed, and that nobody receives from.
DeleteConsumer(c) ==
    /\ MayCall(App)
    /\ c \in closedConsumers \ deleted
    /\ ~(receiver.at # "idle" /\ receiver.on = c)
    /\ deleted' = deleted \cup {c}
    /\ UNCHANGED <<executorVars, connectionVars, listening, closedConsumers,
                   unconsumed, reader, position, receiver, call, reversedList,
                   historyVars, undefined>>

-----------------------------------------------------------------------------
ReaderStep ==
    \/ OnCommand \/ OnConsumerMessage \/ ReaderUsesDeleted
    \/ OnTransportException

\* What the Dispatcher does that does not depend on a listener.
DispatcherStep ==
    \/ ExecutorStep \/ Dispatch \/ UsesDeleted \/ LookUp
    \/ DispatchExpired \/ OnMessage \/ NoListener \/ PushUnconsumed

ReceiverStep ==
    \/ DequeueWaits \/ DequeueReturnsNull \/ DequeueTakes
    \/ DequeueExpired \/ ReceiveReturns

CallStep ==
    \/ AskStarted \/ StopForCall \/ Restart
    \/ ReverseUnconsumed \/ Redispatch \/ Redispatched
    \/ CloseResource \/ RemoveDispatcher \/ RemoveConsumer
    \/ PurgeConsumerMessages \/ MarkClosed \/ PurgeMessages
    \/ NotifyReceivers

Defined == undefined = "no"

Next ==
    /\ Defined
    /\ \/ ReaderStep \/ ConnectionBreaks
       \/ ConnectionStart \/ ConnectionStop \/ ListenerStops
       \/ DispatcherStep \/ OnMessageReturns \/ SpuriousWakeup
       \/ Receive \/ ReceiverStep
       \/ \E t \in {App, Dispatcher}, c \in Consumers :
            SetMessageListener(t, c) \/ CloseConsumer(t, c)
       \/ \E c \in Consumers : DeleteConsumer(c)
       \/ CallStep

Spec == Init /\ [][Next]_vars

\* Threads run on inside a call and a receive, the executor's thread is
\* scheduled and a listener returns.  A call that waits for dispatchMutex
\* gets it some time if it is free again and again.  Nobody is obliged to
\* call, and the broker not to send.
FairSpec ==
    /\ Spec
    /\ WF_vars(Defined /\ DispatcherStep)
    /\ WF_vars(Defined /\ OnMessageReturns)
    /\ WF_vars(Defined /\ ReceiverStep)
    /\ WF_vars(Defined /\ CallStep)
    /\ SF_vars(Defined /\ StopForCall)

-----------------------------------------------------------------------------
(* Properties.  "mishaps" holds what the calls are not prepared for:        *)
(* "start", a Connection::start between a call's test of started and its    *)
(* end; "stop", a listener that stops its own session in the middle of a    *)
(* batch; "unsent", a close whose command cannot be sent; "inside", a close *)
(* from inside a listener.                                                  *)

\* The places a message can be in on its way: one row of them all, and each
\* consumer's own.
Places ==
    reader \o current \o Executor!Pending \o reversedList \o receiver.message

InPlaces == ToSet(Places) \cup UNION {ToSet(unconsumed[c]) : c \in Consumers}

\* Every message is on its way, given or expired; one that is dropped belongs
\* to a consumer that is closed or being closed, unless the connection is
\* broken.  No mishap changes that.
NothingLost ==
    /\ sent \subseteq InPlaces \cup given \cup expired \cup lost
    /\ \A m \in lost :
         \/ ConsumerOf[m] \in closedConsumers
         \/ ConsumerOf[m] = call.on /\ call.op = "close"
         \/ state # "connected"

\* A message is in one place at a time, with no consumer but its own, and is
\* given once: what redispatch takes back, and what a close purges, has no
\* other owner.
OwnedOnce ==
    /\ IsInjective(Places)
    /\ \A c \in Consumers :
         /\ IsInjective(unconsumed[c])
         /\ \A m \in ToSet(unconsumed[c]) : ConsumerOf[m] = c /\ m \notin ToSet(Places)
    /\ given \cap InPlaces \subseteq ToSet(current)
    /\ (expired \cup lost) \cap InPlaces = {}

\* "redispatch all the messages that it missed" (ActiveMQConsumer.cpp 347-348):
\* once setMessageListener has returned nothing waits for a receive that will
\* not come, whatever the dispatcher was doing meanwhile.
NothingStranded ==
    \A c \in listening :
      \/ call.op = "listen" /\ call.on = c
      \/ unconsumed[c] = <<>>
      \/ "stop" \in mishaps

\* However consumers come, change and go, a message is neither dropped nor
\* doubled, nor left where nobody will look for it.
Accounted == NothingLost /\ OwnedOnce /\ NothingStranded

\* When close() has returned the session has no message for the consumer left
\* and is not dispatching to it.
ClosedIsSilent ==
    mishaps \subseteq {"inside"} =>
      \A c \in closedConsumers :
        \/ call.on = c /\ call.op = "close"
        \/ /\ For(c, messageQueue) = {} /\ unconsumed[c] = <<>>
           /\ (position \in {"found", "pushing"} => Target # c)

\* The dispatcher does not use a consumer after the application has closed
\* and deleted it.  Of the reader this cannot be said: see ReaderUsesDeleted.
DispatcherIsSafe == undefined = "dispatcher" => mishaps # {}

\* A close is final, for the session's executor as for the application.
CloseIsFinal == ClosedIsSilent /\ DispatcherIsSafe

\* "the session automatically acknowledges a client's receipt of a message"
\* (cms/Session.h 63-69) when the listener or receive() returns, unless the
\* consumer has been closed meanwhile or the connection is broken.
AutoAcknowledged ==
    \A m \in given :
      \/ m \in acked
      \/ m \in ToSet(current)
      \/ ConsumerOf[m] \in closedConsumers
      \/ state # "connected"

\* A consumer's messages are given in the order in which they were sent, also
\* those that were there before its listener, unless the listener was set
\* while the session was running.
InOrder ==
    \A m \in given' \ given, n \in given :
        ConsumerOf[m] = ConsumerOf[n] =>
          n < m \/ ConsumerOf[m] \in raced \/ mishaps # {}

\* What dispatch and receive() owe the application for a message: it is given
\* after those sent before it, and acknowledged when it has been consumed.
GivenInOrderAndAcknowledged == [][InOrder /\ AutoAcknowledged']_vars

\* "Wakeup any synchronous consumers" (ActiveMQConsumer.cpp 115): a receive
\* without timeout comes back when its consumer is closed.
ReceiverReleased ==
    \A c \in Consumers :
      (receiver.at = "waiting" /\ receiver.on = c /\ c \in closedConsumers)
        ~> (receiver.at # "waiting" \/ ~Defined)

\* close and setMessageListener return, from a listener as well.
CallReturns == call.op # "none" ~> (call.op = "none" \/ ~Defined)

\* What came in before the listener is given to it, as long as the connection
\* is started.
MissedIsGiven ==
    \A m \in Messages :
      (m \in ToSet(unconsumed[ConsumerOf[m]]) /\ ConsumerOf[m] \in listening)
        ~> \/ m \in given \cup expired \cup lost
           \/ ~connStarted \/ mishaps # {} \/ ~Defined

\* Nobody waits for ever: neither a receive, nor a call, nor a message.
NobodyWaitsForEver == ReceiverReleased /\ CallReturns /\ MissedIsGiven
=============================================================================
