-------------------------- MODULE TransactedSession --------------------------
(***************************************************************************)
(* core/ActiveMQTransaction.cpp over core/ActiveMQSessionExecutor.cpp: a   *)
(* transacted session that receives messages, commits and rolls back.      *)
(*                                                                         *)
(* Threads: the Dispatcher of the executor, that calls the listener; App,  *)
(* that receives or commits; Owner, that starts and stops the connection;  *)
(* the transport's reader, that brings in messages.  The session is used   *)
(* in one of three ways ("usage"): its listener commits and rolls back     *)
(* ("onMessage"), App receives and commits ("receive"), or App commits     *)
(* what a listener is given ("mixed").                                     *)
(*                                                                         *)
(* rollbackMap holds a clone of each message, guarded by rollbackLock; a   *)
(* block under that lock is one action, except the redelivery loop, which  *)
(* holds it while stage = "redelivering".                                  *)
(***************************************************************************)
EXTENDS Naturals, Sequences, SequencesExt, FiniteSets

CONSTANTS App, Owner, Dispatcher,
          Messages, Consumers, ConsumerOf,
          Usages,           \* how the session may be used
          TxCalls,          \* the calls made: "commit", "rollback"
          OwnerCalls,       \* the calls made: "start", "stop"
          MaxRedeliveries,  \* ActiveMQTransaction::maxRedeliveries
          CanBreak          \* the connection may break

ASSUME ThreadsAssumption == Cardinality({App, Owner, Dispatcher}) = 3
ASSUME UsagesAssumption == Usages \subseteq {"onMessage", "receive", "mixed"}
ASSUME ConsumersAssumption ==
    IsFiniteSet(Consumers) /\ ConsumerOf \in [Messages -> Consumers]
ASSUME MaxRedeliveriesAssumption == MaxRedeliveries \in Nat \ {0}

VARIABLES
    \* the executor's, see SessionExecutor
    started, closed, messageQueue, thread, dataList, current, closer, quiet,
    \* the session's
    usage,
    connStarted,      \* ActiveMQConnection::started
    stopping,         \* Owner is inside ActiveMQConnection::stop
    unconsumed,       \* ActiveMQConsumer::unconsumedMessages
    inListener,       \* the Dispatcher is inside onMessage
    rollbackMap,      \* ActiveMQTransaction::rollbackMap
    redeliveryCount,  \* of each message object
    transactionInfo,  \* "live", or "dangling": deleted and not replaced
    stage,            \* progress of commit or rollback
    todo,             \* what the redelivery loop has still to do
    \* the broker's
    sent,             \* messages it has sent
    acked,            \* acknowledged in the current transaction
    committed,        \* acknowledged in a transaction that was committed
    broken,           \* the connection no longer works
    \* history
    inTx,             \* given to the application in the current transaction
    dropped,          \* given up by the redelivery loop
    expired           \* expired before they were given to the application

executorVars == <<started, closed, messageQueue, thread, dataList, current,
                  closer, quiet>>
sessionVars == <<usage, connStarted, stopping>>
consumerVars == <<unconsumed, inListener>>
txVars == <<rollbackMap, redeliveryCount, transactionInfo, stage, todo>>
brokerVars == <<sent, acked, committed, broken>>
historyVars == <<inTx, dropped, expired>>

vars == <<executorVars, sessionVars, consumerVars, txVars, brokerVars, historyVars>>

Executor == INSTANCE SessionExecutor WITH Callers <- {App, Owner}

TxThread == IF usage = "onMessage" THEN Dispatcher ELSE App

Stages == {"idle", "acking", "committing", "clearing", "commitBegin",
           "commitStart", "rollingBack", "rollbackBegin", "rollbackStart",
           "redeliverLock", "redelivering", "undefined"}

TypeOK ==
    /\ Executor!TypeOK
    /\ usage \in Usages
    /\ connStarted \in BOOLEAN /\ stopping \in BOOLEAN
    /\ unconsumed \in Seq(Messages)
    /\ inListener \in BOOLEAN /\ (inListener => current # <<>>)
    /\ rollbackMap \in [Consumers -> Seq(Messages)]
    /\ redeliveryCount \in [Messages -> 0..MaxRedeliveries]
    /\ transactionInfo \in {"live", "dangling"}
    /\ stage \in Stages
    /\ todo \in Seq(Messages)
    /\ sent \subseteq Messages
    /\ acked \subseteq sent /\ committed \subseteq sent
    /\ broken \in BOOLEAN
    /\ inTx \subseteq sent /\ dropped \subseteq sent /\ expired \subseteq sent

Init ==
    /\ Executor!Init
    /\ usage \in Usages
    /\ connStarted = FALSE /\ stopping = FALSE
    /\ unconsumed = <<>> /\ inListener = FALSE
    /\ rollbackMap = [c \in Consumers |-> <<>>]
    /\ redeliveryCount = [m \in Messages |-> 0]
    /\ transactionInfo = "live"
    /\ stage = "idle" /\ todo = <<>>
    /\ sent = {} /\ acked = {} /\ committed = {} /\ broken = FALSE
    /\ inTx = {} /\ dropped = {} /\ expired = {}

InMap == UNION {ToSet(rollbackMap[c]) : c \in Consumers}

\* On their way to the application: what its listener has is the transaction's.
Awaiting ==
    ToSet(Executor!Pending) \cup ToSet(unconsumed)
      \cup IF inListener THEN {} ELSE ToSet(current)

-----------------------------------------------------------------------------
(* Messages come in: ActiveMQConnection::onConsumerMessage *)

Arrive(m) ==
    /\ ~broken
    /\ m \notin sent
    /\ sent' = sent \cup {m}
    /\ Executor!Execute(m)
    /\ UNCHANGED <<sessionVars, consumerVars, txVars, acked, committed,
                   broken, historyVars>>

\* The connection fails: external.
ConnectionBreaks ==
    /\ CanBreak /\ ~broken
    /\ broken' = TRUE
    /\ UNCHANGED <<executorVars, sessionVars, consumerVars, txVars, sent,
                   acked, committed, historyVars>>

-----------------------------------------------------------------------------
(* The owner: ActiveMQConnection::start and stop *)

ConnectionStart ==
    /\ "start" \in OwnerCalls
    /\ ~stopping
    /\ connStarted' = TRUE
    /\ Executor!Start
    /\ UNCHANGED <<usage, stopping, consumerVars, txVars, brokerVars,
                   historyVars>>

ConnectionStop ==
    /\ "stop" \in OwnerCalls
    /\ ~stopping
    /\ connStarted' = FALSE
    /\ stopping' = TRUE
    /\ UNCHANGED <<executorVars, usage, consumerVars, txVars, brokerVars,
                   historyVars>>

\* The session is stopped: this waits for the batch in flight.
SessionStopped ==
    /\ stopping
    /\ Executor!Stop(Owner)
    /\ stopping' = FALSE
    /\ UNCHANGED <<usage, connStarted, consumerVars, txVars, brokerVars,
                   historyVars>>

-----------------------------------------------------------------------------
(* The executor's thread and ActiveMQConsumer::dispatch *)

ExecutorStep ==
    /\ Executor!TakeBatch \/ Executor!Dispatch \/ Executor!EndBatch
       \/ Executor!Decide
    /\ UNCHANGED <<sessionVars, consumerVars, txVars, brokerVars,
                   historyVars>>

\* A condition variable may wake a waiter that nobody has notified: external.
SpuriousWakeup ==
    /\ Executor!SpuriousWakeup
    /\ UNCHANGED <<sessionVars, consumerVars, txVars, brokerVars,
                   historyVars>>

RollbackLockFree(t) == stage = "redelivering" => t = TxThread

\* Seeded fault: the clone is not put in the transaction.
FaultNoClone(t, m) == RollbackLockFree(t) /\ UNCHANGED rollbackMap

\* beforeMessageIsConsumed: the transaction gets a clone of the message.
AddToTransaction(t, m) ==
    /\ RollbackLockFree(t)
    /\ rollbackMap' = [rollbackMap EXCEPT ![ConsumerOf[m]] = Append(@, m)]

\* A message found expired is acknowledged on its own.  The connector reads
\* the transaction to put its id in the ack, and may find it deleted.
AcknowledgeExpired(m) ==
    /\ expired' = expired \cup {m}
    /\ IF transactionInfo = "dangling"
       THEN stage' = "undefined" /\ UNCHANGED acked
       ELSE /\ acked' = IF broken THEN acked ELSE acked \cup {m}
            /\ UNCHANGED stage

\* The message is dispatched and expired by now; it is leaked when the ack
\* throws.
DispatchExpired ==
    /\ current # <<>> /\ ~inListener
    /\ AcknowledgeExpired(current[1])
    /\ Executor!DispatchReturns
    /\ UNCHANGED <<sessionVars, consumerVars, rollbackMap, redeliveryCount,
                   transactionInfo, todo, sent, committed, broken, inTx,
                   dropped>>

\* The message has expired, also when it was found expired before and a
\* rollback has redelivered it: time does not run backwards.
Expired(m) == m \in expired

\* The listener is called with the message.
OnMessage ==
    /\ usage # "receive"
    /\ current # <<>> /\ ~inListener
    /\ ~Expired(current[1])
    /\ AddToTransaction(Dispatcher, current[1])
    /\ inListener' = TRUE
    /\ inTx' = inTx \cup ToSet(current)
    /\ UNCHANGED <<executorVars, sessionVars, unconsumed, redeliveryCount,
                   transactionInfo, stage, todo, brokerVars, dropped,
                   expired>>

\* The listener returns, with no transaction call of its own under way.
\* afterMessageIsConsumed acknowledges nothing in a transacted session.
OnMessageReturns ==
    /\ inListener
    /\ TxThread = Dispatcher => stage \in {"idle", "undefined"}
    /\ inListener' = FALSE
    /\ Executor!DispatchReturns
    /\ UNCHANGED <<sessionVars, unconsumed, txVars, brokerVars, historyVars>>

\* No listener: the message waits for a receive.
PushUnconsumed ==
    /\ usage = "receive"
    /\ current # <<>>
    /\ ~Expired(current[1])
    /\ unconsumed' = unconsumed \o current
    /\ Executor!DispatchReturns
    /\ UNCHANGED <<sessionVars, inListener, txVars, brokerVars, historyVars>>

\* App receives.
Receive ==
    /\ usage = "receive" /\ stage = "idle"
    /\ unconsumed # <<>>
    /\ ~Expired(Head(unconsumed))
    /\ unconsumed' = Tail(unconsumed)
    /\ AddToTransaction(App, Head(unconsumed))
    /\ inTx' = inTx \cup {Head(unconsumed)}
    /\ UNCHANGED <<executorVars, sessionVars, inListener, redeliveryCount,
                   transactionInfo, stage, todo, brokerVars, dropped,
                   expired>>

\* dequeue() finds the message expired: it joins the transaction as well,
\* and is acknowledged on its own.
ReceiveExpired ==
    /\ usage = "receive" /\ stage = "idle"
    /\ unconsumed # <<>>
    /\ unconsumed' = Tail(unconsumed)
    /\ AddToTransaction(App, Head(unconsumed))
    /\ AcknowledgeExpired(Head(unconsumed))
    /\ UNCHANGED <<executorVars, sessionVars, inListener, redeliveryCount,
                   transactionInfo, todo, sent, committed, broken, inTx,
                   dropped>>

-----------------------------------------------------------------------------
(* How commit() and rollback() end *)

\* A listener commits from inside onMessage.
MayCall == TxThread = Dispatcher => inListener

Returns == stage' = "idle"

\* An exception reaches ActiveMQSession::commit or rollback, and is caught
\* there (AMQ_CATCH_NOTHROW): the caller sees a call that returned.
Throws == stage' = "idle"

\* What a call to the connector does to the thread that makes it: it works, it
\* throws, or it is made with a transactionInfo that has been deleted.
ConnectorWorks == ~broken /\ transactionInfo = "live"
ConnectorThrows == broken /\ transactionInfo = "live" /\ Throws
UsesDangling ==
    /\ transactionInfo = "dangling"
    /\ stage' = "undefined"

-----------------------------------------------------------------------------
(* ActiveMQTransaction::commit *)

Commit ==
    /\ "commit" \in TxCalls
    /\ stage = "idle" /\ MayCall
    /\ Executor!Stop(TxThread)
    /\ stage' = "acking"
    /\ UNCHANGED <<sessionVars, consumerVars, rollbackMap, redeliveryCount,
                   transactionInfo, todo, brokerVars, historyVars>>

\* Seeded fault: one consumer's messages are acknowledged.
FaultAckOne ==
    /\ stage = "acking"
    /\ ~broken
    /\ \E c \in Consumers :
         /\ rollbackMap[c] # <<>> \/ InMap = {}
         /\ acked' = acked \cup ToSet(rollbackMap[c])
    /\ stage' = "committing"
    /\ UNCHANGED <<executorVars, sessionVars, consumerVars, rollbackMap,
                   redeliveryCount, transactionInfo, todo, sent, committed,
                   broken, historyVars>>

\* Each consumer's messages are acknowledged, with rollbackLock held.
AckMessages ==
    /\ stage = "acking"
    /\ ConnectorWorks \/ InMap = {}
    /\ acked' = acked \cup InMap
    /\ stage' = "committing"
    /\ UNCHANGED <<executorVars, sessionVars, consumerVars, rollbackMap,
                   redeliveryCount, transactionInfo, todo, sent, committed,
                   broken, historyVars>>

\* The connection is broken, or breaks after some of the consumers.
AckMessagesThrows ==
    /\ stage = "acking"
    /\ transactionInfo = "live"
    /\ CanBreak /\ broken' = TRUE
    /\ \E done \in SUBSET Consumers :
         /\ broken => done = {}
         /\ \E c \in Consumers \ done : rollbackMap[c] # <<>>
         /\ acked' = acked \cup UNION {ToSet(rollbackMap[c]) : c \in done}
    /\ Throws
    /\ UNCHANGED <<executorVars, sessionVars, consumerVars, rollbackMap,
                   redeliveryCount, transactionInfo, todo, sent, committed,
                   historyVars>>

AckMessagesDangling ==
    /\ stage = "acking"
    /\ InMap # {}
    /\ UsesDangling
    /\ UNCHANGED <<executorVars, sessionVars, consumerVars, rollbackMap,
                   redeliveryCount, transactionInfo, todo, brokerVars,
                   historyVars>>

ConnectorCommit ==
    /\ stage = "committing"
    /\ ConnectorWorks
    /\ committed' = committed \cup acked
    /\ acked' = {}
    /\ inTx' = {}
    /\ stage' = "clearing"
    /\ UNCHANGED <<executorVars, sessionVars, consumerVars, rollbackMap,
                   redeliveryCount, transactionInfo, todo, sent, broken,
                   dropped, expired>>

\* Seeded fault: the transaction is cleared although the commit failed.
FaultFailedCommitClears ==
    /\ stage = "committing"
    /\ ConnectorThrows \/ UsesDangling
    /\ rollbackMap' = [c \in Consumers |-> <<>>]
    /\ UNCHANGED <<executorVars, sessionVars, consumerVars, redeliveryCount,
                   transactionInfo, todo, brokerVars, historyVars>>

ConnectorCommitFails ==
    /\ stage = "committing"
    /\ ConnectorThrows \/ UsesDangling
    /\ UNCHANGED <<executorVars, sessionVars, consumerVars, rollbackMap,
                   redeliveryCount, transactionInfo, todo, brokerVars,
                   historyVars>>

\* Seeded fault: the messages of the transaction are kept.
FaultNoClear ==
    /\ stage = "clearing"
    /\ transactionInfo' = "dangling"
    /\ stage' = "commitBegin"
    /\ UNCHANGED <<executorVars, sessionVars, consumerVars, rollbackMap,
                   redeliveryCount, todo, brokerVars, historyVars>>

\* clearTransaction: the transaction and its messages are deleted.
ClearTransaction ==
    /\ stage = "clearing"
    /\ transactionInfo' = "dangling"
    /\ rollbackMap' = [c \in Consumers |-> <<>>]
    /\ stage' = "commitBegin"
    /\ UNCHANGED <<executorVars, sessionVars, consumerVars, redeliveryCount,
                   todo, brokerVars, historyVars>>

\* The next transaction is begun, by commit and by rollback.
StartTransaction ==
    /\ stage \in {"commitBegin", "rollbackBegin"}
    /\ ~broken
    /\ transactionInfo' = "live"
    /\ stage' = IF stage = "commitBegin" THEN "commitStart"
                ELSE "rollbackStart"
    /\ UNCHANGED <<executorVars, sessionVars, consumerVars, rollbackMap,
                   redeliveryCount, todo, brokerVars, historyVars>>

StartTransactionThrows ==
    /\ stage \in {"commitBegin", "rollbackBegin"}
    /\ broken
    /\ Throws
    /\ UNCHANGED <<executorVars, sessionVars, consumerVars, rollbackMap,
                   redeliveryCount, transactionInfo, todo, brokerVars,
                   historyVars>>

\* The session is started, whether or not the connection is.
CommitReturns ==
    /\ stage = "commitStart"
    /\ Executor!Start
    /\ Returns
    /\ UNCHANGED <<sessionVars, consumerVars, rollbackMap, redeliveryCount,
                   transactionInfo, todo, brokerVars, historyVars>>

-----------------------------------------------------------------------------
(* ActiveMQTransaction::rollback *)

Rollback ==
    /\ "rollback" \in TxCalls
    /\ stage = "idle" /\ MayCall
    /\ Executor!Stop(TxThread)
    /\ stage' = "rollingBack"
    /\ UNCHANGED <<sessionVars, consumerVars, rollbackMap, redeliveryCount,
                   transactionInfo, todo, brokerVars, historyVars>>

\* The broker forgets the acks of the transaction; its info is deleted.
ConnectorRollback ==
    /\ stage = "rollingBack"
    /\ ConnectorWorks
    /\ acked' = {}
    /\ inTx' = {}
    /\ transactionInfo' = "dangling"
    /\ stage' = "rollbackBegin"
    /\ UNCHANGED <<executorVars, sessionVars, consumerVars, rollbackMap,
                   redeliveryCount, todo, sent, committed, broken, dropped,
                   expired>>

ConnectorRollbackFails ==
    /\ stage = "rollingBack"
    /\ ConnectorThrows \/ UsesDangling
    /\ UNCHANGED <<executorVars, sessionVars, consumerVars, rollbackMap,
                   redeliveryCount, transactionInfo, todo, brokerVars,
                   historyVars>>

\* Seeded fault: the session is left stopped.
FaultNoRestart ==
    /\ stage = "rollbackStart"
    /\ stage' = "redeliverLock"
    /\ UNCHANGED <<executorVars, sessionVars, consumerVars, rollbackMap,
                   redeliveryCount, transactionInfo, todo, brokerVars,
                   historyVars>>

RollbackStart ==
    /\ stage = "rollbackStart"
    /\ Executor!Start
    /\ stage' = "redeliverLock"
    /\ UNCHANGED <<sessionVars, consumerVars, rollbackMap, redeliveryCount,
                   transactionInfo, todo, brokerVars, historyVars>>

\* rollbackLock is taken; the map is walked in the order of its keys, which
\* are addresses.
RedeliverMessages ==
    /\ stage = "redeliverLock"
    /\ \E order \in SetToSeqs(Consumers) :
         todo' = FlattenSeq([i \in 1..Len(order) |-> rollbackMap[order[i]]])
    /\ stage' = "redelivering"
    /\ UNCHANGED <<executorVars, sessionVars, consumerVars, rollbackMap,
                   redeliveryCount, transactionInfo, brokerVars,
                   historyVars>>

\* Seeded fault: the count is compared as the documentation says.
FaultGivesUpLater(m) == redeliveryCount[m] >= MaxRedeliveries

GivesUp(m) == redeliveryCount[m] + 1 >= MaxRedeliveries

\* Redelivered: back into the executor's queue.
Redeliver ==
    /\ stage = "redelivering" /\ todo # <<>>
    /\ ~GivesUp(Head(todo))
    /\ redeliveryCount' = [redeliveryCount EXCEPT ![Head(todo)] = @ + 1]
    /\ Executor!Execute(Head(todo))
    /\ todo' = Tail(todo)
    /\ UNCHANGED <<sessionVars, consumerVars, rollbackMap, transactionInfo,
                   stage, brokerVars, historyVars>>

\* Given up: acknowledged as poison, in the new transaction, and deleted.
GiveUp ==
    /\ stage = "redelivering" /\ todo # <<>>
    /\ GivesUp(Head(todo))
    /\ ~broken
    /\ redeliveryCount' = [redeliveryCount EXCEPT ![Head(todo)] = @ + 1]
    /\ acked' = acked \cup {Head(todo)}
    /\ dropped' = dropped \cup {Head(todo)}
    /\ todo' = Tail(todo)
    /\ UNCHANGED <<executorVars, sessionVars, consumerVars, rollbackMap,
                   transactionInfo, stage, sent, committed, broken, inTx,
                   expired>>

\* The poison ack throws: the loop is left and the map not cleared, although
\* the messages before this one belong to the executor or are deleted.  What
\* the map's pointers lead to from then on is undefined.
GiveUpThrows ==
    /\ stage = "redelivering" /\ todo # <<>>
    /\ GivesUp(Head(todo))
    /\ broken
    /\ redeliveryCount' = [redeliveryCount EXCEPT ![Head(todo)] = @ + 1]
    /\ todo' = <<>>
    /\ IF InMap \subseteq ToSet(todo)
       THEN Throws
       ELSE stage' = "undefined"
    /\ UNCHANGED <<executorVars, sessionVars, consumerVars, rollbackMap,
                   transactionInfo, brokerVars, historyVars>>

\* Seeded fault: the map is not cleared.
FaultKeepsMap ==
    /\ stage = "redelivering" /\ todo = <<>>
    /\ Returns
    /\ UNCHANGED <<executorVars, sessionVars, consumerVars, rollbackMap,
                   redeliveryCount, transactionInfo, todo, brokerVars,
                   historyVars>>

\* The map is cleared and rollbackLock released.
RollbackReturns ==
    /\ stage = "redelivering" /\ todo = <<>>
    /\ rollbackMap' = [c \in Consumers |-> <<>>]
    /\ Returns
    /\ UNCHANGED <<executorVars, sessionVars, consumerVars, redeliveryCount,
                   transactionInfo, todo, brokerVars, historyVars>>

-----------------------------------------------------------------------------
ConsumerStep ==
    \/ DispatchExpired \/ OnMessage \/ OnMessageReturns \/ PushUnconsumed
    \/ Receive \/ ReceiveExpired

CommitStep ==
    \/ AckMessages \/ AckMessagesThrows \/ AckMessagesDangling
    \/ ConnectorCommit \/ ConnectorCommitFails \/ ClearTransaction
    \/ StartTransaction \/ StartTransactionThrows \/ CommitReturns

RollbackStep ==
    \/ ConnectorRollback \/ ConnectorRollbackFails \/ RollbackStart
    \/ RedeliverMessages \/ Redeliver \/ GiveUp \/ GiveUpThrows
    \/ RollbackReturns

Next ==
    \/ \E m \in Messages : Arrive(m)
    \/ ConnectionBreaks
    \/ ConnectionStart \/ ConnectionStop \/ SessionStopped
    \/ ExecutorStep \/ SpuriousWakeup
    \/ ConsumerStep
    \/ Commit \/ CommitStep
    \/ Rollback \/ RollbackStep

Spec == Init /\ [][Next]_vars

\* Threads run on inside commit, rollback and stop; the executor's thread is
\* scheduled; a listener that is called returns, having made as many calls
\* as it likes.  Nobody is obliged to commit, to roll back, to receive, or to
\* start the connection.
FairSpec ==
    /\ Spec
    /\ WF_vars(SessionStopped)
    /\ WF_vars(ExecutorStep)
    /\ WF_vars(DispatchExpired \/ OnMessage \/ PushUnconsumed)
    /\ SF_vars(OnMessageReturns)
    /\ WF_vars(CommitStep)
    /\ WF_vars(RollbackStep)

-----------------------------------------------------------------------------
(* Properties *)

\* Every message the broker has sent is still on its way to the application,
\* or kept for a rollback, or settled: acknowledged in a transaction that was
\* committed, given up after too many rollbacks, or expired.
NothingLost ==
    sent \subseteq Awaiting \cup InMap \cup committed \cup dropped \cup expired

\* "Ownership of the messages is now handed off to the rollback tasks" (292):
\* no message is kept for a rollback while it waits to be delivered again, as
\* long as the redelivery loop is not broken off.
OwnedOnce ==
    ~broken /\ stage # "redelivering" =>
      InMap \cap (ToSet(Executor!Pending) \cup ToSet(unconsumed)) = {}

\* A transaction delivers all of its messages or none: TransactionalDelivery
\* has what is acknowledged in a committed transaction for committed, and for
\* waiting what waits in the executor, in the consumers or in rollbackMap.
Discarded == dropped \cup expired

Waiting == (Awaiting \cup InMap) \ (inTx \cup committed \cup Discarded)

Delivery ==
    INSTANCE TransactionalDelivery
    WITH waiting <- Waiting, given <- inTx, committed <- committed \ Discarded,
         discarded <- Discarded

ImplementsTransactionalDelivery == Delivery!Spec

\* "ack all messages we've delivered to the clients" (219): when a transaction
\* is committed, everything the application was given in it is acknowledged.
CommitIsComplete ==
    [][stage = "committing" /\ stage' = "clearing" => inTx \subseteq acked]_vars

\* What has been committed does not come to the application again.
NoReturnAfterCommit ==
    committed \cap (ToSet(Executor!Pending) \cup ToSet(unconsumed)) = {}

\* Every message the session was sent has exactly one future: it is delivered
\* again, kept for a rollback, or settled for good.
Accounted == NothingLost /\ OwnedOnce /\ NoReturnAfterCommit

\* A message that was rolled back comes to the listener again, or is given up
\* or expires, as long as the connection works and is started.
RolledBackReturns ==
    \A m \in Messages :
      (usage = "onMessage" /\ m \in ToSet(todo))
        ~> \/ m \in inTx \cup dropped \cup expired
           \/ broken \/ ~connStarted

\* "since we have the lock on the rollbackLock, then no message will added to
\* the transaction until we are done" (280-283): a rollback redelivers what
\* was given to the application before it, nothing of the new transaction.
RollbackSparesNewMessages ==
    [][stage = "redeliverLock" /\ stage' = "redelivering"
         => ToSet(todo') \cap inTx = {}]_vars

\* "No messages will be delivered until the Connection.start method is
\* explicitly called" (cms/ConnectionFactory.h 40-43).
StoppedIsSilent ==
    [][~connStarted /\ ~stopping => inTx' \subseteq inTx]_vars

\* "Commit called before transaction was started" (213): commit and rollback
\* notice that there is no transaction, and do not use one that was deleted.
NoDeletedTransaction ==
    stage \in {"acking", "committing", "rollingBack"} => transactionInfo = "live"
=============================================================================
