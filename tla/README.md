# TLA+ models of ActiveMQ-CPP 2.2.6

This directory models the part of ActiveMQ-CPP (`src/trunk/activemq-cpp-2.2.6`)
that is hard to get right: the threads between the socket and the application.
The paths below are relative to `src/trunk/activemq-cpp-2.2.6/src/main`.

`PROJECT.json` maps every definition to the lines it was translated from, and
lists the runs, the theorems, the hazards with the properties aimed at each,
and the mutants: for every property a small change of the model, of the kind a
programmer might make in the code, that the property refutes.

## 1. The system

A `cms::Connection` talks to a message broker over one socket. Every call of
the application and every message of the broker goes through this stack:

    application
      | cms::Session, MessageConsumer, MessageProducer
    core        ActiveMQConnection, ActiveMQSession (+ Executor,
      |         Transaction), ActiveMQConsumer, ActiveMQProducer
    connector   OpenWireConnector or StompConnector
      |
    transport   filters: negotiator, AsyncSend, ResponseCorrelator, ...
      |         IOTransport
    decaf       threads, locks, sockets over APR

Threads: the application's; one *reader* per connection (`IOTransport::run`),
which carries every incoming command up to the connector and the connection;
one *dispatcher* per session (`ActiveMQSessionExecutor::run`), which calls the
message listeners; with the AsyncSend filter one *sender*.

| Component | State | Operations | Talks to |
| --- | --- | --- | --- |
| `transport/IOTransport` | closed, thread, the two streams | oneway, start, run, close | the filter above, by callback; the socket |
| `transport/filters/ResponseCorrelator` | requestMap under mapMutex, nextCommandId, closed | request, oneway, onCommand, onTransportException, start, close | requesters wait on a FutureResponse that the reader releases |
| `transport/filters/AsyncSendTransport` | msgQueue under its own lock, closed, asyncThread | oneway, run, start, close | producers and the sender wait for each other |
| `core/ActiveMQSessionExecutor` | messageQueue, started, closed, thread under mutex; dispatchMutex, held while a batch is dispatched | execute, executeFirst, purgeConsumerMessages, start, stop, close | the reader puts in, the dispatcher takes out |
| `core/ActiveMQTransaction` | rollbackMap under rollbackLock, transactionInfo | addToTransaction, commit, rollback | stops and starts the session; acknowledges through the connector |
| `core/ActiveMQConsumer` | listener, closed, unconsumedMessages | dispatch, receive (three forms), setMessageListener, close | session, transaction, connector |
| `core/ActiveMQSession` | consumers, closableSessionResources, executor, transaction | create..., commit, rollback, redispatch, onConnectorResourceClosed, close | everything in core |
| `core/ActiveMQConnection` | dispatchers, activeSessions, started | start, stop, createSession, onConsumerMessage, close | connector callbacks, sessions |
| `connector/openwire/OpenWireConnector` | state, consumerInfoMap, producerInfoMap | connect, createX, send, acknowledge, commit, rollback, closeResource, onCommand, onTransportException | transport below, connection above |
| `connector/openwire/OpenWireFormatNegotiator` | two latches, closed | oneway, request, onCommand, start | reader and starting thread wait for each other |
| `connector/stomp/StompConnector` | state, under its own mutex | connect, send, closeResource, close, onStompCommand, onTransportException | transport below, session manager, session |
| `connector/stomp/StompSessionManager` | destinationMap under mutex | startConsumer, removeConsumer, onStompCommand | sends and delivers with its mutex held |
| `util/MemoryUsage` | usage, limit under mutex | waitForSpace, increaseUsage, decreaseUsage | producers wait for the reader's ProducerAck |
| `cmsutil` (CmsTemplate, SessionPool) | pools of sessions, resource lists | send, receive, takeSession, returnSession, destroy | the CMS interfaces only |
| `decaf/util/concurrent` | Mutex with a queue of waiters, CountDownLatch, ThreadPool with a count of free threads | lock, wait, notify, await, countDown, queueTask | everything above |

Everything else is listed in `PROJECT.json` as not modelled, with the reason:
generated command and marshaller classes, byte streams, sockets, buffers, value
classes, containers, parsers, factories, interfaces, tests, examples, tools and
the vendored APR and rapidjson.

What makes each component correct, in a sentence:

- *ResponseCorrelator*: a requester gets the answer to its own command or a
  failure, nobody touches a deleted future, and nobody waits for ever.
- *AsyncSendTransport*: what is accepted goes out in order and without a gap;
  neither producers nor sender nor close() sleep through what they wait for.
- *SessionExecutor*: messages in order and one at a time; after stop() has
  returned nothing is dispatched; the thread never sleeps on work.
- *Transaction*: after a commit everything the application was given is
  acknowledged and does not return; after a rollback all of it returns; whatever
  fails in between, no message falls out.
- *Consumer*: a message is owned by one place; what arrived before the listener
  reaches it; a closed consumer is left alone and blocks nobody.
- *Negotiator and connector*: a command is marshalled in a format both sides
  have agreed to; close() returns from any state, and the reader is gone before
  what it calls is deleted.
- *Producer window*: usage is what is in flight; a blocked send gets its room; a
  ProducerAck never meets a deleted producer.
- *Stomp session manager*: a destination is subscribed to exactly while it has
  consumers; a ConsumerInfo outlives its users; nobody waits for the other's lock.
- *Thread pool*: every task queued is run, the count of free threads is right,
  the destructor joins all threads and leaves none behind.
- *cmsutil*: a session has one user; nothing cached or resolved is used after it
  was destroyed, or for another destination than the one asked for.

Hard behaviours: every wait/notify pair; state tested under one lock and used
under another, or under none; stop() as a promise that another thread's start()
takes back; calls made from inside a callback while the thread holds a
reentrant lock; connector calls that throw half-way; a connection that breaks
at any point; objects deleted by the application while a callback holds them;
two threads that see the same failure and both clean up; a join of a thread that
wants a lock the joiner holds; an exception that destroys what outer calls of the
same thread still use.
The repository's unit tests run these classes with a mock transport and mostly
from one thread.

## 2. Modules

| Module | What it is | Code |
| --- | --- | --- |
| `RequestReply` | abstract: what a request/response transport promises | - |
| `ResponseCorrelator` | requesters, reader, owner, broker, lossy connection | `ResponseCorrelator.cpp`, `FutureResponse.h`, `IOTransport.cpp`, `CountDownLatch.cpp` |
| `FifoChannel` | abstract: a bounded channel that may stop but never skips | - |
| `AsyncSendTransport` | producers, sender, owner | `AsyncSendTransport.cpp` |
| `PausableQueue` | abstract: a queue handed out one by one that can be paused | - |
| `TransactionalDelivery` | abstract: what a transaction was given is committed together or comes back together | - |
| `SessionExecutor` | callers, a closer, listeners, the dispatcher's thread | `ActiveMQSessionExecutor.cpp` |
| `TransactedSession` | composes SessionExecutor with transaction, consumers and connection of a transacted session | `ActiveMQTransaction.cpp`, parts of `ActiveMQConsumer.cpp`, `ActiveMQSession.cpp`, `ActiveMQConnection.cpp` |
| `SessionConsumer` | composes SessionExecutor with the consumers of an auto-acknowledge session, their listeners, receives, closes and deletion | `ActiveMQConsumer.cpp`, `ActiveMQSession.cpp`, `ActiveMQConnection.cpp`, `BaseConnectorResource.cpp`, `OpenWireConnector.cpp` |
| `OpenWireConnection` | one connection from createConnection to the deletion of connector and transport: owner, senders, reader, negotiator | `OpenWireFormatNegotiator.cpp`, `OpenWireConnector.cpp`, `OpenWireFormat.cpp`, `IOTransport.cpp`, `ActiveMQConnectionFactory.cpp` |
| `ProducerWindow` | producers, their MemoryUsage, those that close them, the reader's ProducerAcks | `MemoryUsage.cpp`, `OpenWireConnector.cpp`, `ActiveMQProducer.cpp`, `commands/Message.cpp` |
| `StompSubscriptions` | consumers that share subscriptions, the reader, an ERROR frame, the connector's close | `StompSessionManager.cpp`, `StompConnector.cpp`, and the ends of `ActiveMQConsumer`, `ActiveMQSession` |
| `ThreadPool` | clients, pooled threads, the destructor | `ThreadPool.cpp`, `PooledThread.cpp` |
| `CmsTemplate` | a stack of calls in one thread, any step of which may throw | `cmsutil/*.cpp` |
| `SessionLifecycle` | the sessions of a connection: its start, stop and close against the threads that create, use, close and delete them, and the reader | `ActiveMQConnection.cpp`, `ActiveMQSession.cpp`, `BaseConnectorResource.cpp`, `util/Set.h` |
| `...Proofs` | theorems about the module they extend; `OpenWireConnectionProofs` also about an instance of `ProducerWindow`, `ThreadPoolProofs` about one of `CmsTemplate`, `SessionExecutorProofs` about one of `TransactedSession` | |
| `MC...` | values of the constants for TLC | |

`SessionExecutor` is written as a specification of its own and, through
`Executor == INSTANCE SessionExecutor WITH ...`, as the part of the two session
modules: their actions conjoin `Executor!Execute(m)`, `Executor!Stop(t)` and so
on with what the caller changes. `OpenWireConnection` and `ProducerWindow` rest
on the correlator through its abstract specification: a request that has been
written is answered or fails, as `RequestReply` promises and
`ImplementsRequestReply` shows.

### How steps correspond to code

A block under one lock is one action; code between two locks is a boundary
between actions, because another thread may run there. Variables have the
names of the fields they stand for; program positions (`pc`, `at`, `stage`,
`position`, `call.at`, `reader`, `owner`) say how far a thread is in a handler.
Comments in the modules name the handler and, where a property quotes a
comment of the source, its line. An action whose name begins with `Fault` is
not part of any `Next`: it is the small change of the code that a mutant puts in
the place of the action next to it.

- *Futures* are named by the command id they were created for; `live` is the
  set that has been allocated and not deleted, so that a use after delete is a
  state that can be seen. A latch is its count, as in `CountDownLatch`.
- *Wait and notify*: a waiter is in a set (or has a position "waiting") until
  `notifyAll` takes it out; it then competes for the lock again.
  `SpuriousWakeup` does the same for no reason, as a condition variable may.
  `decaf::Mutex::notifyAll` signals every queued waiter, so no wakeup is lost
  between waiters; `notify` takes any one of them.
- *dispatchMutex* is reentrant. `Stop(t)` is enabled for a caller only when the
  dispatcher's thread is not in a batch, and for the dispatcher itself always:
  that is why a listener's stop() returns at once and the batch goes on.
- *Missing keys*: `decaf::util::Map::getValue` throws. Where code compares its
  result with NULL and deletes the message (`ActiveMQConnection.cpp` 228-233,
  `ActiveMQSessionExecutor.cpp` 177-183) the message is leaked instead; the
  models count it as `lost`.
- *Connector calls* either go through or throw. They throw only when the
  connection is broken (`ConnectionBreaks`, at any point, allowed by `CanBreak`).
- *Expiry*: a message may be found expired wherever the code looks, and stays
  expired: a rollback also redelivers a message that `dequeue` found expired
  (`ActiveMQConsumer.cpp` 196-206), which the next look then finds expired again.
- *The transaction's map* holds clones; redelivered messages are the same model
  values. An acknowledgement names the last message and a count; what range the
  broker reads from that is the broker's affair, so the model acknowledges the
  messages of the list.
- *The wire format* is its version. Each option the negotiation settles is the
  lesser of the two sides', like the version, and nothing depends on them.
  `writing[t]` remembers the version a thread marshals with, so that a change
  under its hands can be seen.
- *The size of a message* is what `Message::getSize` returns: the content, a
  constant part, and the properties as they were marshalled *the previous time*,
  because send measures before it marshals. `stale` keeps that old size.
- *ThreadPool* counts in a `size_t`: arithmetic is modulo `Word`. `thrown`
  counts, modulo `Word` too, the tasks that ended with an exception.
- *A template's calls* are a stack: the callback of `calls[i]` makes
  `calls[i+1]`. `ThrowInCall` is any throw in the innermost call; each level's
  catch destroys connection, pools, sessions and cached clients and lets the
  exception pass, unless the application's callback handles it (`handled`, until
  the outermost call in progress is over). `CloseSession` is a callback's own close
  of the session it was given, which `Finish`, the end of execute, returns again.
- *Undefined behaviour* ends a behaviour or is remembered: in `SessionConsumer` a
  thread that uses a deleted consumer sets `undefined` and nothing happens after
  that; in `TransactedSession` a call with a dangling transaction info may go
  through (memory is still there), throw, or end in `stage = "undefined"`; in the
  other modules `undefined` is a history variable properties speak about.
- *History variables* (`quiet`, `inTx`, `given`, `lost`, `mishaps`, `raced`,
  `refused`, `gaveUp`, `unjoined`, `exact`, `thrown`, `handled`, `returned`, ...)
  exist for the properties; no action of the code reads them. `woken` holds the
  requesters whose wait for their latch the operating system has ended for no
  reason: await tests the count once, before it waits.

In `SessionConsumer`, `mishaps` collects what the code of close() and
setMessageListener() is not prepared for: another thread's
`Connection::start` between the test of `isStarted` and the end of the call
("start"), a listener that stops its own session in mid-batch ("stop"), a close
whose command cannot be sent, so that the session is never told ("unsent"), and
a close from inside a listener ("inside"). Properties say in their text which
of these they except; the behaviours themselves are in the model and TLC
reaches every one of them (dropping an exception from a property makes it fail).
The same holds of `disturbed` in `RequestReply`, of `startFailed`, `raced` and
`unjoined` in `OpenWireConnection`, `exact` in `ProducerWindow`, `lost` and
`JoinUnderLock` in `StompSubscriptions`, `quiet` in `ThreadPool`, `handled` and
`returned` in `CmsTemplate` and `clash` in `SessionLifecycle`: each is a case in
which the code does not keep the property, and section 5 lists it.

## 3. Runs

| Run | Bounds | Distinct states | Question |
| --- | --- | --- | --- |
| `correlator` | 2 requesters, one timed, 2 commands | 79 146 | is every request answered or failed, the map exact, RequestReply implemented? |
| `async_send` | 2 producers, backlog 1, 2 commands each | 22 076 | is it a FIFO channel in which nobody oversleeps? |
| `executor` | 4 messages, 2 consumers, 1 caller, 1 closer | 5 237 | is it a pausable queue, whoever calls? |
| `tx_session` | 2 messages, 2 consumers, 2 redeliveries, start/stop, breaks | 301 208 | do commit and rollback keep their promises? |
| `consumer` | 2 consumers, 3 messages, one consumer closed and received from | 2 042 782 | is every message somewhere, and a closed consumer silent? |
| `consumer_progress` | 1 consumer, 2 messages, connection may break, fair | 335 386 | do calls return, receivers wake, old messages reach the listener? |
| `connection` | 2 users, own version 4, marshallers for 1-3, broker versions 1, 3, 5 | 72 557 | is the format agreed, does close() return, is the reader gone in time? |
| `window` | 2 producers, 1 message object each, limit 2, 2 in flight, properties of size 0 or 1 | 208 928 | is the window exact, and does a blocked send get its room? |
| `pool` | 3 clients, at most 2 threads, blocks of 1, counter modulo 4 | 22 850 | is the count right, is all work done, is an idle pool destroyed quietly? |
| `stomp` | 3 consumers, two of which share a destination | 159 262 | is a destination subscribed exactly while used, do calls return? |
| `cms_template` | execute in a session, execute and send with a producer, nested twice, 2 modes, 1 name, 2 sessions, 2 connections | 4 043 495 | has each session one owner, and is nothing deleted used? |
| `sessions` | 2 sessions, the second with a consumer, the connection may break | 1 097 786 | do start, stop and close reach every session, and is nothing deleted used? |

Why the bounds are enough. Two requesters give every race of two calls, a late
answer included, because ids are never reused. In `async_send` a backlog of 1 blocks
the second producer (`Full` is `backlog <= size`, tested once more after a wakeup).
Four messages for two consumers let a purge remove messages from the middle of a
queue while another part of it is in the batch. With two redeliveries a message is
given, rolled back, given again and given up. Three messages, of which the middle
one is another consumer's, let a close purge one consumer's messages around
another's. In `connection` the own version is above what there are marshallers for,
so that a broker of version 5 makes the negotiation end the program; two users are
what it takes for two threads to close the transport at once, and one to be waiting
for the reader while the owner deletes the connector. A window as large as two
contents lets a producer fill it exactly, overrun it with the last message, and be
woken without getting room; the sizes of properties let a message be measured too
small and too large. In `pool` there are more clients than threads, and with a
counter modulo 4 (`Word` must exceed `maxThreads + 1`) it wraps below zero after one
exception, as the real one does. Three Stomp consumers let one end a subscription
that another is about to make while a third holds the mutex for another destination.
In `cms_template` two levels are all it takes for an inner failure to destroy what
the outer call uses; a second mode makes the pools differ, and a second session and
connection follow the destroyed first ones. A callback closes its session while none
is available (`MaxAvailable`), which is enough for the pool to have it twice and to
hand it to a nested call. receive differs from send in having no callback; the run
leaves it out to keep the number of states down, the theorems cover it. In
`sessions` one session is created, closed or deleted while the connection is busy
with the other, before or behind the place its loop has reached; the session that
stop() comes to last has the consumer. All properties speak of single objects, pairs
of them, or single threads.

Only `cms_template` uses symmetry, of the two acknowledge modes, between which the
template makes no difference: most other runs check liveness, and the maps of
consumers are small.

Deadlock is checked in `correlator` and `async_send`. The other runs say
`CHECK_DEADLOCK FALSE`: there the system really may stop, after a destructor has
run, once undefined behaviour or an unexpected exception has cut a behaviour
off, when the broker has sent all its messages and no thread calls again, when a
connection is lost, or, in the Stomp model, in the two deadlocks of section 5
that `CallsReturn` names.

### Fairness

- Threads inside a call, inside `run()` or inside a destructor keep running:
  weak fairness of those steps. That is what a preemptive scheduler gives.
- Listeners return and tasks of the pool end. The code cannot make them; a
  listener that does not return blocks its session by design.
- `SF` on `StopForCall` (`SessionConsumer`): a thread that waits for
  `dispatchMutex` gets it some time if it is free again and again. The mutex is
  APR's, which is not required to be fair, but a waiter that is passed over for
  ever is not a behaviour of the platforms the library supports; and `BatchEnds`
  shows that the dispatcher does release it. The same assumption, for the same
  reason, is the `SF` on clients and threads of `ThreadPool`, which all contend
  for the queue's lock and `poolLock`.
- `SF` on `OnMessageReturns` (`TransactedSession`): a listener may call commit
  and rollback again and again inside one onMessage, which disables its return
  each time; it returns some time nevertheless.
- The broker acknowledges what it has received (`ProducerAck` in
  `ProducerWindow`): without that no window has a purpose. Otherwise nobody is
  obliged to start a call, the broker to send or to answer, or the connection to
  break. Timeouts may fire at any time; in `OpenWireConnection` the timed waits
  of the negotiation and of disconnect end some time. Spurious wakeups are not
  fair, so no liveness property rests on one.
- `CmsTemplate` is one thread that runs or does not, and `SessionLifecycle` asks
  what is true when no call is under way: safety only, no fairness.

## 4. What the properties say

*correlator.* `FuturesAreKept`: the map holds exactly the requests under way and
those whose send threw, the leak a TODO in the source admits, and nothing that can
be found has been deleted. `ImplementsRequestReply`: refinement of `RequestReply`,
in which a request fails by its timeout, while the transport is not up, or after its
wait has ended for no reason. `CallsEnd`: a request waiting when the transport fails
is released; a timed request returns; an answered request returns; close() comes
back from the join.

*async_send.* `ImplementsFifoChannel` (refinement: what goes out is a gapless
prefix of what was accepted, within backlog + 1); `NobodyWaitsForEver`: no
wakeup between producers, sender and close() is lost.

*executor.* `NoMissedWakeup`; `ImplementsPausableQueue` (refinement; it contains
that nothing is dispatched after a granted stop and that nothing is handed out
twice); `NobodyWaitsForEver`: a listener that puts messages back cannot keep
stop() waiting for ever, queued messages are taken, the destructor returns.

*tx_session.* `ImplementsTransactionalDelivery` (refinement: what a transaction was
given is committed together and nothing else is, or waits again together; what was
committed is not given again; expiry and the redelivery limit take nothing from the
current transaction). Its mapping reads what waits from the places where messages
are, so that a message lost on its way is a step the abstract specification does not
have. `Accounted` says the same of those places one by one, and that none owns a
message twice. `RolledBackReturns`. The application uses a session as its documents
intend: from its listener, or by receive() from one thread. The case of two threads
("mixed") is in section 5.

*consumer, consumer_progress.* `Accounted` (a message that is dropped belongs to
a consumer that is closed or closing, whatever mishap there was; it is in one
place; after setMessageListener nothing waits for a receive), `CloseIsFinal`,
`GivenInOrderAndAcknowledged`, `NobodyWaitsForEver` (receive, close and
setMessageListener return, also from inside a listener, which is why
dispatchMutex must be reentrant; missed messages are given).

*connection.* `AgreedFormat` relates what a sender is marshalling with to the
reader's renegotiation; its exceptions are the reader that gave up waiting, and
a failure or a bad magic that opens the ready latch. `NoUseOfDeleted`: on every
path out of a connection, a failed createConnection included, the reader is gone
before the connector is, but for three that section 5 lists. `CloseReturns`, in
whatever calls of the users it comes.

*window.* `WindowHolds`: usage equals what is in flight plus what is counted and not
yet sent, across sends, acks, failures and closes; and a ProducerAck finds no
producer that has been deleted. That the limit is kept is not said: the header says
so and the code does not (`BlocksForSpace`, section 5); `TypeOK` bounds the overrun
by one message. `RoomIsGiven`.

*pool.* `CountIsExact`: freeThreads is the number of threads without a task,
less one for each exception there ever was. `QuietShutdown`, `WorkIsDone`.

*stomp.* `SubscribedWhileUsed`, `InfoIsValid`, `CallsReturn`.

*cms_template.* `ResourcesHold`: a pooled session that no callback has closed itself
is available once or used by one call of the stack; nothing deleted is used unless a
callback of the calls in progress has handled the failure that deleted it, and the
default destination the template keeps is what its settings name.

*sessions.* `ConnectionReaches`: whenever no call is under way, every session of
an open connection runs exactly if the connection is started, however start()
overlapped the calls of the sessions; and after close() no session is open, in
the set, or found by the reader. `NothingDeleted`: connection, sessions and
reader use no session, executor, ConsumerInfo or connector that has been deleted,
and nobody reads the set while it changes. The overlaps they except are in
`clash`, named by `Clash`, and each is needed: without it TLC finds the case that
section 5 describes.

## 5. Findings and disagreements

The following statements of the source are refuted by TLC. They are
reproduced by `tlc -config <cfg> <module>` and are not in the list of runs; the
property of each stands in its module with the line it quotes. Of two properties
with the same configuration the file checks one and names the other in a comment
that takes its place.

| Configuration | Property | What happens |
| --- | --- | --- |
| `MCResponseCorrelatorHang` | `NoHangAfterFailure` | `onTransportException` sweeps the map once. A request registered after the sweep, whose write is still accepted, waits for ever: neither `closed` nor the failure is tested by `request` (`ResponseCorrelator.cpp` 287-288). |
| `MCResponseCorrelatorHang` | `AwaitsZero` | `await` waits once and does not test the count again (`CountDownLatch.cpp` 48-53), and `Mutex::wait` passes a spurious wakeup on: a request without timeout may return without a response while the transport is up, against `CountDownLatch.h` 56-57. |
| `MCAsyncSendTransportBlocked` | `BlockedIsReleased` | A producer blocked on a full backlog when the transport is closed may stay blocked on an empty queue: `purgeMessages` pops without a notify. |
| `MCTransactedSessionLateMessage` | `RollbackSparesNewMessages` | `rollback` starts the session before it takes `rollbackLock`; a new message may get into the map that is about to be redelivered, and is delivered twice (`ActiveMQTransaction.cpp` 278-283). |
| `MCTransactedSessionStartInCommit` | `CommitIsComplete` | `Connection::start` from another thread during commit lets a message in after the acknowledgements; it is given in a transaction that commits, and not acknowledged. |
| `MCTransactedSessionUnstarted` | `StoppedIsSilent` | commit and rollback start the session of a connection that is stopped or was never started. |
| `MCTransactedSessionDangling` | `NoDeletedTransaction` | When `startTransaction` throws, the deleted `transactionInfo` is used by the next commit or rollback, against the test that is meant to refuse it. |
| `MCOpenWireConnectionError` | `ErrorIsKept` | The reader fails while `connect` comes back with its answer; `connect` then overwrites the error state with "connected" (`OpenWireConnector.cpp` 244-247, 1480). |
| `MCOpenWireConnectionError` | `ClosedIsStopped` | `close` returns at once to a thread that finds `closed` set by another, whose join has not come back (`IOTransport.cpp` 143-148); the connection then deletes connector and transport while the reader runs, against `IOTransport.h` 231. |
| `MCProducerWindowLeak` | `BlocksForSpace` | `waitForSpace` waits while the window is full, not until the message fits (`MemoryUsage.cpp` 44-51): usage exceeds the limit by up to all but one byte of a message, against `OpenWireProducerInfo.h` 202-205. |
| `MCProducerWindowLeak` | `BlockedWithCause` | Usage is raised by the size with the properties as marshalled the previous time, lowered by the size that was sent (`commands/Message.cpp` 465). A message sent again with smaller properties leaks room until a producer is blocked with nothing in flight, against `OpenWireProducerInfo.h` 213-216. |
| `MCThreadPoolStranded` | `NobodyFreeGrows` | `queueTask` tests freeThreads without `poolLock`; a thread counted free may be on its way to another task, which does not look at the queue again after the push. A task stays queued while all threads are busy and more may be created. |
| `MCStompSubscriptionsDeleted` | `CallerDeletes` | `StompConnector::closeResource` deletes the resource when the unsubscription cannot be sent (786-787), although `Connector.h` 356-358 leaves that to the caller; the caller uses and deletes it again. |
| `MCCmsTemplateReplies` | `OwnDestination` | `getUniqueDestName` (`PooledSession.cpp` 144-160) has no case for temporary destinations, which all get the key "[]". A producer or consumer cached for one of them is returned for every other, so a reply may go to another requester's queue, against `PooledSession.h` 144-145. |
| `MCCmsTemplateDefault` | `ReturnedOnce` | A callback that closes the session it was given returns it to the pool, as `PooledSession.h` 75-79 says it may; `execute` returns it again (`CmsTemplate.cpp` 421), and `SessionPool.cpp` 86-93 adds it a second time: two nested calls, of which the second takes it too, share a session. |
| `MCCmsTemplateDefault` | `DefaultIsKept` | An exception in any call clears the destination set with `setDefaultDestination` (`CmsTemplate.cpp` 163-165), which no comment on it says (`CmsTemplate.h` 281-292). |

Cases the properties except, which the models reach:

- `OpenWireFormatNegotiator.cpp` 257, 264: a start that fails to write our
  WireFormatInfo leaves the negotiator closed, so that it does not close what it
  has started; the connector is deleted while the reader runs (`startFailed`).
- `IOTransport.cpp` 143-148: `closed` is tested and set without a lock; two
  threads that close at once, each because its send failed or in the owner's close,
  both join and delete the reader's thread (`raced`). And an owner that finds it set by
  a send that has failed does not wait for the reader, as that send still does, and
  deletes the connector (`unjoined`): `ActiveMQConnection::close` waits for no call of
  another thread.
- `OpenWireFormatNegotiator.cpp` 162, 183: the result of the reader's timed wait is
  ignored, and a failure or a bad magic opens the ready latch (`gaveUp`,
  `refused`). A version without marshallers is an IllegalArgumentException of
  `setVersion`, which the exception specification of `renegotiateWireFormat`
  (`OpenWireFormat.cpp` 511-512) does not let out: the program is terminated.
- `StompSessionManager.cpp` 206, 256: `transport->close()` joins the reader with
  the manager's mutex held, and the reader needs that mutex to deliver; and
  `StompConnector.cpp` 166 joins it under the connector's mutex while an ERROR
  frame makes the reader call close itself (`JoinUnderLock`): both are deadlocks.
- `ThreadPool.cpp` 315: a task that throws is counted out twice, so the pool is
  taken to have fewer free threads than it has (and, unsigned, sometimes very
  many). A pool destroyed with work pending replaces threads under its own
  destructor's iterator (`undefined` without `quiet`).
- cmsutil: a callback that handles the failure of a call nested in it goes on
  with a session, producer or consumer that the failure has deleted (`handled`); and
  a session closed by its callback is in the pool twice (`returned`).
- `ActiveMQConnection.cpp` 195-200, `ActiveMQSession.cpp` 104-106, 673-715 (clash
  "undone"): a stop() that overlaps a createSession which has found the connection
  started, or the close of a consumer which has found the session started, is
  undone by the start that follows; the connection is stopped and the session
  runs.
- `ActiveMQConnection.cpp` 136-154 (clash "missed"): close() walks over a copy of
  the set. A session created meanwhile stays open, and in the set, after the
  connection is closed, and may even be started by it; a consumer created in a
  session whose resources have been closed keeps its dispatcher.
- `ActiveMQConnection.cpp` 178-200 (clash "incompatible"): start copies, and stop
  walks over, activeSessions without its lock while another thread adds or
  removes a session; stop's iterator does not survive the removal of the session
  it points to; start and close use sessions of their copy that have been closed
  and deleted meanwhile; and two threads that close the same session both delete
  its sessionInfo and its executor.
- `BaseConnectorResource.cpp` 57 again (`unsent`): the ConsumerInfo of a consumer
  whose close could not be sent stays in closableSessionResources, and is closed
  again by the session's close when it has been deleted; its dispatcher stays in
  the map of the connection, and the reader uses it after the session is deleted.

Disagreements met while modelling that have no property of their own:

- `ActiveMQTransaction.cpp` 316 gives a message up at the maxRedeliveries-th
  rollback; `ActiveMQTransaction.h` 52-53 says when the count is exceeded.
- `ActiveMQSession.cpp` 152 and 171 swallow what commit and rollback throw;
  `cms/Session.h` 112 and 120 declare it.
- `ActiveMQTransaction.cpp` 319-324: a poison acknowledgement that throws leaves
  the loop before the map is cleared, although the comment at 292-293 says the
  messages are handed off. The map then holds messages the executor owns; this
  is why `OwnedOnce` of the transacted session excepts a broken connection.
- `ActiveMQConsumer.cpp` 380-383 announces a "delivered" ack near the prefetch
  limit that the code does not send.
- `ActiveMQSessionExecutor.cpp` 242-247: stop() is meant to return only when
  dispatching is over; from a listener it returns at once and the batch goes on
  in a stopped session. If setMessageListener is called then, `isStarted` is
  false, nothing is waited for, and what the batch pushes later is stranded.
- `AsyncSendTransport.cpp` 160-166: the sender ends after one failed send,
  `asyncThread` stays set, and later commands are queued for nobody.
- `ActiveMQConnection.cpp` 172-174: messages that arrive while the connection is
  stopped are queued, not dropped.
- `ActiveMQConsumer.cpp` 343: the listener is set before the session is
  stopped; the rest of a running batch overtakes older messages, against the
  "serial order" of `cms/Session.h` 51-52. `InOrder` excepts consumers whose
  listener was set in a running session (`raced`).
- `ActiveMQConsumer.cpp` 482-489: setMessageListener( NULL ) between the test and
  the call is a call through NULL; removing a listener is not modelled.
- `ActiveMQSession.cpp` 673-716: `wasStarted` is tested, then acted on; a
  start or stop of the connection in between is undone or goes unnoticed.
- `ActiveMQConnection.cpp` 230-231, `ActiveMQSessionExecutor.cpp` 180-183 and
  `OpenWireConnector.cpp` 1386-1392: the branch for a missing consumer is dead,
  `getValue` has thrown.
- `OpenWireConnector.cpp` 1384-1399: consumerInfoMap is unlocked before the
  info is used; a close and a delete of the consumer in between leave the reader
  with a deleted object (`ReaderUsesDeleted`).
- `BaseConnectorResource.cpp` 57: when the close command cannot be sent, the
  session is not told, keeps the consumer in its maps, and dispatches to it after
  the application has deleted it (mishap "unsent").
- `OpenWireConnector.cpp` 814: a send that is refused by the broker, times out, or
  finds the connector not connected closes the whole transport.
- `OpenWireConnector.cpp` 757-759, 794: the transaction id of a message that is
  sent again is deleted and not reset.
- `OpenWireConnector.cpp` 1480 and `ResponseCorrelator.cpp` 287: neither a failed
  nor a closed connection wakes a producer in `waitForSpace`; `RoomIsGiven` holds
  only while the producer is usable.
- `ThreadPool.h` 153-157: a maximum smaller than the present size is to do nothing;
  `setMaxThreads` stores it, and, set between the test and the lock of
  `AllocateThreads`, it makes the subtraction there wrap below zero.
- Stomp: an ERROR frame while connecting makes the reader call close, which waits
  for the connector's mutex until `start`, which holds it and waits for the
  answer the reader would bring, gives up after its negotiation timeout.
- `CmsDestinationAccessor.h` 75: a resolver set after the first use is never
  initialised with the template's resource manager.
- cmsutil: messages prefetched to a cached consumer wait there while nobody
  receives from it.

## 6. Proofs

TLAPS proves, for any values of the constants that satisfy the named
assumptions of the modules:

| Module | Theorem | Property | What it establishes |
| --- | --- | --- | --- |
| `ResponseCorrelatorProofs` | `TypeCorrect` | `TypeOK` | Types are preserved for any requesters and any number of commands; no countDown takes a latch below zero. |
| `ResponseCorrelatorProofs` | `MapStaysExact` | - | The request map holds exactly the requests under way and those whose send threw. |
| `ResponseCorrelatorProofs` | `MapIsSafe` | - | onCommand, close and onTransportException only dereference futures that have not been deleted. |
| `ResponseCorrelatorProofs` | `FuturesStayKept` | `FuturesAreKept` | The shared book-keeping of futures: the map is exact and nothing reachable has been deleted, for any number of requesters and commands. |
| `ResponseCorrelatorProofs` | `ResponsesMatch` | - | A requester never gets the response to another command, nor a late one to an earlier command of its own. |
| `ResponseCorrelatorProofs` | `CorrelatorRefines` | `ImplementsRequestReply` | The correlator implements RequestReply: unique ids, one outcome per call, failure only by timeout, by a wait that ended for no reason, or when the transport is not up. |
| `SessionExecutorProofs` | `TypeCorrect` | `TypeOK` | Types are preserved for any callers, messages and consumers; no batch outlives its dispatchAll. |
| `SessionExecutorProofs` | `StopIsGranted` | - | Once a caller's stop() has returned nothing is dispatched before the next start(). |
| `SessionExecutorProofs` | `WakeupsReachTheThread` | `NoMissedWakeup` | The thread never sleeps on a message it may dispatch or on a close that waits for it. |
| `SessionExecutorProofs` | `ExecutorRefines` | `ImplementsPausableQueue` | The executor implements PausableQueue: order, one message at a time, and pauses that hold. |
| `StompSubscriptionsProofs` | `TypeCorrect` | `TypeOK` | Types are preserved for any consumers and destinations; a thread holds the manager's mutex exactly where it writes, closes or joins under it. |
| `StompSubscriptionsProofs` | `SubscribedExactly` | `SubscribedWhileUsed` | However many consumers share however many destinations, a destination is subscribed to exactly while it has consumers, as long as commands can be written. |
| `StompSubscriptionsProofs` | `NoDeletedInfo` | `InfoIsValid` | Reader, session and consumers use no deleted ConsumerInfo unless an unsubscription could not be written. |
| `AsyncSendTransportProofs` | `TypeCorrect` | `TypeOK` | Types, and that the backlog is never exceeded and the sender holds a command exactly while it sends, for any producers, backlog and bound on the calls. |
| `AsyncSendTransportProofs` | `AsyncSendRefines` | `ImplementsFifoChannel` | AsyncSendTransport implements FifoChannel: the transport below is handed what oneway accepted, in order and without a gap, whatever start, close and a broken connection do in between. |
| `OpenWireConnectionProofs` | `TypeCorrect` | `TypeOK` | Types for any number of users and any versions; every thread is where its connection's stage lets it be. |
| `OpenWireConnectionProofs` | `FormatIsAgreed` | `AgreedFormat` | For any preferred, supported and broker versions nothing but our own info is marshalled in a version other than the one both sides have, with the exceptions the property names. |
| `OpenWireConnectionProofs` | `ReaderEndsFirst` | `NoUseOfDeleted` | On every path out of a connection the reader has ended before the connector it calls is deleted, unless the negotiator's start failed, two threads closed the transport at once, or a send that had failed was still joining the reader when the owner deleted the connector. |
| `ThreadPoolProofs` | `TypeCorrect` | `TypeOK` | For any clients, threads and blocks a task is never twice in the queue or with two threads, and everything keeps its range. |
| `ThreadPoolProofs` | `CountStaysExact` | `CountIsExact` | For any width of size_t freeThreads is the number of threads without a task, less one for each task that ended with an exception. |
| `ThreadPoolProofs` | `QuietDestruction` | `QuietShutdown` | A pool destroyed after its last task is not grown under the destructor's iterator. |
| `SessionLifecycleProofs` | `TypeCorrect` | `TypeOK` | Types for any number of sessions; whoever has activeSessions locked is adding to it or removing from it. |
| `SessionLifecycleProofs` | `NothingDeletedIsUsed` | `NothingDeleted` | However many sessions there are, start, stop and close of the connection, the calls of the sessions and the reader use nothing deleted, as long as no two incompatible calls overlap and no close of a consumer is lost. |
| `SessionLifecycleProofs` | `SessionsAreReached` | `ConnectionReaches` | However many sessions come and go while the connection is started, stopped or closed, in the end each runs as the connection does, and a closed connection has left none open and no dispatcher registered, with the exceptions the property names. |
| `SessionConsumerProofs` | `TypeCorrect` | `TypeOK` | Types for any consumers and messages; what is given, acknowledged, expired or lost has been sent. |
| `SessionConsumerProofs` | `MessagesAreAccounted` | `Accounted` | A message of any consumer is at any time in exactly one place, given or expired, dropped only by a close or with the connection, and never left with a listener's consumer after redispatch. |
| `SessionConsumerProofs` | `ClosesAreFinal` | `CloseIsFinal` | When a close has returned the session has none of the consumer's messages and does not use it, whatever the reader, the Dispatcher and the owner did meanwhile, with the exceptions the property names. |
| `SessionConsumerProofs` | `MessagesAreGivenInOrder` | `GivenInOrderAndAcknowledged` | A consumer's messages reach its listener or its receive() in the order in which they were sent, unless its listener was set while the session ran (`raced`) or a call met one of the `mishaps`; what has been consumed is acknowledged, unless the consumer was closed or the connection broke. |
| `OpenWireConnectionProofs` | `WindowTypeCorrect` | `TypeOK` of `ProducerWindow` | Types for any producers, sizes and limit; no window is filled beyond its limit by a whole message or more. |
| `OpenWireConnectionProofs` | `WindowIsKept` | `WindowHolds` | While sizes are measured right and the connection holds, usage is the sum of what is in flight and of what is counted and not yet sent; and a ProducerAck finds no deleted producer. |
| `ThreadPoolProofs` | `TemplateTypeCorrect` | `TypeOK` of `CmsTemplate` | Types however deep calls nest and whatever throws; a client is cached only for a session that is pooled. |
| `ThreadPoolProofs` | `ResourcesStay` | `ResourcesHold` | A pooled session that no callback has closed itself is available once or has exactly one user, and what is available is of that pool; nothing deleted is used unless a callback of the calls in progress has handled a failure; the default destination the template keeps is live and the one its settings name. |
| `SessionExecutorProofs` | `TransactionTypeCorrect` | `TypeOK` of `TransactedSession` | Types; no message is counted past `maxRedeliveries`, and only what was sent is acknowledged, given or dropped. |
| `SessionExecutorProofs` | `TransactionsAreAccounted` | `Accounted` | For any messages and finitely many consumers: a message that was sent is still to be delivered, kept for a rollback, or settled; not waiting and kept at once; and not back after a commit. |
| `SessionExecutorProofs` | `CommitsAreComplete` | `CommitIsComplete` | A transaction that is committed has acknowledged all that the application was given in it. |
| `SessionExecutorProofs` | `TransactionsDeliver` | `ImplementsTransactionalDelivery` | For any messages and finitely many consumers the session implements TransactionalDelivery: a transaction delivers all or nothing, and nothing but what waits is discarded. |
| `SessionExecutorProofs` | `TransactionUsesExecutor` | - | Every step of `TransactedSession` is a step that `SessionExecutor` allows, so that what is proved of the executor alone holds inside the session. |
| `SessionExecutorProofs` | `TransactionKeepsOrder` | `ImplementsPausableQueue` | Inside a session whose rollbacks start, stop and refill the executor, it is still a pausable queue, its pauses are quiet and no wakeup is missed. |
| `SessionConsumerProofs` | `ConsumersUseExecutor` | - | Every step of `SessionConsumer` is a step that `SessionExecutor` allows. |

*The correlator.* `OwnResponse` is not inductive: that a requester reads its own
answer depends on what may be in a future, on the wire and in the broker's
hands. `IInv` adds `Bookkeeping` (commands belong to one requester, are below
the counter and have not failed), `Provenance` (a response found anywhere
answers the command it is filed under) and `FailureExcused` (a latch is open
without a response only when the transport is down, and a request without timeout
reads none only then or when its wait has ended for no reason). There is one lemma per
action, each with one step per conjunct; the refinement then has one lemma per
action again, naming the step of `RequestReply` it is, and uses
`FailureExcused` for `Fail`. The assumptions are `Timed \subseteq Requesters`
and that the bound on commands is a natural number.

*The AsyncSend filter.* The refinement needs two facts beside the types.
`ThreadOrder`: a sender that is alive is one that start() has created and
close() has not yet joined, so that the queue close() purges has nobody taking
from it, and the sender start() creates is the only one. `LossIsFinal`: once a
command has been dropped, no later one is on its way out, since the sender is
dead or the transport below is closed. Pending commands are the sender's hand
followed by the queue; four lemmas about sequences say what taking the head,
appending and sending the hand do to that concatenation. The backlog bound is
in `QueueTypeOK`, and `OnewayRefines` turns it into the channel's capacity.

*The executor.* `StopIsQuiet` needs that a granted stop has cleared `started`
(`QuietIsStopped`), and that a closing destructor has set `closed` before it joins
(`ClosingOrder`); `NoMissedWakeup` is its own strengthening together with these. The
refinement rests on lemmas about sequences: that a purge keeps a subsequence
(`SelectedIsSubsequence`), and what a push does to what is pending. The executor's
environment pushes any message that is not pending, also the one that is being
dispatched: a rollback inside a listener hands the executor a clone of that message.
That this environment is wide enough is proved and not assumed.
`TransactionUsesExecutor` and `ConsumersUseExecutor` show that each step of the two
modules that contain an executor is a step of `SessionExecutor` or leaves its
variables alone; the start and stop of a rollback, its redeliveries and the pushes
of `redispatch` among them. By the theorems above the queue's order, its pauses and
its wakeups then hold within the session too, which `TransactionKeepsOrder` writes
out.

*The Stomp subscriptions.* `SubscribedWhileUsed` speaks of states in which the
mutex is free. Between the change of an entry and the write that follows it the
two disagree, so `Sharing` says for every destination but the holder's that it is
subscribed to exactly when it has consumers, and `HolderAlone` that the holder
has found its entry empty: a first consumer that is about to subscribe, or a last
one that is about to unsubscribe. `InfoIsValid` needs `Members` (an entry holds
consumers whose info is live), `Calls` (what a thread inside a call relies on)
and `Dangling` (an info dangles only where an unsubscription was lost).

*The connection.* `AgreedFormat` speaks of the moment at which a thread marshals.
Its strengthening is `Negotiated`, which says what stands behind the ready latch
(a failure, a bad magic, or a format that has been agreed) and that the reader
changes the format only while that latch is shut, and `Writers`, which says that a
thread marshals only behind the latch or while it starts the connection; `Alone`
and `Starting` keep the two apart. `NoUseOfDeleted` needs `Joins`: where the
transport is closed the reader has ended or somebody joins it, and two threads
join it only when both saw the transport open (`raced`). `Ending` follows the
owner's stages down to the deletion of the connector: what the owner found closed
was closed by a user that still joins, and then the deletion is `unjoined`. Users
may be anywhere in their calls meanwhile, and versions are arbitrary.

*The thread pool.* `CountIsExact` is inductive with `TypeOK`, `TaskHasOnePlace` (a
task is with its client, in the queue or with one thread, so that taking it makes
one thread busy), `Alive` and `QuietMeans`. The counter is a `size_t`, so the
proof is about arithmetic modulo `Word`: `Congruent` and `ModPlus` are derived from
the division law, `CountUp` and `CountOut` say what counting threads in and out
does to a difference modulo `Word`. The new threads of `AllocateThreads` are a
CHOOSE; `SubsetOfSize` shows that there is such a set, from the theorems on
finite sets. The assumptions are that there are `maxThreads` threads and that
`Word` is larger.

*The sessions.* `TypeInv` adds to the types where each call may be. `NothingDeleted`
excuses what happens after a close of a consumer was lost or two incompatible calls
overlapped, so the invariant is `Sound => Intact`. `Intact` consists of `Compatible`
(which calls can overlap at all), `Lives` (a session is in `activeSessions` while it
is open, its consumer in the map of dispatchers only while it is live, and the
reader is at one of those), `Reliable` (what a thread inside a call finds: its
session open, its resource not yet taken out) and `Walks` (what start, stop and
close still have to come to is in the set). `SoundBefore` carries `Sound` back from
a step's end to its beginning, so that the invariant may be used. That stop's
iterator points to a session (`AfterIsActive`) needs a minimum of a set of numbers,
from the well-foundedness of `<`.

`ConnectionReaches` speaks of states in which no call is under way. `ReachInv` says
what is true in between, in three parts, each for as long as its excuse has not come
up. `Following`: a session in the set runs as the connection does, unless start still
has it in its copy, stop's iterator has not passed it, or its own thread is about to
start it. `Reaching`: a session that is open is in the set, and a close of the
connection still has it to do or is at it. `Leaving`: a consumer is in the map of
dispatchers only while its resource is open or some thread is taking it out.

*The consumer.* `ConsumerInv` is the largest strengthening here, in four layers.
`Singly`, `Apart` and `Tracked` give each of the seven places that a message can be
in a set of its own: the sets are disjoint, no place holds a message twice, and what
has been sent and is in none of them was given, expired or dropped. One lemma per
step that moves messages says which sets it changes; all other steps share `Kept`.
With `Losing` (a consumer leaves a map only when it is being closed) and `Stranding`
(nothing is dispatched while redispatch works, and a push that missed the new
listener is over before it) this is `Accounted`. `CloseIsFinal` needs to know what a
close has done at each of its positions (`Gone`), that the Dispatcher rests while
App's call has the session stopped (`Stopped`), and that nothing that a close took
away comes back (`Silent`, `Safe`). The steps are described once by what they do to
the maps (`Narrows`), to the messages (`Passes`) and to the close (`Closes`), and
the two follow from these. The order of the messages is `Line`: what has been given
is before what was taken, that before what waits or is being put back, that before
the dispatch, the batch, the queue, the reader's hand and what the broker has not
sent; and within a place they are in order (`Rows`), in `reversedList` in reverse.
`ReceiverAlone`, `Listened` and `Unraced` keep the paths apart that could overtake
each other. Assumed are that the three threads are three, that there is a consumer,
that each message is for one and that receive() is called on consumers.

*The windows.* They are proved in the second half of `OpenWireConnectionProofs`,
about an instance `Window` of `ProducerWindow`: the two modules have names in common,
so the theorems name `WindowAssumption` as a hypothesis. It says that the limit and
the contents are positive and that no message is larger than some size, without which
no bound on a window's overrun exists. `WindowInv` adds to the property what a send
relies on at each of its positions (`Sends`), what the life of a producer tells of the
map, of its sends and of what is in flight (`Lives`), and how the sum and the usage
compare also when the producer is no longer usable, for as long as the measured sizes
were exact (`Counts`). What is in flight is
summed with a fold. `SumOfAppend` and `SumOfTail` say what a send and an ack do to it.
They need an induction on the length of the sequence, which the library's induction
theorem, having an operator as its parameter, does not give here; `NatSet` derives it
for sets of numbers from the well-foundedness of `<`, and the lemmas about the fold
use it with the set of the lengths at which they hold.

*The template.* It is proved in the second half of `ThreadPoolProofs`, about an
instance `Cms` of `CmsTemplate`, under the module's two assumptions (the calls are
execute, send or receive with their targets, and the bounds are numbers). `Owned` is
the property with sets instead of cardinalities, and like it says of the sessions in
`returned` only whose pool they are in; `CloseSessionKeeps` puts them there.
`Stacked` says of the stack that only the innermost call is anywhere else than in
its callback and what that call has by then; `Pooling` that there are pools exactly
while there is a connection, that the resource manager knows every pooled session
and every resolved destination, and that sessions are numbered as they are made, so
that a new one has no user. `Living`: until a callback has handled a failure, every
callback has its session, and while an exception is on its way up there is no
connection, hence no pool. A throw destroys everything at once, so that the lemma
about it is the shortest; the longest are `TakeAvailableKeeps`, `TakeNewKeeps` and
`FinishKeeps`, where a session changes hands.

*The transaction.* It is proved in the second half of `SessionExecutorProofs`, about
an instance `Tx` of `TransactedSession`, under `UsedAsIntended`: there are finitely
many consumers, `maxRedeliveries` is positive, and the session is used as the run
`tx_session` uses it, by a listener that commits or a thread that receives and
commits. For a session whose listener is given messages that another thread commits
the theorems do not hold, as `MCTransactedSessionLateMessage` and
`MCTransactedSessionStartInCommit` show (section 5). `TxInv` relates three sets:
`Ahead`, what is in line for the application; `InMap`, what `rollbackMap` keeps; and
`Todo`, what the redelivery loop has still to do. `Line` says that the places of the
line are disjoint and hold nothing twice, `Filed` that the map holds each message once
and under its consumer. `Apart` and `Tracked` are `Accounted` with the loop under way:
then `Ahead` and `InMap` overlap, but `Todo` and `Ahead` do not, and what the loop has
done is elsewhere. `Settled` and `Given` follow the acknowledgements through a commit
and a rollback; `Counts`, without which a count could leave its range, says that what
can be redelivered has not been given up. Once a broken connection has left the map
half redelivered (`Wrecked`) nothing is said of the map's pointers. The lemmas up to
`TxMapKept` say what a step does to the sequences, in terms of the sets; from there on
the proof is about sets. The loop begins with the concatenation of the map's lists in
an unknown order of the keys: `TxOrders` shows from the theorems on finite sets that an
order names every consumer once, and `TxFlattened`, by induction on the number of lists
as for the windows, what the concatenation holds.

`TransactionsDeliver` follows step by step. By `Tracked` and `Apart` what waits is
all that was sent and is neither given nor settled (`TxWaiting`), so that a step of
the abstract specification is a matter of four history sets. `Delivering` adds to
`TxInv` what makes each step fit: what was given is neither in line nor settled;
what was given up has been counted to the limit, hence by `Counts` is not in line;
at the commit nothing has been acknowledged that was not given or discarded; and
outside a commit or rollback the map holds what was given and what has expired, as
long as the connection works.

Only model-checked: liveness under fairness (the prover has no rule for
`ENABLED` here). What a RECURSIVE operator computes cannot be proved about either;
the modules use none.

## 7. Not modelled, and the plan

Within the modelled components: CLIENT_ACKNOWLEDGE and DUPS_OK sessions, pull
requests of a consumer with prefetch 0, durable consumers, the removal of a
listener, temporary destinations of a connection, the destructor of a
transaction; the Stomp connector's connect, send, acknowledge and transactions;
setMaxThreads and setBlockSize of a pool; the deletion of a template and a
resolver set by the application.

Components left out, with the reason in `PROJECT.json`: forwarding filters and
registries, socket and logging filters, containers, properties and URIs, byte
streams and sockets, the class generator, tests and examples. Most of the
repository is not its own program: APR, apr-util, apr-iconv with its character
tables, expat and rapidjson are vendored, and `connector/openwire/marshal` and
`commands` are generated, one class per command and protocol version. The 510
thousand lines of the tree are mainly these; what this directory models is the
few thousand lines in which threads, failures and lifetimes meet. The generated
code has no state between calls, and of the vendored code the models use only
condition variables, threads and sockets, as external actions.

Done: ResponseCorrelator, AsyncSendTransport, SessionExecutor,
TransactedSession, SessionConsumer, OpenWireConnection, ProducerWindow,
ThreadPool, StompSubscriptions, CmsTemplate, SessionLifecycle. Left, in this
order:

1. `DecafMutex`: the queue of condition variables behind notify and timed waits
   (`Mutex.cpp` 145).
2. The Stomp connector's connect and its negotiation timeout.

What of `decaf` and APR decides a property without being modelled (joining the
own thread, what a broken stream reports) is left open in the models: the action
that would depend on it is not there, or has both outcomes.
