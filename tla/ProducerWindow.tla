--------------------------- MODULE ProducerWindow ---------------------------
(***************************************************************************)
(* Producers of one connection and their windows: OpenWireConnector::send  *)
(* counts what it sends without waiting for an answer in the producer's    *)
(* MemoryUsage, the reader gives room back for every ProducerAck.          *)
(*                                                                         *)
(* Threads: one per producer, that sends; whoever closes the producer, its *)
(* own thread or one that closes session or connection meanwhile; the      *)
(* reader.  A request is answered or fails, as RequestReply promises.      *)
(***************************************************************************)
EXTENDS Integers, Sequences, SequencesExt

CONSTANTS Producers,
          Messages,      \* the message objects each of them sends again
          Limit,         \* MemoryUsage::limit, the window
          Bodies,        \* sizes of a content, the fixed 1024 included
          Props,         \* per producer: sizes of the properties it sets
          MaxInFlight    \* bound: messages of a producer not yet acknowledged

AllProps == UNION {Props[p] : p \in Producers}
Sizes == {b + n : b \in Bodies, n \in AllProps}
LargestOf(S) == CHOOSE x \in S : \A y \in S : y <= x

\* No message is larger than some size.
ASSUME WindowAssumption ==
    /\ Limit \in Nat \ {0}
    /\ Bodies \subseteq Nat \ {0}
    /\ Props \in [Producers -> SUBSET Nat]
    /\ \A p \in Producers : 0 \in Props[p]
    /\ \E x \in Sizes : \A y \in Sizes : y <= x

VARIABLES
    map,       \* producerInfoMap
    life,      \* per producer: created, closed, deleted
    usage,     \* per producer: MemoryUsage::usage
    at,        \* per producer: position of its thread in send
    message,   \* per producer: the message it is sending
    stale,     \* per message object: size of its marshalledProperties
    state,     \* OpenWireConnector::state
    io,        \* IOTransport is not closed
    link,      \* the connection under it holds
    reader,    \* the reader runs
    flight,    \* per producer: sizes sent whose ProducerAck is not read yet
    exact,     \* history: each message was counted as large as it was sent
    undefined  \* history: the reader has used a deleted producer

ioVars == <<state, io, link, reader>>
sendVars == <<at, message, stale, exact>>
vars == <<map, life, usage, sendVars, ioVars, flight, undefined>>

Sum(sizes) == FoldLeft(+, 0, sizes)

NoMessage == [object |-> "none", body |-> 0, props |-> 0]

TypeOK ==
    /\ map \subseteq Producers
    /\ life \in [Producers -> {"absent", "open", "disposing", "closed", "deleted"}]
    /\ usage \in [Producers -> 0 .. (Limit - 1 + LargestOf(Sizes))]
    /\ at \in [Producers -> {"idle", "waiting", "woken", "room", "counted",
                             "request", "failing"}]
    /\ message \in [Producers -> [object : Messages, body : Bodies, props : AllProps] \cup {NoMessage}]
    /\ stale \in [Producers -> [Messages -> AllProps]]
    /\ state \in {"connected", "error"}
    /\ {io, link, reader, undefined} \subseteq BOOLEAN
    /\ flight \in [Producers -> Seq(Sizes)]
    /\ exact \in [Producers -> BOOLEAN]
    /\ \A p \in Producers : life[p] = "absent" => at[p] = "idle" /\ usage[p] = 0

Init ==
    /\ map = {}
    /\ life = [p \in Producers |-> "absent"]
    /\ usage = [p \in Producers |-> 0]
    /\ at = [p \in Producers |-> "idle"]
    /\ message = [p \in Producers |-> NoMessage]
    /\ stale = [p \in Producers |-> [m \in Messages |-> 0]]
    /\ state = "connected"
    /\ io = TRUE
    /\ link = TRUE
    /\ reader = TRUE
    /\ flight = [p \in Producers |-> <<>>]
    /\ exact = [p \in Producers |-> TRUE]
    /\ undefined = FALSE

Goto(p, position) == at' = [at EXCEPT ![p] = position]

Leaves(p, position) ==
    /\ Goto(p, position)
    /\ message' = [message EXCEPT ![p] = NoMessage]

-----------------------------------------------------------------------------
(* The life of a producer *)

\* createProducer: the broker has answered, the producer is registered.
Create(p) ==
    /\ life[p] = "absent"
    /\ state = "connected" /\ io /\ link
    /\ life' = [life EXCEPT ![p] = "open"]
    /\ map' = map \cup {p}
    /\ UNCHANGED <<usage, sendVars, ioVars, flight, undefined>>

\* Seeded fault: the producer is disposed of at the broker only.
FaultKeepsEntry(p) ==
    /\ life[p] = "open"
    /\ life' = [life EXCEPT ![p] = IF state = "connected" THEN "disposing" ELSE "closed"]
    /\ UNCHANGED <<map, usage, sendVars, ioVars, flight, undefined>>

\* BaseConnectorResource::close and closeResource, by any thread: out of the
\* map, then the request to the broker; without connection neither.
Close(p) ==
    /\ life[p] = "open"
    /\ IF state = "connected"
         THEN /\ map' = map \ {p}
              /\ life' = [life EXCEPT ![p] = "disposing"]
         ELSE /\ life' = [life EXCEPT ![p] = "closed"]
              /\ UNCHANGED map
    /\ UNCHANGED <<usage, sendVars, ioVars, flight, undefined>>

\* disposeOf: answered or failed, the producer counts as closed.
Disposed(p) ==
    /\ life[p] = "disposing"
    /\ life' = [life EXCEPT ![p] = "closed"]
    /\ UNCHANGED <<map, usage, sendVars, ioVars, flight, undefined>>

\* ~ActiveMQProducer deletes the closed ProducerInfo, with its MemoryUsage.
Delete(p) ==
    /\ life[p] = "closed" /\ at[p] = "idle"
    /\ life' = [life EXCEPT ![p] = "deleted"]
    /\ usage' = [usage EXCEPT ![p] = 0]
    /\ UNCHANGED <<map, sendVars, ioVars, flight, undefined>>

-----------------------------------------------------------------------------
(* OpenWireConnector::send, with MemoryUsage::enqueueUsage *)

\* waitForSpace: the test of isFull, under the mutex.
TestRoom(p) == Goto(p, IF usage[p] >= Limit THEN "waiting" ELSE "room")

\* Every exception closes the transport: the first to do so joins the reader.
Throws(p) ==
    /\ io' = FALSE
    /\ Leaves(p, IF io THEN "failing" ELSE "idle")
    /\ UNCHANGED <<state, link, reader>>

\* getSize measures the properties as they were marshalled the last time,
\* beforeMarshal renews them when the message is written.
Counted(p) == message[p].body + stale[p][message[p].object]
Written(p) == message[p].body + message[p].props
Marshalled(p) ==
    stale' = [stale EXCEPT ![p][message[p].object] = message[p].props]

\* The application goes on with another object.
NewMessage(p, m) ==
    /\ at[p] = "idle" /\ stale[p][m] # 0
    /\ stale' = [stale EXCEPT ![p][m] = 0]
    /\ UNCHANGED <<map, life, usage, at, message, exact, ioVars, flight, undefined>>

\* ActiveMQProducer::send and enforceConnected.
Begins(p, m, body, props) ==
    /\ life[p] = "open" /\ at[p] = "idle"
    /\ Len(flight[p]) < MaxInFlight
    /\ message' = [message EXCEPT ![p] = [object |-> m, body |-> body, props |-> props]]
    /\ UNCHANGED <<map, life, usage, stale, exact, flight, undefined>>

SendAsync(p, m, body, props) ==
    /\ Begins(p, m, body, props)
    /\ state = "connected"
    /\ TestRoom(p)
    /\ UNCHANGED ioVars

\* A persistent message, or one with a timeout, is a request and not counted.
SendSync(p, m, body, props) ==
    /\ Begins(p, m, body, props)
    /\ state = "connected"
    /\ Goto(p, "request")
    /\ UNCHANGED ioVars

SendRefused(p) ==
    /\ life[p] = "open" /\ at[p] = "idle"
    /\ state # "connected"
    /\ Throws(p)
    /\ UNCHANGED <<map, life, usage, stale, exact, flight, undefined>>

\* The notified waiter tests again.
Woken(p) ==
    /\ at[p] = "woken"
    /\ TestRoom(p)
    /\ UNCHANGED <<map, life, usage, message, stale, exact, ioVars, flight, undefined>>

\* increaseUsage, in a critical section of its own.
Count(p) ==
    /\ at[p] = "room"
    /\ usage' = [usage EXCEPT ![p] = @ + Counted(p)]
    /\ exact' = [exact EXCEPT ![p] = @ /\ Counted(p) = Written(p)]
    /\ Goto(p, "counted")
    /\ UNCHANGED <<map, life, message, stale, ioVars, flight, undefined>>

\* oneway; on a lost connection the command may still be buffered.
Oneway(p) ==
    /\ at[p] = "counted" /\ io
    /\ Marshalled(p)
    /\ Leaves(p, "idle")
    /\ IF link THEN flight' = [flight EXCEPT ![p] = Append(@, Written(p))]
               ELSE UNCHANGED flight
    /\ UNCHANGED <<map, life, usage, exact, ioVars, undefined>>

\* Seeded fault: a request is counted like a oneway.
FaultCountsRequest(p) ==
    /\ at[p] = "request" /\ io /\ link
    /\ usage' = [usage EXCEPT ![p] = @ + Counted(p)]
    /\ Marshalled(p)
    /\ Leaves(p, "idle")
    /\ UNCHANGED <<map, life, exact, ioVars, flight, undefined>>

Answered(p) ==
    /\ at[p] = "request" /\ io /\ link
    /\ Marshalled(p)
    /\ Leaves(p, "idle")
    /\ UNCHANGED <<map, life, usage, exact, ioVars, flight, undefined>>

\* The write fails, or the request: unanswered, late, or refused by the broker.
Fails(p) ==
    /\ \/ at[p] = "counted" /\ (~io \/ ~link)
       \/ at[p] = "request"
    /\ Throws(p)
    /\ \/ Marshalled(p)
       \/ UNCHANGED stale
    /\ UNCHANGED <<map, life, usage, exact, flight, undefined>>

\* IOTransport::close has joined the reader.
Joined(p) ==
    /\ at[p] = "failing" /\ ~reader
    /\ Goto(p, "idle")
    /\ UNCHANGED <<map, life, usage, message, stale, exact, ioVars, flight, undefined>>

-----------------------------------------------------------------------------
(* The reader, and the broker *)

\* Seeded fault: the notifyAll belongs to one branch of the comparison.
FaultSeldomNotifies(p, size) ==
    /\ usage' = [usage EXCEPT ![p] = IF size > @ THEN 0 ELSE @ - size]
    /\ at' = [at EXCEPT ![p] = IF @ = "waiting" /\ size > usage[p] THEN "woken" ELSE @]

\* Seeded fault: what is given back is not compared with usage.
FaultUnclamped(p, size) ==
    /\ usage' = [usage EXCEPT ![p] = @ - size]
    /\ at' = [at EXCEPT ![p] = IF @ = "waiting" THEN "woken" ELSE @]

\* decreaseUsage, with its notifyAll.
GivesBack(p, size) ==
    /\ usage' = [usage EXCEPT ![p] = IF size > @ THEN 0 ELSE @ - size]
    /\ at' = [at EXCEPT ![p] = IF @ = "waiting" THEN "woken" ELSE @]

\* The broker acknowledges every message that asks for no response, those of
\* one producer in order.  onCommand takes the ProducerAck under the lock of
\* producerInfoMap; an unknown producer is an exception IOTransport::fire swallows.
ProducerAck(p) ==
    /\ reader /\ io /\ flight[p] # <<>>
    /\ flight' = [flight EXCEPT ![p] = Tail(@)]
    /\ IF p \in map
         THEN /\ GivesBack(p, Head(flight[p]))
              /\ undefined' = (undefined \/ life[p] = "deleted")
         ELSE UNCHANGED <<usage, at, undefined>>
    /\ UNCHANGED <<map, life, message, stale, exact, ioVars>>

\* IOTransport::run ends: the connection is lost (onTransportException, which
\* wakes nobody in waitForSpace), or the transport closed, noticed by the
\* test of closed or as an exception.  What was on its way is lost.
ReaderEnds ==
    /\ reader /\ (~link \/ ~io)
    /\ reader' = FALSE
    /\ flight' = [p \in Producers |-> <<>>]
    /\ \/ state' = "error"
       \/ ~io /\ UNCHANGED state
    /\ UNCHANGED <<map, life, usage, sendVars, io, link, undefined>>

\* The reader may still read what it has buffered.
ConnectionBreaks ==
    /\ link
    /\ link' = FALSE
    /\ UNCHANGED <<map, life, usage, sendVars, state, io, reader, flight, undefined>>

-----------------------------------------------------------------------------
Sending(p) ==
    \/ \E m \in Messages, body \in Bodies, props \in Props[p] :
           \/ SendAsync(p, m, body, props)
           \/ SendSync(p, m, body, props)
    \/ SendRefused(p)
    \/ \E m \in Messages : NewMessage(p, m)

Going(p) == Woken(p) \/ Count(p) \/ Oneway(p) \/ Answered(p) \/ Fails(p) \/ Joined(p)

Next ==
    \/ \E p \in Producers :
           \/ Create(p) \/ Close(p) \/ Disposed(p) \/ Delete(p)
           \/ Sending(p) \/ Going(p) \/ ProducerAck(p)
    \/ ReaderEnds \/ ConnectionBreaks

\* Threads that can go on do; the broker acknowledges what it has received.
Fairness ==
    /\ \A p \in Producers : WF_vars(Going(p)) /\ WF_vars(ProducerAck(p))
    /\ WF_vars(ReaderEnds)

Spec == Init /\ [][Next]_vars
FairSpec == Spec /\ Fairness

-----------------------------------------------------------------------------
Usable(p) == p \in map /\ life[p] = "open" /\ io /\ link /\ state = "connected"

\* A window counts neither too little nor too much: while the connection holds
\* and the producer's messages were measured as they were marshalled, usage is
\* what is in flight and what is about to be.  Nothing is said here of the
\* limit: waitForSpace blocks when the window is full, so that the last
\* message may exceed it by all but one byte of its size (BlocksForSpace).
UsageIsExact ==
    \A p \in Producers :
        Usable(p) /\ exact[p] =>
            usage[p] = Sum(flight[p]) + (IF at[p] = "counted" THEN Counted(p) ELSE 0)

\* A producer is deleted with its entry left in producerInfoMap when the
\* connection has failed; by then no ProducerAck can be read any more.
NoStaleProducer == ~undefined

\* The reader's ProducerAcks give back what the sends have taken, to a producer
\* that is still there.
WindowHolds == UsageIsExact /\ NoStaleProducer

\* A send that waits for room gets it as the broker acknowledges, whatever
\* the other producers wait for, while the connection holds.
RoomIsGiven ==
    \A p \in Producers :
        (at[p] \in {"waiting", "woken"} /\ exact[p]) ~>
            (at[p] \notin {"waiting", "woken"} \/ ~Usable(p))

\* What OpenWireProducerInfo.h says of decreaseUsage: a blocked call goes on
\* once enough is freed.  Nothing is left that could be freed, and it waits.
BlockedWithCause ==
    \A p \in Producers : Usable(p) /\ at[p] = "waiting" => flight[p] # <<>>

\* enqueueUsage: "if there is not enough space, then this call blocks until
\* there is room for the requested space" (OpenWireProducerInfo.h:202-205).
\* It blocks until the window is not full, whatever the size of the message.
BlocksForSpace ==
    \A p \in Producers :
        at[p] = "room" /\ Counted(p) <= Limit => usage[p] + Counted(p) <= Limit

=============================================================================
