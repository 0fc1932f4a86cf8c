--------------------- MODULE AsyncSendTransportProofs ---------------------
(***************************************************************************)
(* Safety of the asynchronous sender for any producers, backlog and number *)
(* of commands: every step is a step, or a stutter, of FifoChannel.  That  *)
(* nothing is sent past a lost command rests on LossIsFinal, an invariant  *)
(* about the sender's thread, the owner's close and the transport below.   *)
(***************************************************************************)
EXTENDS AsyncSendTransport, TLAPS

\* Without a thread nobody runs; close() has joined the thread, if there was
\* one, before it empties the queue.
ThreadOrder ==
    /\ ~asyncThread => sender = "dead"
    /\ owner \in {"purging", "closeNext"} => ~asyncThread

\* After a loss nothing can be sent any more: the sender is dead and no other
\* can be started, because asyncThread stays set or close() is on its way to
\* close the transport below; or that transport is closed.
LossIsFinal ==
    lost => \/ next = "closed"
            \/ /\ sender = "dead"
               /\ asyncThread \/ owner \in {"purging", "closeNext"}

IInv == TypeOK /\ ThreadOrder /\ LossIsFinal
-----------------------------------------------------------------------------
\* Appending to the queue appends to what is pending.
LEMMA AppendIsPending ==
    ASSUME NEW S, NEW h \in Seq(S), NEW q \in Seq(S), NEW c \in S
    PROVE  h \o Append(q, c) = Append(h \o q, c)
OBVIOUS

\* Taking the head into the empty hand leaves what is pending.
LEMMA HeadIsPending ==
    ASSUME NEW S, NEW q \in Seq(S), q # <<>>
    PROVE  <<Head(q)>> \o Tail(q) = q
OBVIOUS

\* A hand that holds one command holds the oldest that is pending.
LEMMA OneAhead ==
    ASSUME NEW S, NEW x \in S, NEW q \in Seq(S)
    PROVE  /\ <<x>> \o q # <<>>
           /\ Head(<<x>> \o q) = x
           /\ Tail(<<x>> \o q) = <<>> \o q
OBVIOUS

LEMMA HandIsOldest ==
    ASSUME NEW S, NEW h \in Seq(S), NEW q \in Seq(S), Len(h) = 1
    PROVE  /\ h \o q # <<>>
           /\ Tail(h \o q) = <<>> \o q
           /\ \A s \in Seq(S) : s \o h = Append(s, Head(h \o q))
<1>1. PICK x \in S : h = <<x>>
  <2>1. h[1] \in S /\ h = <<h[1]>>
    OBVIOUS
  <2> QED
    BY <2>1
<1>2. \A s \in Seq(S) : s \o <<x>> = Append(s, x)
  OBVIOUS
<1> QED
  BY <1>1, <1>2, OneAhead
-----------------------------------------------------------------------------
\* A new transport has neither thread nor commands.
LEMMA InitEstablishes == Init => IInv
<1> SUFFICES ASSUME Init PROVE IInv
  OBVIOUS
<1> USE DEF Init
<1>1. FlagsTypeOK
  BY DEF FlagsTypeOK
<1>2. ThreadsTypeOK
  BY MaxCommandsAssumption DEF ThreadsTypeOK
<1>3. QueueTypeOK
  BY MaxBacklogAssumption DEF QueueTypeOK
<1>4. ThreadOrder /\ LossIsFinal
  BY DEF ThreadOrder, LossIsFinal
<1> QED
  BY <1>1, <1>2, <1>3, <1>4 DEF IInv, TypeOK

\* oneway: the queue grows by one while there is room.
LEMMA OnewayPreserves ==
    ASSUME IInv, NEW p \in Producers, OnewayPush(p) \/ OnewayWait(p)
    PROVE  IInv'
<1> USE MaxCommandsAssumption, MaxBacklogAssumption
    DEF IInv, TypeOK, OnewayPush, OnewayWait, NotifyAll, Full
<1>1. FlagsTypeOK'
  BY DEF FlagsTypeOK
<1>2. ThreadsTypeOK'
  <2>1. CASE OnewayPush(p)
    <3>1. issued[p] + 1 \in 0..MaxCommands
      BY <2>1 DEF ThreadsTypeOK
    <3> QED
      BY <2>1, <3>1 DEF ThreadsTypeOK
  <2>2. CASE OnewayWait(p)
    BY <2>2 DEF ThreadsTypeOK
  <2> QED
    BY <2>1, <2>2
<1>3. QueueTypeOK'
  <2>1. CASE OnewayPush(p)
    <3>1. <<p, issued'[p]>> \in Commands
      BY <2>1 DEF ThreadsTypeOK, Commands
    <3>2. msgQueue' \in Seq(Commands) /\ Len(msgQueue') = Len(msgQueue) + 1
      BY <2>1, <3>1 DEF QueueTypeOK
    <3> QED
      BY <2>1, <3>2 DEF QueueTypeOK
  <2>2. CASE OnewayWait(p)
    BY <2>2 DEF QueueTypeOK
  <2> QED
    BY <2>1, <2>2
<1>4. ThreadOrder' /\ LossIsFinal'
  BY DEF ThreadOrder, LossIsFinal
<1> QED
  BY <1>1, <1>2, <1>3, <1>4

\* run(): what the sender takes it holds until it is sent or lost, and a loss
\* ends it.
LEMMA SenderPreserves ==
    ASSUME IInv, SenderStep
    PROVE  IInv'
<1> USE DEF IInv, TypeOK, SenderStep, SenderLoops, SenderWaits, SenderReturns,
            SenderPops, SenderSends, SenderFails, SenderHasMonitor, NotifyAll
<1>1. FlagsTypeOK'
  BY DEF FlagsTypeOK
<1>2. ThreadsTypeOK'
  BY DEF ThreadsTypeOK
<1>3. QueueTypeOK'
  <2>1. CASE SenderPops
    <3>1. Head(msgQueue) \in Commands /\ Tail(msgQueue) \in Seq(Commands)
          /\ Len(Tail(msgQueue)) = Len(msgQueue) - 1
      BY <2>1 DEF QueueTypeOK
    <3>2. inHand' \in Seq(Commands) /\ Len(inHand') = 1
      BY <2>1, <3>1
    <3> QED
      BY <2>1, <3>1, <3>2, MaxBacklogAssumption DEF QueueTypeOK
  <2>2. CASE SenderSends
    <3>1. sent \o inHand \in Seq(Commands)
      BY DEF QueueTypeOK
    <3> QED
      BY <2>2, <3>1 DEF QueueTypeOK
  <2>3. CASE SenderFails
    BY <2>3 DEF QueueTypeOK
  <2>4. CASE SenderLoops \/ SenderWaits \/ SenderReturns
    BY <2>4 DEF QueueTypeOK
  <2> QED
    BY <2>1, <2>2, <2>3, <2>4
<1>4. ThreadOrder' /\ LossIsFinal'
  BY DEF ThreadOrder, LossIsFinal, ThreadsTypeOK
<1> QED
  BY <1>1, <1>2, <1>3, <1>4

\* start and close: a thread is only started when there is none, and the queue
\* is only emptied when there is none.
LEMMA OwnerPreserves ==
    ASSUME IInv, OwnerStep
    PROVE  IInv'
<1> USE DEF IInv, TypeOK, OwnerStep, Start, StartThread, StartNext, Close, StopThread,
            JoinThread, PurgeMessages, CloseNext, NotifyAll
<1>1. FlagsTypeOK'
  BY DEF FlagsTypeOK
<1>2. ThreadsTypeOK'
  BY DEF ThreadsTypeOK
<1>3. QueueTypeOK'
  <2>1. CASE PurgeMessages
    BY <2>1, MaxBacklogAssumption DEF QueueTypeOK
  <2>2. CASE StartThread
    BY <2>2 DEF QueueTypeOK, ThreadOrder
  <2>3. CASE Start \/ StartNext \/ Close \/ StopThread \/ JoinThread \/ CloseNext
    BY <2>3 DEF QueueTypeOK
  <2> QED
    BY <2>1, <2>2, <2>3
<1>4. ThreadOrder'
  BY DEF ThreadOrder, FlagsTypeOK
<1>5. LossIsFinal'
  BY DEF LossIsFinal, ThreadOrder, FlagsTypeOK
<1> QED
  BY <1>1, <1>2, <1>3, <1>4, <1>5

\* A broken connection and a spurious wakeup touch nothing the invariant is
\* about.
LEMMA EnvironmentPreserves ==
    ASSUME IInv, ConnectionBreaks \/ SpuriousWakeup \/ UNCHANGED vars
    PROVE  IInv'
<1> USE DEF IInv, TypeOK, ConnectionBreaks, SpuriousWakeup, vars
<1>1. FlagsTypeOK' /\ ThreadsTypeOK'
  BY DEF FlagsTypeOK, ThreadsTypeOK
<1>2. QueueTypeOK'
  BY DEF QueueTypeOK
<1>3. ThreadOrder' /\ LossIsFinal'
  BY DEF ThreadOrder, LossIsFinal
<1> QED
  BY <1>1, <1>2, <1>3

THEOREM Inductive == IInv /\ [Next]_vars => IInv'
<1> SUFFICES ASSUME IInv, [Next]_vars PROVE IInv'
  OBVIOUS
<1>1. CASE \E p \in Producers : OnewayPush(p) \/ OnewayWait(p)
  BY <1>1, OnewayPreserves
<1>2. CASE SenderStep
  BY <1>2, SenderPreserves
<1>3. CASE OwnerStep
  BY <1>3, OwnerPreserves
<1>4. CASE ConnectionBreaks \/ SpuriousWakeup \/ UNCHANGED vars
  BY <1>4, EnvironmentPreserves
<1> QED
  BY <1>1, <1>2, <1>3, <1>4 DEF Next

THEOREM InvariantHolds == Spec => []IInv
BY InitEstablishes, Inductive, PTL DEF Spec

\* Types: the backlog is never exceeded, however many producers are woken for
\* one free place, and the sender holds a command exactly while it sends.
THEOREM TypeCorrect == Spec => []TypeOK
BY InvariantHolds, PTL DEF IInv

-----------------------------------------------------------------------------
(* The refinement of FifoChannel *)

\* A place in the hand is one more than the places of a queue that has room.
LEMMA OneMoreFits ==
    ASSUME NEW a \in {0, 1}, NEW b \in Nat, NEW m \in Nat, b < m
    PROVE  a + b < m + 1
OBVIOUS

\* oneway accepts a command: with the one in the sender's hand there are at
\* most MaxBacklog + 1.
LEMMA OnewayRefines ==
    ASSUME IInv, NEW p \in Producers, OnewayPush(p) \/ OnewayWait(p)
    PROVE  Channel!Accept \/ UNCHANGED Channel!vars
<1> USE DEF IInv, TypeOK
<1>1. CASE OnewayPush(p)
  <2>1. <<p, issued'[p]>> \in Commands
    <3>1. issued[p] + 1 \in 1..MaxCommands
      BY <1>1, MaxCommandsAssumption DEF OnewayPush, ThreadsTypeOK
    <3> QED
      BY <1>1, <3>1 DEF OnewayPush, Commands, ThreadsTypeOK
  <2>2. Pending' = Append(Pending, <<p, issued'[p]>>)
    BY <1>1, <2>1, AppendIsPending DEF OnewayPush, Pending, QueueTypeOK
  <2>3. MaxBacklog # 0 => Len(Pending) < MaxBacklog + 1
    <3>1. Len(Pending) = Len(inHand) + Len(msgQueue)
      <4>1. inHand \in Seq(Commands) /\ msgQueue \in Seq(Commands)
        BY DEF QueueTypeOK
      <4> QED
        BY <4>1 DEF Pending
    <3>2. Len(inHand) \in {0, 1} /\ Len(msgQueue) \in Nat
      BY DEF QueueTypeOK
    <3>3. MaxBacklog # 0 => Len(msgQueue) < MaxBacklog
      <4>1. ~Full
        BY <1>1 DEF OnewayPush
      <4> QED
        BY <4>1, <3>2, MaxBacklogAssumption DEF Full
    <3> QED
      BY <3>1, <3>2, <3>3, OneMoreFits, MaxBacklogAssumption
  <2>4. sent' = sent /\ lost' = lost
    BY <1>1 DEF OnewayPush
  <2> QED
    BY <2>1, <2>2, <2>3, <2>4, MaxBacklogAssumption DEF Channel!Accept
<1>2. CASE OnewayWait(p)
  BY <1>2 DEF OnewayWait, Channel!vars, Pending
<1> QED
  BY <1>1, <1>2

\* The sender emits the oldest command or loses it; after a loss it has none.
LEMMA SenderRefines ==
    ASSUME IInv, SenderStep
    PROVE  Channel!Next \/ UNCHANGED Channel!vars
<1> USE DEF IInv, TypeOK, SenderStep
<1>1. CASE SenderPops
  <2>1. sender # "sending" /\ inHand = <<>>
    BY <1>1 DEF SenderPops, SenderHasMonitor, QueueTypeOK
  <2>2. Pending = msgQueue
    BY <2>1 DEF Pending, QueueTypeOK
  <2>3. Pending' = msgQueue
    BY <1>1, HeadIsPending DEF SenderPops, Pending, QueueTypeOK
  <2> QED
    BY <1>1, <2>2, <2>3 DEF SenderPops, Channel!vars
<1>2. CASE SenderSends
  <2>1. Len(inHand) = 1
    BY <1>2 DEF SenderSends, QueueTypeOK
  <2>2. /\ Pending # <<>>
        /\ sent' = Append(sent, Head(Pending))
        /\ Pending' = Tail(Pending)
    BY <1>2, <2>1, HandIsOldest DEF SenderSends, Pending, QueueTypeOK
  <2>3. ~lost /\ lost' = lost
    BY <1>2 DEF SenderSends, LossIsFinal
  <2> QED
    BY <2>2, <2>3 DEF Channel!Next, Channel!Emit
<1>3. CASE SenderFails
  <2>1. Len(inHand) = 1
    BY <1>3 DEF SenderFails, QueueTypeOK
  <2>2. Pending # <<>> /\ Pending' = Tail(Pending)
    BY <1>3, <2>1, HandIsOldest DEF SenderFails, Pending, QueueTypeOK
  <2> QED
    BY <1>3, <2>2 DEF SenderFails, Channel!Next, Channel!Lose
<1>4. CASE SenderLoops \/ SenderWaits \/ SenderReturns
  BY <1>4 DEF SenderLoops, SenderWaits, SenderReturns, Channel!vars, Pending
<1> QED
  BY <1>1, <1>2, <1>3, <1>4

\* close() loses all that is pending; everything else it does is not seen.
LEMMA OwnerRefines ==
    ASSUME IInv, OwnerStep
    PROVE  Channel!Next \/ UNCHANGED Channel!vars
<1> USE DEF IInv, TypeOK, OwnerStep
<1>1. CASE PurgeMessages
  <2>1. inHand = <<>> /\ inHand' = inHand
    BY <1>1 DEF PurgeMessages, ThreadOrder, QueueTypeOK
  <2>2. Pending = msgQueue /\ Pending' = <<>>
    BY <1>1, <2>1 DEF PurgeMessages, Pending, QueueTypeOK
  <2>3. CASE msgQueue = <<>>
    BY <1>1, <2>2, <2>3 DEF PurgeMessages, Channel!vars, FlagsTypeOK
  <2>4. CASE msgQueue # <<>>
    BY <1>1, <2>2, <2>4 DEF PurgeMessages, Channel!Next, Channel!Lose
  <2> QED
    BY <2>3, <2>4
<1>2. CASE Start \/ StartThread \/ StartNext \/ Close \/ StopThread \/ JoinThread \/ CloseNext
  BY <1>2 DEF Start, StartThread, StartNext, Close, StopThread, JoinThread, CloseNext,
              Channel!vars, Pending
<1> QED
  BY <1>1, <1>2

\* Every step of the transport is a step of FifoChannel: what goes out is what
\* was accepted, in order and without a gap.
THEOREM AsyncSendRefines == Spec => ImplementsFifoChannel
<1>1. Init => Channel!Init
  BY DEF Init, Channel!Init, Pending
<1>2. IInv /\ [Next]_vars => [Channel!Next]_(Channel!vars)
  <2> SUFFICES ASSUME IInv, [Next]_vars
               PROVE  Channel!Next \/ UNCHANGED Channel!vars
    OBVIOUS
  <2>1. CASE \E p \in Producers : OnewayPush(p) \/ OnewayWait(p)
    BY <2>1, OnewayRefines DEF Channel!Next
  <2>2. CASE SenderStep
    BY <2>2, SenderRefines
  <2>3. CASE OwnerStep
    BY <2>3, OwnerRefines
  <2>4. CASE ConnectionBreaks \/ SpuriousWakeup \/ UNCHANGED vars
    BY <2>4 DEF ConnectionBreaks, SpuriousWakeup, vars, Channel!vars, Pending
  <2> QED
    BY <2>1, <2>2, <2>3, <2>4 DEF Next
<1> QED
  BY <1>1, <1>2, InvariantHolds, PTL DEF Spec, ImplementsFifoChannel, Channel!Spec
=============================================================================
