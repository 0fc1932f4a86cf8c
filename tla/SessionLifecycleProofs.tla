----------------------- MODULE SessionLifecycleProofs -----------------------
(***************************************************************************)
(* For any number of sessions with any of them consuming, and with the     *)
(* calls of the connection and those of the sessions overlapping as the    *)
(* module allows: types; that everything a call refers to is still there   *)
(* as long as no two calls are incompatible; and that start, stop and      *)
(* close reach every session.                                              *)
(***************************************************************************)
EXTENDS SessionLifecycle, WellFoundedInduction, TLAPS

\* Positions of the calls that create a session, close a resource, and close
\* a session.
CreateAt == {"requesting", "adding", "added", "starting"}
DetachAt == {"disposing", "asking", "stopping", "removing", "purging", "forgetting"}
DropAt == {"unlocking", "entering", "leaving", "dropping"}
CloseAt == {"closing", "locking", "resource", "joining"} \cup DetachAt \cup DropAt

\* Where each call may be.
SessionPositions ==
    \A s \in Sessions :
        /\ op[s] \in {"none", "create", "createConsumer", "closeConsumer", "close"}
        /\ op[s] = "create" => at[s] \in CreateAt
        /\ op[s] = "createConsumer" =>
              at[s] \in {"registering", "subscribing", "resource"} \cup DetachAt
        /\ op[s] = "closeConsumer" => at[s] \in {"resource"} \cup DetachAt
        /\ op[s] = "close" => at[s] \in CloseAt
        /\ at[s] = "requesting" => life[s] = "none"
        /\ at[s] = "registering" => resource[s] # "none"
        /\ resource[s] # "none" => life[s] # "none"
        /\ at[s] \notin {"idle", "requesting"} => life[s] # "none"

OwnerPositions ==
    /\ op[Owner] \in {"none", "start", "stop", "close"}
    /\ op[Owner] = "start" => at[Owner] \in {"copying", "walking"}
    /\ op[Owner] = "stop" => at[Owner] = "walking"
    /\ op[Owner] = "close" => at[Owner] \in {"walking", "disconnecting"} \cup CloseAt
    /\ at[Owner] \in CloseAt => target \in Sessions /\ life[target] # "none"
    /\ at[Owner] = "disconnecting" => closed
    /\ closed => op[Owner] = "none" \/ at[Owner] = "disconnecting"
    /\ todo \subseteq {s \in Sessions : life[s] # "none"}

TypeInv == TypeOK /\ SessionPositions /\ OwnerPositions

-----------------------------------------------------------------------------
\* No close of a consumer has been lost, and no two calls were incompatible.
Sound == ~unsent /\ "incompatible" \notin clash

\* Which calls may then overlap.
Compatible ==
    /\ op[Owner] \in {"start", "stop"} =>
          \A s \in Sessions : op[s] \in {"none", "createConsumer", "closeConsumer"}
    /\ op[Owner] = "close" \/ closed => \A s \in Sessions : op[s] = "none"
    /\ ~connected => closed /\ op[Owner] = "none"

\* A session is in the set while it is open, its resource is in the
\* dispatchers' map only while it is live, and the reader uses what is there.
Lives ==
    \A s \in Sessions :
        /\ s \in active => life[s] = "open"
        /\ life[s] = "open" =>
              \/ s \in active \/ at[s] \in {"adding", "dropping"}
              \/ target = s /\ at[Owner] = "dropping"
        /\ life[s] # "open" => resource[s] \in {"none", "removed"}
        /\ resource[s] # "dangling"
        /\ resource[s] = "closed" =>
              at[s] \in DetachAt \/ (target = s /\ at[Owner] \in DetachAt)
        /\ executor[s] = "ending" =>
              /\ life[s] = "closed"
              /\ at[s] = "joining" \/ (target = s /\ at[Owner] = "joining")
        /\ s \in dispatchers => resource[s] \in {"open", "closed"}
        /\ reader = s => s \in dispatchers

\* What a thread inside a call relies on.
Relies(t, s) ==
    /\ at[t] = "adding" => life[s] = "open"
    /\ at[t] \in {"registering", "subscribing", "resource"} =>
          life[s] = "open" /\ resource[s] = "open"
    /\ at[t] \in DetachAt => life[s] = "open" /\ resource[s] = "closed"
    /\ at[t] \in {"purging", "forgetting"} => s \notin dispatchers
    /\ at[t] \in {"closing", "locking"} => life[s] = "open"
    /\ at[t] \in DropAt => life[s] = "open" /\ resource[s] \in {"none", "removed"}
    /\ at[t] \in {"dropping", "joining"} => s \notin active
    /\ at[t] = "joining" => life[s] = "closed"

Reliable == /\ \A s \in Sessions : Relies(s, s)
            /\ at[Owner] \in CloseAt => Relies(Owner, target)

\* What the connection's loops come to is still there, and a close comes to
\* every session.
Walks ==
    /\ op[Owner] = "start" /\ at[Owner] = "walking" => todo \subseteq active
    /\ op[Owner] = "stop" => cursor \in active \cup {End}
    /\ op[Owner] = "close" /\ ~closed =>
          \A s \in Sessions :
             life[s] = "open" <=>
                s \in todo \/ (s = target /\ at[Owner] \in CloseAt \ {"joining"})
    /\ at[Owner] \in CloseAt => target \notin todo
    /\ closed => \A s \in Sessions : life[s] # "open"

Intact == ~undefined /\ Compatible /\ Lives /\ Reliable /\ Walks

IInv == TypeInv /\ (Sound => Intact)
\* Nothing has undone a stop, and the connection is not being closed.
Followed == /\ ~undefined /\ "undone" \notin clash
            /\ op[Owner] # "close" /\ ~closed

\* A session in the set runs as the connection does, unless the connection has
\* yet to come to it, or its own thread to start it.
Runs(s) ==
    /\ started =>
          \/ executor[s] = "started"
          \/ op[Owner] = "start" /\ (at[Owner] = "copying" \/ s \in todo)
          \/ at[s] \in {"added", "starting"}
          \/ at[s] \in {"removing", "purging"} /\ wasStarted[s]
    /\ ~started =>
          \/ executor[s] = "stopped"
          \/ op[Owner] = "stop" /\ cursor # End /\ cursor <= s

Follows(s) ==
    /\ s \in active /\ op[s] # "close" => Runs(s)
    /\ at[s] = "starting" => started
    /\ at[s] \in {"stopping", "removing", "purging"} /\ op[s] # "close"
          /\ wasStarted[s] => started
    /\ at[s] = "stopping" => wasStarted[s]
    /\ at[s] = "adding" =>
          executor[s] = "stopped" /\ life[s] = "open" /\ s \notin active \cup todo
    /\ s \in active => life[s] = "open"
    /\ life[s] = "open" => s \in active \/ at[s] \in {"adding", "dropping"}
    /\ executor[s] \in {"ending", "gone"} => s \notin active
    /\ at[s] \in {"dropping", "joining"} => s \notin active
    /\ op[Owner] = "stop" => op[s] \in {"none", "close"}

Following ==
    /\ op[Owner] = "start" => started
    /\ op[Owner] = "stop" => ~started
    /\ \A s \in Sessions : Follows(s)

\* A close of the connection has missed nothing.
Told == ~undefined /\ "missed" \notin clash

\* The thread t is busy with the session s.
Works(t, s) == t = s \/ (t = Owner /\ target = s)

\* The connection's close comes to every session that is open.
Reaches(s) ==
    /\ op[Owner] = "close" =>
          /\ op[s] \in {"none", "close"}
          /\ s \in active => s \in todo \/ (s = target /\ at[Owner] \in CloseAt)
    /\ closed => s \notin active /\ op[s] \in {"none", "close", "closeConsumer"}
    /\ life[s] = "open" =>
          s \in active \/ at[s] = "adding"
             \/ \E t \in Threads : Works(t, s) /\ at[t] = "dropping"
    /\ life[s] \in {"closed", "deleted"} => s \notin active
    /\ at[s] = "adding" => life[s] = "open"

Reaching ==
    /\ \A s \in Sessions : Reaches(s)
    /\ \A s \in Sessions, t \in Threads :
          Works(t, s) /\ at[t] \in {"dropping", "joining"} => s \notin active

\* What a thread that closes a resource or its session knows of the resource.
Detaches(t, s) ==
    /\ at[t] \in {"resource", "unlocking"} \cup DetachAt /\ op[t] = "close" =>
          resourceLock[s] = t
    /\ at[t] = "resource" => resource[s] = "open"
    /\ at[t] \in DetachAt => resource[s] = "closed"
    /\ at[t] \in {"purging", "forgetting"} => s \notin dispatchers
    /\ at[t] \in DropAt \cup {"joining"} => resource[s] \in {"none", "removed"}

\* The map of dispatchers is left by every session that is closed.
Leaves(s) ==
    /\ resource[s] # "dangling"
    /\ s \in dispatchers => resource[s] \in {"open", "closed"}
    /\ at[s] \in {"registering", "subscribing"} => resource[s] = "open"
    /\ life[s] \in {"closed", "deleted"} => resource[s] \in {"none", "removed"}
    /\ resource[s] = "closed" => \E t \in Threads : Works(t, s) /\ at[t] \in DetachAt

Leaving ==
    /\ \A s \in Sessions : Leaves(s)
    /\ \A s \in Sessions, t \in Threads : Works(t, s) => Detaches(t, s)

ReachInv ==
    /\ TypeInv
    /\ Followed => Following
    /\ Told => Reaching
    /\ Told /\ ~unsent => Leaving
-----------------------------------------------------------------------------
LEMMA Apart == Owner \notin Sessions /\ Nobody \notin Threads /\ End \notin Sessions
  BY SessionsAssumption DEF Owner, Nobody, End, Threads

\* A std::set is walked in order: the iterator points to the least element
\* that is left, or to the end.
LEMMA AfterIsLeast ==
    ASSUME NEW x, active \subseteq Sessions
    PROVE  LET rest == {r \in active : r > x}
           IN  IF rest = {} THEN After(x) = End
               ELSE After(x) \in rest /\ \A r \in rest : After(x) <= r
<1> DEFINE rest == {r \in active : r > x}
<1>1. CASE rest = {}
  BY <1>1 DEF After
<1>2. CASE rest # {}
  <2>1. rest \subseteq Nat
    BY SessionsAssumption
  <2>2. PICK m \in rest : \A y \in rest : ~(<<y, m>> \in OpToRel(<, Nat))
    BY <1>2, <2>1, NatLessThanWellFounded, WFMin
  <2>3. \A y \in rest : m =< y
    <3> SUFFICES ASSUME NEW y \in rest PROVE m =< y
      OBVIOUS
    <3>1. y \in Nat /\ m \in Nat
      BY <2>1
    <3>2. y < m => <<y, m>> \in OpToRel(<, Nat)
      BY <3>1 DEF OpToRel
    <3>3. ~ (y < m)
      BY <2>2, <3>2, Zenon
    <3> QED
      BY <3>1, <3>3
  <2>4. Min(rest) \in rest /\ \A y \in rest : Min(rest) <= y
    BY <2>3 DEF Min
  <2> QED
    BY <1>2, <2>4 DEF After
<1> QED
  BY <1>1, <1>2

LEMMA AfterIsActive ==
    ASSUME NEW x, active \subseteq Sessions
    PROVE  After(x) \in active \cup {End}
  BY AfterIsLeast

LEMMA AfterIsNext ==
    ASSUME NEW x, active \subseteq Sessions, NEW r \in active, r > x
    PROVE  After(x) \in active /\ After(x) <= r
  BY AfterIsLeast

LEMMA InitTypes == Init => TypeInv
<1> SUFFICES ASSUME Init PROVE TypeInv
  OBVIOUS
<1> USE Apart DEF Init, Threads
<1>1. {started, closed, connected, broken, unsent, undefined} \subseteq BOOLEAN
      /\ clash \subseteq {"undone", "missed", "incompatible"}
  OBVIOUS
<1>2. SessionsTypeOK
  BY DEF SessionsTypeOK
<1>3. ThreadsTypeOK
  BY DEF ThreadsTypeOK, Positions
<1>4. LocksTypeOK
  BY DEF LocksTypeOK
<1>5. SessionPositions
  BY DEF SessionPositions
<1>6. OwnerPositions
  BY DEF OwnerPositions, CloseAt, DetachAt, DropAt
<1> QED
  BY <1>1, <1>2, <1>3, <1>4, <1>5, <1>6 DEF TypeInv, TypeOK

\* A session is created.
LEMMA CreatingTypes ==
    ASSUME TypeInv, NEW s \in Sessions,
           \/ Create(s) \/ Created(s) \/ CreateFails(s) \/ Added(s)
           \/ TestsStarted(s) \/ StartsSession(s)
    PROVE  TypeInv'
<1> USE Apart DEF Create, Created, CreateFails, Added, TestsStarted,
        StartsSession, Return, StartExecutor, Goto, Undefined, SessionCall,
        Clash, Threads, connectionVars, sessionVars, lockVars, threadVars,
        historyVars
<1>1. {started, closed, connected, broken, unsent, undefined}' \subseteq BOOLEAN
      /\ clash' \subseteq {"undone", "missed", "incompatible"}
  BY DEF TypeInv, TypeOK
<1>2. SessionsTypeOK'
  BY DEF TypeInv, TypeOK, SessionsTypeOK, ThreadsTypeOK, SessionPositions,
         OwnerPositions
<1>3. ThreadsTypeOK'
  BY DEF TypeInv, TypeOK, SessionsTypeOK, ThreadsTypeOK, OwnerPositions, Positions,
         CloseAt, DetachAt, DropAt
<1>4. LocksTypeOK'
  BY DEF TypeInv, TypeOK, LocksTypeOK, ThreadsTypeOK
<1>5. SessionPositions'
  BY DEF TypeInv, TypeOK, SessionsTypeOK, ThreadsTypeOK, SessionPositions,
         OwnerPositions,
         CreateAt, CloseAt, DetachAt, DropAt
<1>6. OwnerPositions'
  BY DEF TypeInv, TypeOK, SessionsTypeOK, ThreadsTypeOK, OwnerPositions, CloseAt,
         DetachAt, DropAt
<1> QED
  BY <1>1, <1>2, <1>3, <1>4, <1>5, <1>6 DEF TypeInv, TypeOK

\* A consumer is created, and its close begins.
LEMMA ConsumerTypes ==
    ASSUME TypeInv, NEW s \in Sessions,
           \/ CreateConsumer(s) \/ AddDispatcher(s) \/ Subscribed(s)
           \/ SubscribeFails(s) \/ CloseConsumer(s)
    PROVE  TypeInv'
<1> USE Apart DEF CreateConsumer, AddDispatcher, Subscribed, SubscribeFails,
        CloseConsumer, SessionCall, Goto, Clash, Undefined, Return, Threads,
        connectionVars, sessionVars, lockVars, threadVars, historyVars
<1>1. {started, closed, connected, broken, unsent, undefined}' \subseteq BOOLEAN
      /\ clash' \subseteq {"undone", "missed", "incompatible"}
  BY DEF TypeInv, TypeOK
<1>2. SessionsTypeOK'
  BY DEF TypeInv, TypeOK, SessionsTypeOK, ThreadsTypeOK, SessionPositions,
         OwnerPositions
<1>3. ThreadsTypeOK'
  BY DEF TypeInv, TypeOK, SessionsTypeOK, ThreadsTypeOK, OwnerPositions, Positions,
         CloseAt, DetachAt, DropAt
<1>4. LocksTypeOK'
  BY DEF TypeInv, TypeOK, LocksTypeOK, ThreadsTypeOK
<1>5. SessionPositions'
  <2>1. CASE CreateConsumer(s)
    BY <2>1 DEF TypeInv, TypeOK, SessionsTypeOK, ThreadsTypeOK, SessionPositions,
              OwnerPositions, CreateAt, CloseAt, DetachAt, DropAt
  <2>2. CASE AddDispatcher(s)
    BY <2>2 DEF TypeInv, TypeOK, SessionsTypeOK, ThreadsTypeOK, SessionPositions,
              OwnerPositions, CreateAt, CloseAt, DetachAt, DropAt
  <2>3. CASE Subscribed(s)
    BY <2>3 DEF TypeInv, TypeOK, SessionsTypeOK, ThreadsTypeOK, SessionPositions,
              OwnerPositions, CreateAt, CloseAt, DetachAt, DropAt
  <2>4. CASE SubscribeFails(s)
    BY <2>4 DEF TypeInv, TypeOK, SessionsTypeOK, ThreadsTypeOK, SessionPositions,
              OwnerPositions, CreateAt, CloseAt, DetachAt, DropAt
  <2>5. CASE CloseConsumer(s)
    BY <2>5 DEF TypeInv, TypeOK, SessionsTypeOK, ThreadsTypeOK, SessionPositions,
              OwnerPositions, CreateAt, CloseAt, DetachAt, DropAt
  <2> QED
    BY <2>1, <2>2, <2>3, <2>4, <2>5
<1>6. OwnerPositions'
  BY DEF TypeInv, TypeOK, SessionsTypeOK, ThreadsTypeOK, OwnerPositions, CloseAt,
         DetachAt, DropAt
<1> QED
  BY <1>1, <1>2, <1>3, <1>4, <1>5, <1>6 DEF TypeInv, TypeOK

\* The close of a resource, up to the session's being told.
LEMMA ResourceTypes ==
    ASSUME TypeInv, NEW t \in Threads,
           \/ CloseResource(t) \/ Disposed(t) \/ DisposeFails(t) \/ Ask(t)
    PROVE  TypeInv'
<1> USE Apart DEF CloseResource, Disposed, DisposeFails, Ask, AfterResource,
        Undefined, Goto, Of, Return, Threads, connectionVars, sessionVars,
        lockVars, threadVars, historyVars
<1>1. {started, closed, connected, broken, unsent, undefined}' \subseteq BOOLEAN
      /\ clash' \subseteq {"undone", "missed", "incompatible"}
  BY DEF TypeInv, TypeOK
<1>2. SessionsTypeOK'
  BY DEF TypeInv, TypeOK, SessionsTypeOK, ThreadsTypeOK, SessionPositions,
         OwnerPositions
<1>3. ThreadsTypeOK'
  <2>1. CASE CloseResource(t)
    BY <2>1 DEF TypeInv, TypeOK, SessionsTypeOK, ThreadsTypeOK, OwnerPositions,
           Positions,
              CloseAt, DetachAt, DropAt
  <2>2. CASE Disposed(t)
    BY <2>2 DEF TypeInv, TypeOK, SessionsTypeOK, ThreadsTypeOK, OwnerPositions,
           Positions,
              CloseAt, DetachAt, DropAt
  <2>3. CASE DisposeFails(t)
    BY <2>3 DEF TypeInv, TypeOK, SessionsTypeOK, ThreadsTypeOK, OwnerPositions,
           Positions,
              CloseAt, DetachAt, DropAt
  <2>4. CASE Ask(t)
    <3>1. wasStarted' \in [Threads -> BOOLEAN]
      BY <2>4 DEF TypeInv, TypeOK, ThreadsTypeOK
    <3> QED
      BY <2>4, <3>1
         DEF TypeInv, TypeOK, SessionsTypeOK, ThreadsTypeOK, OwnerPositions, Positions,
             CloseAt, DetachAt, DropAt
  <2> QED
    BY <2>1, <2>2, <2>3, <2>4
<1>4. LocksTypeOK'
  BY DEF TypeInv, TypeOK, LocksTypeOK, ThreadsTypeOK
<1>5. SessionPositions'
  BY DEF TypeInv, TypeOK, SessionsTypeOK, ThreadsTypeOK, SessionPositions,
         OwnerPositions,
         CreateAt, CloseAt, DetachAt, DropAt
<1>6. OwnerPositions'
  BY DEF TypeInv, TypeOK, SessionsTypeOK, ThreadsTypeOK, OwnerPositions, CloseAt,
         DetachAt, DropAt
<1> QED
  BY <1>1, <1>2, <1>3, <1>4, <1>5, <1>6 DEF TypeInv, TypeOK

\* The session detaches a consumer.
LEMMA DetachTypes ==
    ASSUME TypeInv, NEW t \in Threads,
           \/ StopForCall(t) \/ RemoveDispatcher(t) \/ Purge(t)
           \/ Forget(t)
    PROVE  TypeInv'
<1> USE Apart DEF StopForCall, RemoveDispatcher, Purge, Forget, Return, Goto,
        Of, StartExecutor, Undefined, StopExecutor, Threads, connectionVars,
        sessionVars, lockVars, threadVars, historyVars
<1>1. {started, closed, connected, broken, unsent, undefined}' \subseteq BOOLEAN
      /\ clash' \subseteq {"undone", "missed", "incompatible"}
  BY DEF TypeInv, TypeOK
<1>2. SessionsTypeOK'
  BY DEF TypeInv, TypeOK, SessionsTypeOK, ThreadsTypeOK, SessionPositions,
         OwnerPositions
<1>3. ThreadsTypeOK'
  <2>1. CASE StopForCall(t)
    BY <2>1 DEF TypeInv, TypeOK, SessionsTypeOK, ThreadsTypeOK, OwnerPositions,
           Positions,
              CloseAt, DetachAt, DropAt
  <2>2. CASE RemoveDispatcher(t)
    BY <2>2 DEF TypeInv, TypeOK, SessionsTypeOK, ThreadsTypeOK, OwnerPositions,
           Positions,
              CloseAt, DetachAt, DropAt
  <2>3. CASE Purge(t)
    BY <2>3 DEF TypeInv, TypeOK, SessionsTypeOK, ThreadsTypeOK, OwnerPositions,
           Positions,
              CloseAt, DetachAt, DropAt
  <2>4. CASE Forget(t)
    BY <2>4 DEF TypeInv, TypeOK, SessionsTypeOK, ThreadsTypeOK, OwnerPositions,
           Positions,
              CloseAt, DetachAt, DropAt
  <2> QED
    BY <2>1, <2>2, <2>3, <2>4
<1>4. LocksTypeOK'
  BY DEF TypeInv, TypeOK, LocksTypeOK, ThreadsTypeOK
<1>5. SessionPositions'
  BY DEF TypeInv, TypeOK, SessionsTypeOK, ThreadsTypeOK, SessionPositions,
         OwnerPositions,
         CreateAt, CloseAt, DetachAt, DropAt
<1>6. OwnerPositions'
  BY DEF TypeInv, TypeOK, SessionsTypeOK, ThreadsTypeOK, OwnerPositions, CloseAt,
         DetachAt, DropAt
<1> QED
  BY <1>1, <1>2, <1>3, <1>4, <1>5, <1>6 DEF TypeInv, TypeOK

\* A session's close, while it is open.
LEMMA CloseTypes ==
    ASSUME TypeInv, NEW t \in Threads,
           \/ CloseBegins(t) \/ LockResources(t) \/ UnlockResources(t)
           \/ RemovesSession(t)
    PROVE  TypeInv'
<1> USE Apart DEF CloseBegins, LockResources, UnlockResources, RemovesSession,
        Goto, Of, Return, StopExecutor, Undefined, Threads, connectionVars,
        sessionVars, lockVars, threadVars, historyVars
<1>1. {started, closed, connected, broken, unsent, undefined}' \subseteq BOOLEAN
      /\ clash' \subseteq {"undone", "missed", "incompatible"}
  BY DEF TypeInv, TypeOK
<1>2. SessionsTypeOK'
  BY DEF TypeInv, TypeOK, SessionsTypeOK, ThreadsTypeOK, SessionPositions,
         OwnerPositions
<1>3. ThreadsTypeOK'
  BY DEF TypeInv, TypeOK, SessionsTypeOK, ThreadsTypeOK, OwnerPositions, Positions,
         CloseAt, DetachAt, DropAt
<1>4. LocksTypeOK'
  BY DEF TypeInv, TypeOK, LocksTypeOK, ThreadsTypeOK
<1>5. SessionPositions'
  BY DEF TypeInv, TypeOK, SessionsTypeOK, ThreadsTypeOK, SessionPositions,
         OwnerPositions,
         CreateAt, CloseAt, DetachAt, DropAt
<1>6. OwnerPositions'
  BY DEF TypeInv, TypeOK, SessionsTypeOK, ThreadsTypeOK, OwnerPositions, CloseAt,
         DetachAt, DropAt
<1> QED
  BY <1>1, <1>2, <1>3, <1>4, <1>5, <1>6 DEF TypeInv, TypeOK

\* A session's close, from its removal on.
LEMMA DropTypes ==
    ASSUME TypeInv, NEW t \in Threads,
           \/ RemovedSession(t) \/ MarkClosed(t) \/ ExecutorDeleted(t)
    PROVE  TypeInv'
<1> USE Apart DEF RemovedSession, MarkClosed, ExecutorDeleted, Return, Of,
        Goto, Undefined, Threads, connectionVars, sessionVars, lockVars,
        threadVars, historyVars
<1>1. {started, closed, connected, broken, unsent, undefined}' \subseteq BOOLEAN
      /\ clash' \subseteq {"undone", "missed", "incompatible"}
  BY DEF TypeInv, TypeOK
<1>2. SessionsTypeOK'
  BY DEF TypeInv, TypeOK, SessionsTypeOK, ThreadsTypeOK, SessionPositions,
         OwnerPositions
<1>3. ThreadsTypeOK'
  BY DEF TypeInv, TypeOK, SessionsTypeOK, ThreadsTypeOK, OwnerPositions, Positions,
         CloseAt, DetachAt, DropAt
<1>4. LocksTypeOK'
  BY DEF TypeInv, TypeOK, LocksTypeOK, ThreadsTypeOK
<1>5. SessionPositions'
  BY DEF TypeInv, TypeOK, SessionsTypeOK, ThreadsTypeOK, SessionPositions,
         OwnerPositions,
         CreateAt, CloseAt, DetachAt, DropAt
<1>6. OwnerPositions'
  BY DEF TypeInv, TypeOK, SessionsTypeOK, ThreadsTypeOK, OwnerPositions, CloseAt,
         DetachAt, DropAt
<1> QED
  BY <1>1, <1>2, <1>3, <1>4, <1>5, <1>6 DEF TypeInv, TypeOK

\* A session's close begins, and it is deleted.
LEMMA EndTypes ==
    ASSUME TypeInv, NEW s \in Sessions,
           \/ CloseSession(s) \/ DeleteSession(s)
    PROVE  TypeInv'
<1> USE Apart DEF CloseSession, DeleteSession, Clash, SessionCall, Goto,
        Threads, connectionVars, sessionVars, lockVars, threadVars,
        historyVars
<1>1. {started, closed, connected, broken, unsent, undefined}' \subseteq BOOLEAN
      /\ clash' \subseteq {"undone", "missed", "incompatible"}
  BY DEF TypeInv, TypeOK
<1>2. SessionsTypeOK'
  BY DEF TypeInv, TypeOK, SessionsTypeOK, ThreadsTypeOK, SessionPositions,
         OwnerPositions
<1>3. ThreadsTypeOK'
  BY DEF TypeInv, TypeOK, SessionsTypeOK, ThreadsTypeOK, OwnerPositions, Positions,
         CloseAt, DetachAt, DropAt
<1>4. LocksTypeOK'
  BY DEF TypeInv, TypeOK, LocksTypeOK, ThreadsTypeOK
<1>5. SessionPositions'
  BY DEF TypeInv, TypeOK, SessionsTypeOK, ThreadsTypeOK, SessionPositions,
         OwnerPositions,
         CreateAt, CloseAt, DetachAt, DropAt
<1>6. OwnerPositions'
  BY DEF TypeInv, TypeOK, SessionsTypeOK, ThreadsTypeOK, OwnerPositions, CloseAt,
         DetachAt, DropAt
<1> QED
  BY <1>1, <1>2, <1>3, <1>4, <1>5, <1>6 DEF TypeInv, TypeOK

\* What a call of the connection adds to clash.
LEMMA ConnectionCallClashes ==
    ASSUME TypeInv, NEW call, NEW p, ConnectionCall(call, p)
    PROVE  clash' \subseteq {"undone", "missed", "incompatible"}
<1>1. \A other : Clash(call, other) \subseteq {"undone", "missed", "incompatible"}
  BY DEF Clash
<1> QED
  BY <1>1 DEF ConnectionCall, TypeInv, TypeOK

\* The connection's start and stop.
LEMMA WalkTypes ==
    ASSUME TypeInv,
           \/ Start \/ CopySessions \/ (\E s \in Sessions : StartNext(s))
           \/ Stop \/ StopNext \/ StartOrStopReturns
    PROVE  TypeInv'
<1>0. Start \/ Stop => clash' \subseteq {"undone", "missed", "incompatible"}
  BY ConnectionCallClashes DEF Start, Stop
<1> USE Apart DEF Start, CopySessions, StartNext, Stop, StopNext,
        StartOrStopReturns, Goto, StopExecutor, Undefined, ConnectionCall,
        StartExecutor, Threads, connectionVars, sessionVars, lockVars,
        threadVars, historyVars
<1>1. {started, closed, connected, broken, unsent, undefined}' \subseteq BOOLEAN
      /\ clash' \subseteq {"undone", "missed", "incompatible"}
  <2>1. CASE Start
    BY <2>1, <1>0 DEF TypeInv, TypeOK
  <2>2. CASE CopySessions
    BY <2>2 DEF TypeInv, TypeOK
  <2>3. CASE \E s \in Sessions : StartNext(s)
    BY <2>3 DEF TypeInv, TypeOK
  <2>4. CASE Stop
    BY <2>4, <1>0 DEF TypeInv, TypeOK
  <2>5. CASE StopNext
    BY <2>5 DEF TypeInv, TypeOK
  <2>6. CASE StartOrStopReturns
    BY <2>6 DEF TypeInv, TypeOK
  <2> QED
    BY <2>1, <2>2, <2>3, <2>4, <2>5, <2>6
<1>2. SessionsTypeOK'
  BY DEF TypeInv, TypeOK, SessionsTypeOK, ThreadsTypeOK, SessionPositions,
         OwnerPositions
<1>3. ThreadsTypeOK'
  <2>1. CASE Start
    BY <2>1, AfterIsActive DEF TypeInv, TypeOK, SessionsTypeOK, ThreadsTypeOK,
           OwnerPositions, Positions, CloseAt, DetachAt, DropAt
  <2>2. CASE CopySessions
    BY <2>2, AfterIsActive DEF TypeInv, TypeOK, SessionsTypeOK, ThreadsTypeOK,
           OwnerPositions, Positions, CloseAt, DetachAt, DropAt
  <2>3. CASE \E s \in Sessions : StartNext(s)
    BY <2>3, AfterIsActive DEF TypeInv, TypeOK, SessionsTypeOK, ThreadsTypeOK,
           OwnerPositions, Positions, CloseAt, DetachAt, DropAt
  <2>4. CASE Stop
    BY <2>4, AfterIsActive DEF TypeInv, TypeOK, SessionsTypeOK, ThreadsTypeOK,
           OwnerPositions, Positions, CloseAt, DetachAt, DropAt
  <2>5. CASE StopNext
    BY <2>5, AfterIsActive DEF TypeInv, TypeOK, SessionsTypeOK, ThreadsTypeOK,
           OwnerPositions, Positions, CloseAt, DetachAt, DropAt
  <2>6. CASE StartOrStopReturns
    BY <2>6, AfterIsActive DEF TypeInv, TypeOK, SessionsTypeOK, ThreadsTypeOK,
           OwnerPositions, Positions, CloseAt, DetachAt, DropAt
  <2> QED
    BY <2>1, <2>2, <2>3, <2>4, <2>5, <2>6
<1>4. LocksTypeOK'
  BY DEF TypeInv, TypeOK, LocksTypeOK, ThreadsTypeOK
<1>5. SessionPositions'
  BY DEF TypeInv, TypeOK, SessionsTypeOK, ThreadsTypeOK, SessionPositions,
         OwnerPositions,
         CreateAt, CloseAt, DetachAt, DropAt
<1>6. OwnerPositions'
  BY DEF TypeInv, TypeOK, SessionsTypeOK, ThreadsTypeOK, OwnerPositions, CloseAt,
         DetachAt, DropAt
<1> QED
  BY <1>1, <1>2, <1>3, <1>4, <1>5, <1>6 DEF TypeInv, TypeOK

\* The connection's close.
LEMMA ConnectionCloseTypes ==
    ASSUME TypeInv,
           \/ Close \/ (\E s \in Sessions : CloseNext(s))
           \/ CloseConnection \/ Disconnect
    PROVE  TypeInv'
<1> USE Apart DEF Close, CloseNext, CloseConnection, Disconnect, Goto,
        ConnectionCall, Clash, Threads, connectionVars, sessionVars, lockVars,
        threadVars, historyVars
<1>1. {started, closed, connected, broken, unsent, undefined}' \subseteq BOOLEAN
      /\ clash' \subseteq {"undone", "missed", "incompatible"}
  BY DEF TypeInv, TypeOK
<1>2. SessionsTypeOK'
  BY DEF TypeInv, TypeOK, SessionsTypeOK, ThreadsTypeOK, SessionPositions,
         OwnerPositions
<1>3. ThreadsTypeOK'
  BY DEF TypeInv, TypeOK, SessionsTypeOK, ThreadsTypeOK, OwnerPositions, Positions,
         CloseAt, DetachAt, DropAt
<1>4. LocksTypeOK'
  BY DEF TypeInv, TypeOK, LocksTypeOK, ThreadsTypeOK
<1>5. SessionPositions'
  BY DEF TypeInv, TypeOK, SessionsTypeOK, ThreadsTypeOK, SessionPositions,
         OwnerPositions,
         CreateAt, CloseAt, DetachAt, DropAt
<1>6. OwnerPositions'
  BY DEF TypeInv, TypeOK, SessionsTypeOK, ThreadsTypeOK, OwnerPositions, CloseAt,
         DetachAt, DropAt
<1> QED
  BY <1>1, <1>2, <1>3, <1>4, <1>5, <1>6 DEF TypeInv, TypeOK

\* The reader, and the loss of the connection.
LEMMA ReaderTypes ==
    ASSUME TypeInv,
           \/ (\E s \in Sessions : OnConsumerMessage(s)) \/ Dispatched
           \/ ConnectionBreaks
    PROVE  TypeInv'
<1> USE Apart DEF OnConsumerMessage, Dispatched, ConnectionBreaks, Undefined,
        Threads, connectionVars, sessionVars, lockVars, threadVars,
        historyVars
<1>1. {started, closed, connected, broken, unsent, undefined}' \subseteq BOOLEAN
      /\ clash' \subseteq {"undone", "missed", "incompatible"}
  BY DEF TypeInv, TypeOK
<1>2. SessionsTypeOK'
  BY DEF TypeInv, TypeOK, SessionsTypeOK, ThreadsTypeOK, SessionPositions,
         OwnerPositions
<1>3. ThreadsTypeOK'
  BY DEF TypeInv, TypeOK, SessionsTypeOK, ThreadsTypeOK, OwnerPositions, Positions,
         CloseAt, DetachAt, DropAt
<1>4. LocksTypeOK'
  BY DEF TypeInv, TypeOK, LocksTypeOK, ThreadsTypeOK
<1>5. SessionPositions'
  BY DEF TypeInv, TypeOK, SessionsTypeOK, ThreadsTypeOK, SessionPositions,
         OwnerPositions,
         CreateAt, CloseAt, DetachAt, DropAt
<1>6. OwnerPositions'
  BY DEF TypeInv, TypeOK, SessionsTypeOK, ThreadsTypeOK, OwnerPositions, CloseAt,
         DetachAt, DropAt
<1> QED
  BY <1>1, <1>2, <1>3, <1>4, <1>5, <1>6 DEF TypeInv, TypeOK

-----------------------------------------------------------------------------
\* What two calls that are not incompatible tell of each other.
LEMMA SessionCallAlone ==
    ASSUME TypeInv, NEW s \in Sessions, NEW p,
           NEW call \in {"create", "createConsumer", "closeConsumer", "close"},
           SessionCall(s, call, p), Sound'
    PROVE  /\ op[Owner] # "close"
           /\ call \in {"create", "close"} => op[Owner] = "none"
<1>1. "incompatible" \notin Clash(op[Owner], call)
  BY DEF SessionCall, Sound
<1>2. op[Owner] \in {"none", "start", "stop", "close"}
  BY DEF TypeInv, OwnerPositions
<1> QED
  BY <1>1, <1>2 DEF Clash

LEMMA DeleteAlone ==
    ASSUME TypeInv, NEW s \in Sessions, DeleteSession(s), Sound'
    PROVE  op[Owner] = "none"
<1>1. "incompatible" \notin Clash(op[Owner], "delete")
  BY DEF DeleteSession, Sound
<1>2. op[Owner] \in {"none", "start", "stop", "close"}
  BY DEF TypeInv, OwnerPositions
<1> QED
  BY <1>1, <1>2 DEF Clash

LEMMA ConnectionCallAlone ==
    ASSUME TypeInv, NEW p, NEW call \in {"start", "stop", "close"},
           ConnectionCall(call, p), Sound'
    PROVE  \A s \in Sessions :
              \/ op[s] = "none"
              \/ call # "close" /\ op[s] \in {"createConsumer", "closeConsumer"}
<1> SUFFICES ASSUME NEW s \in Sessions, op[s] # "none"
             PROVE  call # "close" /\ op[s] \in {"createConsumer", "closeConsumer"}
  OBVIOUS
<1>1. Clash(call, op[s]) \subseteq clash'
  BY DEF ConnectionCall
<1>2. "incompatible" \notin Clash(call, op[s])
  BY <1>1 DEF Sound
<1>3. op[s] \in {"none", "create", "createConsumer", "closeConsumer", "close"}
  BY DEF TypeInv, SessionPositions
<1> QED
  BY <1>2, <1>3 DEF Clash

\* The session is created, and put in the set.
LEMMA CreatingIntact ==
    ASSUME TypeInv, TypeInv', Intact, Sound', NEW s \in Sessions,
           \/ Created(s) \/ CreateFails(s) \/ Added(s) \/ TestsStarted(s)
           \/ StartsSession(s)
    PROVE  Intact'
<1> USE Apart DEF Created, CreateFails, Added, TestsStarted, StartsSession,
        Return, StartExecutor, Goto, Undefined, Threads, connectionVars,
        sessionVars, lockVars, threadVars, historyVars
<1>1. ~undefined'
  BY DEF TypeInv, TypeOK, SessionsTypeOK, ThreadsTypeOK, SessionPositions,
         OwnerPositions,
     LocksTypeOK, Intact, Compatible, Lives, Reliable, Relies, Walks, CreateAt, CloseAt,
            DetachAt, DropAt, Sound
<1>2. Compatible'
  BY DEF TypeInv, TypeOK, SessionsTypeOK, ThreadsTypeOK, SessionPositions,
         OwnerPositions,
     Intact, Compatible, Lives, Walks, CreateAt, CloseAt, DetachAt, DropAt, Sound
<1>3. Lives'
  BY DEF TypeInv, TypeOK, SessionsTypeOK, ThreadsTypeOK, SessionPositions,
         OwnerPositions,
     Intact, Compatible, Lives, Reliable, Relies, CreateAt, CloseAt, DetachAt, DropAt,
            Sound
<1>4. Reliable'
  BY DEF TypeInv, TypeOK, SessionsTypeOK, ThreadsTypeOK, SessionPositions,
         OwnerPositions,
     Intact, Compatible, Lives, Reliable, Relies, Walks, CreateAt, CloseAt, DetachAt,
            DropAt, Sound
<1>5. Walks'
  BY DEF TypeInv, TypeOK, SessionsTypeOK, ThreadsTypeOK, SessionPositions,
         OwnerPositions,
     Intact, Compatible, Lives, Reliable, Relies, Walks, CreateAt, CloseAt, DetachAt,
            DropAt, Sound
<1> QED
  BY <1>1, <1>2, <1>3, <1>4, <1>5 DEF Intact

\* A consumer is created.
LEMMA ConsumerIntact ==
    ASSUME TypeInv, TypeInv', Intact, Sound', NEW s \in Sessions,
           \/ AddDispatcher(s) \/ Subscribed(s) \/ SubscribeFails(s)
    PROVE  Intact'
<1> USE Apart DEF AddDispatcher, Subscribed, SubscribeFails, Undefined, Goto,
        Return, Threads, connectionVars, sessionVars, lockVars, threadVars,
        historyVars
<1>1. ~undefined'
  BY DEF TypeInv, TypeOK, SessionsTypeOK, ThreadsTypeOK, SessionPositions,
         OwnerPositions,
     LocksTypeOK, Intact, Compatible, Lives, Reliable, Relies, Walks, CreateAt, CloseAt,
            DetachAt, DropAt, Sound
<1>2. Compatible'
  BY DEF TypeInv, TypeOK, SessionsTypeOK, ThreadsTypeOK, SessionPositions,
         OwnerPositions,
     Intact, Compatible, Lives, Walks, CreateAt, CloseAt, DetachAt, DropAt, Sound
<1>3. Lives'
  BY DEF TypeInv, TypeOK, SessionsTypeOK, ThreadsTypeOK, SessionPositions,
         OwnerPositions,
     Intact, Compatible, Lives, Reliable, Relies, CreateAt, CloseAt, DetachAt, DropAt,
            Sound
<1>4. Reliable'
  BY DEF TypeInv, TypeOK, SessionsTypeOK, ThreadsTypeOK, SessionPositions,
         OwnerPositions,
     Intact, Compatible, Lives, Reliable, Relies, Walks, CreateAt, CloseAt, DetachAt,
            DropAt, Sound
<1>5. Walks'
  BY DEF TypeInv, TypeOK, SessionsTypeOK, ThreadsTypeOK, SessionPositions,
         OwnerPositions,
     Intact, Compatible, Lives, Reliable, Relies, Walks, CreateAt, CloseAt, DetachAt,
            DropAt, Sound
<1> QED
  BY <1>1, <1>2, <1>3, <1>4, <1>5 DEF Intact

\* A session's call begins.
LEMMA CallsIntact ==
    ASSUME TypeInv, TypeInv', Intact, Sound', NEW s \in Sessions,
           \/ Create(s) \/ CreateConsumer(s) \/ CloseConsumer(s)
           \/ CloseSession(s)
    PROVE  Intact'
<1>0. /\ op[Owner] # "close"
      /\ Create(s) \/ CloseSession(s) => op[Owner] = "none"
  BY SessionCallAlone DEF Create, CreateConsumer, CloseConsumer, CloseSession
<1> USE Apart DEF Create, CreateConsumer, CloseConsumer, CloseSession,
        SessionCall, Goto, Threads, connectionVars, sessionVars, lockVars,
        threadVars, historyVars
<1>1. ~undefined'
  BY <1>0 DEF TypeInv, TypeOK, SessionsTypeOK, ThreadsTypeOK, SessionPositions,
         OwnerPositions,
     LocksTypeOK, Intact, Compatible, Lives, Reliable, Relies, Walks, CreateAt, CloseAt,
            DetachAt, DropAt, Sound
<1>2. Compatible'
  BY <1>0 DEF TypeInv, TypeOK, SessionsTypeOK, ThreadsTypeOK, SessionPositions,
         OwnerPositions,
     Intact, Compatible, Lives, Walks, CreateAt, CloseAt, DetachAt, DropAt, Sound
<1>3. Lives'
  BY <1>0 DEF TypeInv, TypeOK, SessionsTypeOK, ThreadsTypeOK, SessionPositions,
         OwnerPositions,
     Intact, Compatible, Lives, Reliable, Relies, CreateAt, CloseAt, DetachAt, DropAt,
            Sound
<1>4. Reliable'
  BY <1>0 DEF TypeInv, TypeOK, SessionsTypeOK, ThreadsTypeOK, SessionPositions,
         OwnerPositions,
     Intact, Compatible, Lives, Reliable, Relies, Walks, CreateAt, CloseAt, DetachAt,
            DropAt, Sound
<1>5. Walks'
  BY <1>0 DEF TypeInv, TypeOK, SessionsTypeOK, ThreadsTypeOK, SessionPositions,
         OwnerPositions,
     Intact, Compatible, Lives, Reliable, Relies, Walks, CreateAt, CloseAt, DetachAt,
            DropAt, Sound
<1> QED
  BY <1>1, <1>2, <1>3, <1>4, <1>5 DEF Intact

\* A session is deleted.
LEMMA DeleteIntact ==
    ASSUME TypeInv, TypeInv', Intact, Sound', NEW s \in Sessions,
           \/ DeleteSession(s)
    PROVE  Intact'
<1>0. op[Owner] = "none"
  BY DeleteAlone
<1> USE Apart DEF DeleteSession, Threads, connectionVars, sessionVars,
        lockVars, threadVars, historyVars
<1>1. ~undefined'
  BY <1>0 DEF TypeInv, TypeOK, SessionsTypeOK, ThreadsTypeOK, SessionPositions,
         OwnerPositions,
     LocksTypeOK, Intact, Compatible, Lives, Reliable, Relies, Walks, CreateAt, CloseAt,
            DetachAt, DropAt, Sound
<1>2. Compatible'
  BY <1>0 DEF TypeInv, TypeOK, SessionsTypeOK, ThreadsTypeOK, SessionPositions,
         OwnerPositions,
     Intact, Compatible, Lives, Walks, CreateAt, CloseAt, DetachAt, DropAt, Sound
<1>3. Lives'
  BY <1>0 DEF TypeInv, TypeOK, SessionsTypeOK, ThreadsTypeOK, SessionPositions,
         OwnerPositions,
     Intact, Compatible, Lives, Reliable, Relies, CreateAt, CloseAt, DetachAt, DropAt,
            Sound
<1>4. Reliable'
  BY <1>0 DEF TypeInv, TypeOK, SessionsTypeOK, ThreadsTypeOK, SessionPositions,
         OwnerPositions,
     Intact, Compatible, Lives, Reliable, Relies, Walks, CreateAt, CloseAt, DetachAt,
            DropAt, Sound
<1>5. Walks'
  BY <1>0 DEF TypeInv, TypeOK, SessionsTypeOK, ThreadsTypeOK, SessionPositions,
         OwnerPositions,
     Intact, Compatible, Lives, Reliable, Relies, Walks, CreateAt, CloseAt, DetachAt,
            DropAt, Sound
<1> QED
  BY <1>1, <1>2, <1>3, <1>4, <1>5 DEF Intact

\* The close of a resource, up to the session's being told.
LEMMA ResourceIntact ==
    ASSUME TypeInv, TypeInv', Intact, Sound', NEW t \in Threads,
           \/ CloseResource(t) \/ Disposed(t) \/ DisposeFails(t) \/ Ask(t)
    PROVE  Intact'
<1> USE Apart DEF CloseResource, Disposed, DisposeFails, Ask, AfterResource,
        Undefined, Goto, Of, Return, Threads, connectionVars, sessionVars,
        lockVars, threadVars, historyVars
<1>1. ~undefined'
  BY DEF TypeInv, TypeOK, SessionsTypeOK, ThreadsTypeOK, SessionPositions,
         OwnerPositions,
     LocksTypeOK, Intact, Compatible, Lives, Reliable, Relies, Walks, CreateAt, CloseAt,
            DetachAt, DropAt, Sound
<1>2. Compatible'
  BY DEF TypeInv, TypeOK, SessionsTypeOK, ThreadsTypeOK, SessionPositions,
         OwnerPositions,
     Intact, Compatible, Lives, Walks, CreateAt, CloseAt, DetachAt, DropAt, Sound
<1>3. Lives'
  BY DEF TypeInv, TypeOK, SessionsTypeOK, ThreadsTypeOK, SessionPositions,
         OwnerPositions,
     Intact, Compatible, Lives, Reliable, Relies, CreateAt, CloseAt, DetachAt, DropAt,
            Sound
<1>4. Reliable'
  BY DEF TypeInv, TypeOK, SessionsTypeOK, ThreadsTypeOK, SessionPositions,
         OwnerPositions,
     Intact, Compatible, Lives, Reliable, Relies, Walks, CreateAt, CloseAt, DetachAt,
            DropAt, Sound
<1>5. Walks'
  BY DEF TypeInv, TypeOK, SessionsTypeOK, ThreadsTypeOK, SessionPositions,
         OwnerPositions,
     Intact, Compatible, Lives, Reliable, Relies, Walks, CreateAt, CloseAt, DetachAt,
            DropAt, Sound
<1> QED
  BY <1>1, <1>2, <1>3, <1>4, <1>5 DEF Intact

\* The session detaches a consumer.
LEMMA DetachIntact ==
    ASSUME TypeInv, TypeInv', Intact, Sound', NEW t \in Threads,
           \/ StopForCall(t) \/ RemoveDispatcher(t) \/ Purge(t)
           \/ Forget(t)
    PROVE  Intact'
<1> USE Apart DEF StopForCall, RemoveDispatcher, Purge, Forget, Return, Goto,
        Of, StartExecutor, Undefined, StopExecutor, Threads, connectionVars,
        sessionVars, lockVars, threadVars, historyVars
<1>1. ~undefined'
  BY DEF TypeInv, TypeOK, SessionsTypeOK, ThreadsTypeOK, SessionPositions,
         OwnerPositions,
     LocksTypeOK, Intact, Compatible, Lives, Reliable, Relies, Walks, CreateAt, CloseAt,
            DetachAt, DropAt, Sound
<1>2. Compatible'
  BY DEF TypeInv, TypeOK, SessionsTypeOK, ThreadsTypeOK, SessionPositions,
         OwnerPositions,
     Intact, Compatible, Lives, Walks, CreateAt, CloseAt, DetachAt, DropAt, Sound
<1>3. Lives'
  BY DEF TypeInv, TypeOK, SessionsTypeOK, ThreadsTypeOK, SessionPositions,
         OwnerPositions,
     Intact, Compatible, Lives, Reliable, Relies, CreateAt, CloseAt, DetachAt, DropAt,
            Sound
<1>4. Reliable'
  BY DEF TypeInv, TypeOK, SessionsTypeOK, ThreadsTypeOK, SessionPositions,
         OwnerPositions,
     Intact, Compatible, Lives, Reliable, Relies, Walks, CreateAt, CloseAt, DetachAt,
            DropAt, Sound
<1>5. Walks'
  BY DEF TypeInv, TypeOK, SessionsTypeOK, ThreadsTypeOK, SessionPositions,
         OwnerPositions,
     Intact, Compatible, Lives, Reliable, Relies, Walks, CreateAt, CloseAt, DetachAt,
            DropAt, Sound
<1> QED
  BY <1>1, <1>2, <1>3, <1>4, <1>5 DEF Intact

\* A session's close, while it is in the set.
LEMMA CloseIntact ==
    ASSUME TypeInv, TypeInv', Intact, Sound', NEW t \in Threads,
           \/ CloseBegins(t) \/ LockResources(t) \/ UnlockResources(t)
           \/ RemovesSession(t)
    PROVE  Intact'
<1> USE Apart DEF CloseBegins, LockResources, UnlockResources, RemovesSession,
        Goto, Of, Return, StopExecutor, Undefined, Threads, connectionVars,
        sessionVars, lockVars, threadVars, historyVars
<1>1. ~undefined'
  BY DEF TypeInv, TypeOK, SessionsTypeOK, ThreadsTypeOK, SessionPositions,
         OwnerPositions,
     LocksTypeOK, Intact, Compatible, Lives, Reliable, Relies, Walks, CreateAt, CloseAt,
            DetachAt, DropAt, Sound
<1>2. Compatible'
  BY DEF TypeInv, TypeOK, SessionsTypeOK, ThreadsTypeOK, SessionPositions,
         OwnerPositions,
     Intact, Compatible, Lives, Walks, CreateAt, CloseAt, DetachAt, DropAt, Sound
<1>3. Lives'
  BY DEF TypeInv, TypeOK, SessionsTypeOK, ThreadsTypeOK, SessionPositions,
         OwnerPositions,
     Intact, Compatible, Lives, Reliable, Relies, CreateAt, CloseAt, DetachAt, DropAt,
            Sound
<1>4. Reliable'
  BY DEF TypeInv, TypeOK, SessionsTypeOK, ThreadsTypeOK, SessionPositions,
         OwnerPositions,
     Intact, Compatible, Lives, Reliable, Relies, Walks, CreateAt, CloseAt, DetachAt,
            DropAt, Sound
<1>5. Walks'
  BY DEF TypeInv, TypeOK, SessionsTypeOK, ThreadsTypeOK, SessionPositions,
         OwnerPositions,
     Intact, Compatible, Lives, Reliable, Relies, Walks, CreateAt, CloseAt, DetachAt,
            DropAt, Sound
<1> QED
  BY <1>1, <1>2, <1>3, <1>4, <1>5 DEF Intact

\* A session's close, from its removal on.
LEMMA DropIntact ==
    ASSUME TypeInv, TypeInv', Intact, Sound', NEW t \in Threads,
           \/ RemovedSession(t) \/ MarkClosed(t) \/ ExecutorDeleted(t)
    PROVE  Intact'
<1> USE Apart DEF RemovedSession, MarkClosed, ExecutorDeleted, Return, Of,
        Goto, Undefined, Threads, connectionVars, sessionVars, lockVars,
        threadVars, historyVars
<1>1. ~undefined'
  BY DEF TypeInv, TypeOK, SessionsTypeOK, ThreadsTypeOK, SessionPositions,
         OwnerPositions,
     LocksTypeOK, Intact, Compatible, Lives, Reliable, Relies, Walks, CreateAt, CloseAt,
            DetachAt, DropAt, Sound
<1>2. Compatible'
  BY DEF TypeInv, TypeOK, SessionsTypeOK, ThreadsTypeOK, SessionPositions,
         OwnerPositions,
     Intact, Compatible, Lives, Walks, CreateAt, CloseAt, DetachAt, DropAt, Sound
<1>3. Lives'
  BY DEF TypeInv, TypeOK, SessionsTypeOK, ThreadsTypeOK, SessionPositions,
         OwnerPositions,
     Intact, Compatible, Lives, Reliable, Relies, CreateAt, CloseAt, DetachAt, DropAt,
            Sound
<1>4. Reliable'
  BY DEF TypeInv, TypeOK, SessionsTypeOK, ThreadsTypeOK, SessionPositions,
         OwnerPositions,
     Intact, Compatible, Lives, Reliable, Relies, Walks, CreateAt, CloseAt, DetachAt,
            DropAt, Sound
<1>5. Walks'
  BY DEF TypeInv, TypeOK, SessionsTypeOK, ThreadsTypeOK, SessionPositions,
         OwnerPositions,
     Intact, Compatible, Lives, Reliable, Relies, Walks, CreateAt, CloseAt, DetachAt,
            DropAt, Sound
<1> QED
  BY <1>1, <1>2, <1>3, <1>4, <1>5 DEF Intact

\* A call of the connection begins.
LEMMA ConnectionCallsIntact ==
    ASSUME TypeInv, TypeInv', Intact, Sound',
           \/ Start \/ Stop \/ Close
    PROVE  Intact'
<1>0. \A s \in Sessions :
          \/ op[s] = "none"
          \/ ~Close /\ op[s] \in {"createConsumer", "closeConsumer"}
  BY ConnectionCallAlone DEF Start, Stop, Close
<1> USE Apart DEF Start, Stop, Close, ConnectionCall, Goto, Undefined,
        Threads, connectionVars, sessionVars, lockVars, threadVars,
        historyVars
<1>1. ~undefined'
  BY <1>0, AfterIsActive DEF TypeInv, TypeOK, SessionsTypeOK, ThreadsTypeOK,
         SessionPositions, OwnerPositions,
     LocksTypeOK, Intact, Compatible, Lives, Reliable, Relies, Walks, CreateAt, CloseAt,
            DetachAt, DropAt, Sound
<1>2. Compatible'
  BY <1>0, AfterIsActive DEF TypeInv, TypeOK, SessionsTypeOK, ThreadsTypeOK,
         SessionPositions, OwnerPositions,
     Intact, Compatible, Lives, Walks, CreateAt, CloseAt, DetachAt, DropAt, Sound
<1>3. Lives'
  BY <1>0, AfterIsActive DEF TypeInv, TypeOK, SessionsTypeOK, ThreadsTypeOK,
         SessionPositions, OwnerPositions,
     Intact, Compatible, Lives, Reliable, Relies, CreateAt, CloseAt, DetachAt, DropAt,
            Sound
<1>4. Reliable'
  BY <1>0, AfterIsActive DEF TypeInv, TypeOK, SessionsTypeOK, ThreadsTypeOK,
         SessionPositions, OwnerPositions,
     Intact, Compatible, Lives, Reliable, Relies, Walks, CreateAt, CloseAt, DetachAt,
            DropAt, Sound
<1>5. Walks'
  BY <1>0, AfterIsActive DEF TypeInv, TypeOK, SessionsTypeOK, ThreadsTypeOK,
         SessionPositions, OwnerPositions,
     Intact, Compatible, Lives, Reliable, Relies, Walks, CreateAt, CloseAt, DetachAt,
            DropAt, Sound
<1> QED
  BY <1>1, <1>2, <1>3, <1>4, <1>5 DEF Intact

\* The connection's start and stop walk over the sessions.
LEMMA WalkIntact ==
    ASSUME TypeInv, TypeInv', Intact, Sound',
           \/ CopySessions \/ (\E s \in Sessions : StartNext(s))
           \/ StopNext \/ StartOrStopReturns
    PROVE  Intact'
<1> USE Apart DEF CopySessions, StartNext, StopNext, StartOrStopReturns, Goto,
        StopExecutor, Undefined, StartExecutor, Threads, connectionVars,
        sessionVars, lockVars, threadVars, historyVars
<1>1. ~undefined'
  BY AfterIsActive DEF TypeInv, TypeOK, SessionsTypeOK, ThreadsTypeOK, SessionPositions,
         OwnerPositions,
     LocksTypeOK, Intact, Compatible, Lives, Reliable, Relies, Walks, CreateAt, CloseAt,
            DetachAt, DropAt, Sound
<1>2. Compatible'
  BY AfterIsActive DEF TypeInv, TypeOK, SessionsTypeOK, ThreadsTypeOK, SessionPositions,
         OwnerPositions,
     Intact, Compatible, Lives, Walks, CreateAt, CloseAt, DetachAt, DropAt, Sound
<1>3. Lives'
  BY AfterIsActive DEF TypeInv, TypeOK, SessionsTypeOK, ThreadsTypeOK, SessionPositions,
         OwnerPositions,
     Intact, Compatible, Lives, Reliable, Relies, CreateAt, CloseAt, DetachAt, DropAt,
            Sound
<1>4. Reliable'
  BY AfterIsActive DEF TypeInv, TypeOK, SessionsTypeOK, ThreadsTypeOK, SessionPositions,
         OwnerPositions,
     Intact, Compatible, Lives, Reliable, Relies, Walks, CreateAt, CloseAt, DetachAt,
            DropAt, Sound
<1>5. Walks'
  BY AfterIsActive DEF TypeInv, TypeOK, SessionsTypeOK, ThreadsTypeOK, SessionPositions,
         OwnerPositions,
     Intact, Compatible, Lives, Reliable, Relies, Walks, CreateAt, CloseAt, DetachAt,
            DropAt, Sound
<1> QED
  BY <1>1, <1>2, <1>3, <1>4, <1>5 DEF Intact

\* The connection's close walks over the sessions, and ends.
LEMMA ConnectionCloseIntact ==
    ASSUME TypeInv, TypeInv', Intact, Sound',
           \/ (\E s \in Sessions : CloseNext(s)) \/ CloseConnection
           \/ Disconnect
    PROVE  Intact'
<1> USE Apart DEF CloseNext, CloseConnection, Disconnect, Goto, Threads,
        connectionVars, sessionVars, lockVars, threadVars, historyVars
<1>1. ~undefined'
  BY DEF TypeInv, TypeOK, SessionsTypeOK, ThreadsTypeOK, SessionPositions,
         OwnerPositions,
     LocksTypeOK, Intact, Compatible, Lives, Reliable, Relies, Walks, CreateAt, CloseAt,
            DetachAt, DropAt, Sound
<1>2. Compatible'
  BY DEF TypeInv, TypeOK, SessionsTypeOK, ThreadsTypeOK, SessionPositions,
         OwnerPositions,
     Intact, Compatible, Lives, Walks, CreateAt, CloseAt, DetachAt, DropAt, Sound
<1>3. Lives'
  BY DEF TypeInv, TypeOK, SessionsTypeOK, ThreadsTypeOK, SessionPositions,
         OwnerPositions,
     Intact, Compatible, Lives, Reliable, Relies, CreateAt, CloseAt, DetachAt, DropAt,
            Sound
<1>4. Reliable'
  BY DEF TypeInv, TypeOK, SessionsTypeOK, ThreadsTypeOK, SessionPositions,
         OwnerPositions,
     Intact, Compatible, Lives, Reliable, Relies, Walks, CreateAt, CloseAt, DetachAt,
            DropAt, Sound
<1>5. Walks'
  BY DEF TypeInv, TypeOK, SessionsTypeOK, ThreadsTypeOK, SessionPositions,
         OwnerPositions,
     Intact, Compatible, Lives, Reliable, Relies, Walks, CreateAt, CloseAt, DetachAt,
            DropAt, Sound
<1> QED
  BY <1>1, <1>2, <1>3, <1>4, <1>5 DEF Intact

\* The reader, and the loss of the connection.
LEMMA ReaderIntact ==
    ASSUME TypeInv, TypeInv', Intact, Sound',
           \/ (\E s \in Sessions : OnConsumerMessage(s)) \/ Dispatched
           \/ ConnectionBreaks
    PROVE  Intact'
<1> USE Apart DEF OnConsumerMessage, Dispatched, ConnectionBreaks, Undefined,
        Threads, connectionVars, sessionVars, lockVars, threadVars,
        historyVars
<1>1. ~undefined'
  BY DEF TypeInv, TypeOK, SessionsTypeOK, ThreadsTypeOK, SessionPositions,
         OwnerPositions,
     LocksTypeOK, Intact, Compatible, Lives, Reliable, Relies, Walks, CreateAt, CloseAt,
            DetachAt, DropAt, Sound
<1>2. Compatible'
  BY DEF TypeInv, TypeOK, SessionsTypeOK, ThreadsTypeOK, SessionPositions,
         OwnerPositions,
     Intact, Compatible, Lives, Walks, CreateAt, CloseAt, DetachAt, DropAt, Sound
<1>3. Lives'
  BY DEF TypeInv, TypeOK, SessionsTypeOK, ThreadsTypeOK, SessionPositions,
         OwnerPositions,
     Intact, Compatible, Lives, Reliable, Relies, CreateAt, CloseAt, DetachAt, DropAt,
            Sound
<1>4. Reliable'
  BY DEF TypeInv, TypeOK, SessionsTypeOK, ThreadsTypeOK, SessionPositions,
         OwnerPositions,
     Intact, Compatible, Lives, Reliable, Relies, Walks, CreateAt, CloseAt, DetachAt,
            DropAt, Sound
<1>5. Walks'
  BY DEF TypeInv, TypeOK, SessionsTypeOK, ThreadsTypeOK, SessionPositions,
         OwnerPositions,
     Intact, Compatible, Lives, Reliable, Relies, Walks, CreateAt, CloseAt, DetachAt,
            DropAt, Sound
<1> QED
  BY <1>1, <1>2, <1>3, <1>4, <1>5 DEF Intact

-----------------------------------------------------------------------------
\* What two calls tell of each other that have neither undone a stop nor missed
\* a close.
LEMMA SessionCallTells ==
    ASSUME TypeInv, NEW s \in Sessions, NEW p,
           NEW call \in {"create", "createConsumer", "closeConsumer", "close"},
           SessionCall(s, call, p)
    PROVE  /\ "undone" \notin clash' => call = "close" \/ op[Owner] # "stop"
           /\ "missed" \notin clash' => call = "close" \/ op[Owner] # "close"
<1>1. Clash(op[Owner], call) \subseteq clash'
  BY DEF SessionCall
<1> QED
  BY <1>1 DEF Clash

LEMMA ConnectionCallTells ==
    ASSUME TypeInv, NEW p, NEW call \in {"start", "stop", "close"},
           ConnectionCall(call, p), NEW s \in Sessions
    PROVE  /\ "undone" \notin clash' /\ call = "stop" => op[s] \in {"none", "close"}
           /\ "missed" \notin clash' /\ call = "close" => op[s] \in {"none", "close"}
<1>1. op[s] # "none" => Clash(call, op[s]) \subseteq clash'
  BY DEF ConnectionCall
<1>2. op[s] \in {"none", "create", "createConsumer", "closeConsumer", "close"}
  BY DEF TypeInv, SessionPositions
<1> QED
  BY <1>1, <1>2 DEF Clash

(* Start and stop reach every session *)

\* A session's call begins.
LEMMA CallsFollows ==
    ASSUME TypeInv, TypeInv', Following, Followed, Followed', NEW s \in Sessions,
           \/ Create(s) \/ CreateConsumer(s) \/ CloseConsumer(s) \/ CloseSession(s)
    PROVE  Following'
<1>0. CloseSession(s) \/ op[Owner] # "stop"
  BY SessionCallTells DEF Create, CreateConsumer, CloseConsumer, CloseSession,
     Followed
<1> USE Apart DEF Create, CreateConsumer, CloseConsumer, CloseSession, SessionCall,
        Goto, Threads, connectionVars, sessionVars, lockVars, threadVars,
        historyVars
<1> QED
  BY <1>0 DEF TypeInv, TypeOK, SessionsTypeOK, ThreadsTypeOK, SessionPositions,
      OwnerPositions, Following, Follows, Runs, Followed, CreateAt, CloseAt,
      DetachAt, DropAt

\* The session is created, and put in the set.
LEMMA CreatingFollows ==
    ASSUME TypeInv, TypeInv', Following, Followed, Followed', NEW s \in Sessions,
           \/ Created(s) \/ CreateFails(s) \/ Added(s) \/ TestsStarted(s)
           \/ StartsSession(s)
    PROVE  Following'
<1> USE Apart DEF Created, CreateFails, Added, TestsStarted, StartsSession, Return,
        StartExecutor, Goto, Undefined, Threads, connectionVars, sessionVars,
        lockVars, threadVars, historyVars
<1>1. CASE Created(s)
  BY <1>1 DEF TypeInv, TypeOK, SessionsTypeOK, ThreadsTypeOK, SessionPositions,
      OwnerPositions, Following, Follows, Runs, Followed, CreateAt, CloseAt,
      DetachAt, DropAt
<1>2. CASE CreateFails(s)
  BY <1>2 DEF TypeInv, TypeOK, SessionsTypeOK, ThreadsTypeOK, SessionPositions,
      OwnerPositions, Following, Follows, Runs, Followed, CreateAt, CloseAt,
      DetachAt, DropAt
<1>3. CASE Added(s)
  BY <1>3 DEF TypeInv, TypeOK, SessionsTypeOK, ThreadsTypeOK, SessionPositions,
      OwnerPositions, Following, Follows, Runs, Followed, CreateAt, CloseAt,
      DetachAt, DropAt
<1>4. CASE TestsStarted(s)
  BY <1>4 DEF TypeInv, TypeOK, SessionsTypeOK, ThreadsTypeOK, SessionPositions,
      OwnerPositions, Following, Follows, Runs, Followed, CreateAt, CloseAt,
      DetachAt, DropAt
<1>5. CASE StartsSession(s)
  BY <1>5 DEF TypeInv, TypeOK, SessionsTypeOK, ThreadsTypeOK, SessionPositions,
      OwnerPositions, Following, Follows, Runs, Followed, CreateAt, CloseAt,
      DetachAt, DropAt
<1> QED
  BY <1>1, <1>2, <1>3, <1>4, <1>5

\* A consumer is created.
LEMMA ConsumerFollows ==
    ASSUME TypeInv, TypeInv', Following, Followed, Followed', NEW s \in Sessions,
           \/ AddDispatcher(s) \/ Subscribed(s) \/ SubscribeFails(s)
    PROVE  Following'
<1> USE Apart DEF AddDispatcher, Subscribed, SubscribeFails, Return, Goto,
        Undefined, Threads, connectionVars, sessionVars, lockVars, threadVars,
        historyVars
<1> QED
  BY DEF TypeInv, TypeOK, SessionsTypeOK, ThreadsTypeOK, SessionPositions,
      OwnerPositions, Following, Follows, Runs, Followed, CreateAt, CloseAt,
      DetachAt, DropAt

\* A session is deleted.
LEMMA DeleteFollows ==
    ASSUME TypeInv, TypeInv', Following, Followed, Followed', NEW s \in Sessions,
           DeleteSession(s)
    PROVE  Following'
<1> USE Apart DEF DeleteSession, Threads, connectionVars, sessionVars, lockVars,
        threadVars, historyVars
<1> QED
  BY DEF TypeInv, TypeOK, SessionsTypeOK, ThreadsTypeOK, SessionPositions,
      OwnerPositions, Following, Follows, Runs, Followed, CreateAt, CloseAt,
      DetachAt, DropAt

\* The close of a resource, up to the session's being told.
LEMMA ResourceFollows ==
    ASSUME TypeInv, TypeInv', Following, Followed, Followed', NEW t \in Threads,
           \/ CloseResource(t) \/ Disposed(t) \/ DisposeFails(t) \/ Ask(t)
    PROVE  Following'
<1> USE Apart DEF CloseResource, Disposed, DisposeFails, Ask, AfterResource, Return,
        Goto, Of, Undefined, Threads, connectionVars, sessionVars, lockVars,
        threadVars, historyVars
<1>1. CASE CloseResource(t)
  BY <1>1 DEF TypeInv, TypeOK, SessionsTypeOK, ThreadsTypeOK, SessionPositions,
      OwnerPositions, Following, Follows, Runs, Followed, CreateAt, CloseAt,
      DetachAt, DropAt
<1>2. CASE Disposed(t)
  BY <1>2 DEF TypeInv, TypeOK, SessionsTypeOK, ThreadsTypeOK, SessionPositions,
      OwnerPositions, Following, Follows, Runs, Followed, CreateAt, CloseAt,
      DetachAt, DropAt
<1>3. CASE DisposeFails(t)
  BY <1>3 DEF TypeInv, TypeOK, SessionsTypeOK, ThreadsTypeOK, SessionPositions,
      OwnerPositions, Following, Follows, Runs, Followed, CreateAt, CloseAt,
      DetachAt, DropAt
<1>4. CASE Ask(t)
  <2>1. /\ wasStarted' \in [Threads -> BOOLEAN]
        /\ \A u \in Threads \ {t} : wasStarted'[u] = wasStarted[u]
    BY <1>4 DEF TypeInv, TypeOK, ThreadsTypeOK
  <2>2. life[Of(t)] = "open" => wasStarted'[t] = (executor[Of(t)] = "started")
    BY <1>4 DEF TypeInv, TypeOK, ThreadsTypeOK
  <2> QED
    BY <1>4, <2>1, <2>2
    DEF TypeInv, TypeOK, SessionsTypeOK, ThreadsTypeOK, SessionPositions,
        OwnerPositions, Following, Follows, Runs, Followed, CreateAt, CloseAt,
        DetachAt, DropAt
<1> QED
  BY <1>1, <1>2, <1>3, <1>4

\* The session detaches a consumer.
LEMMA DetachFollows ==
    ASSUME TypeInv, TypeInv', Following, Followed, Followed', NEW t \in Threads,
           \/ StopForCall(t) \/ RemoveDispatcher(t) \/ Purge(t) \/ Forget(t)
    PROVE  Following'
<1> USE Apart DEF StopForCall, RemoveDispatcher, Purge, Forget, Return, Goto, Of,
        StartExecutor, StopExecutor, Undefined, Threads, connectionVars,
        sessionVars, lockVars, threadVars, historyVars
<1>1. CASE StopForCall(t)
  BY <1>1 DEF TypeInv, TypeOK, SessionsTypeOK, ThreadsTypeOK, SessionPositions,
      OwnerPositions, Following, Follows, Runs, Followed, CreateAt, CloseAt,
      DetachAt, DropAt
<1>2. CASE RemoveDispatcher(t)
  BY <1>2 DEF TypeInv, TypeOK, SessionsTypeOK, ThreadsTypeOK, SessionPositions,
      OwnerPositions, Following, Follows, Runs, Followed, CreateAt, CloseAt,
      DetachAt, DropAt
<1>3. CASE Purge(t)
  BY <1>3 DEF TypeInv, TypeOK, SessionsTypeOK, ThreadsTypeOK, SessionPositions,
      OwnerPositions, Following, Follows, Runs, Followed, CreateAt, CloseAt,
      DetachAt, DropAt
<1>4. CASE Forget(t)
  BY <1>4 DEF TypeInv, TypeOK, SessionsTypeOK, ThreadsTypeOK, SessionPositions,
      OwnerPositions, Following, Follows, Runs, Followed, CreateAt, CloseAt,
      DetachAt, DropAt
<1> QED
  BY <1>1, <1>2, <1>3, <1>4

\* A session's close, while it is in the set.
LEMMA CloseFollows ==
    ASSUME TypeInv, TypeInv', Following, Followed, Followed', NEW t \in Threads,
           \/ CloseBegins(t) \/ LockResources(t) \/ UnlockResources(t)
           \/ RemovesSession(t)
    PROVE  Following'
<1> USE Apart DEF CloseBegins, LockResources, UnlockResources, RemovesSession,
        Return, Goto, Of, StopExecutor, Undefined, Threads, connectionVars,
        sessionVars, lockVars, threadVars, historyVars
<1>1. CASE CloseBegins(t)
  BY <1>1 DEF TypeInv, TypeOK, SessionsTypeOK, ThreadsTypeOK, SessionPositions,
      OwnerPositions, Following, Follows, Runs, Followed, CreateAt, CloseAt,
      DetachAt, DropAt
<1>2. CASE LockResources(t)
  BY <1>2 DEF TypeInv, TypeOK, SessionsTypeOK, ThreadsTypeOK, SessionPositions,
      OwnerPositions, Following, Follows, Runs, Followed, CreateAt, CloseAt,
      DetachAt, DropAt
<1>3. CASE UnlockResources(t)
  BY <1>3 DEF TypeInv, TypeOK, SessionsTypeOK, ThreadsTypeOK, SessionPositions,
      OwnerPositions, Following, Follows, Runs, Followed, CreateAt, CloseAt,
      DetachAt, DropAt
<1>4. CASE RemovesSession(t)
  BY <1>4 DEF TypeInv, TypeOK, SessionsTypeOK, ThreadsTypeOK, SessionPositions,
      OwnerPositions, Following, Follows, Runs, Followed, CreateAt, CloseAt,
      DetachAt, DropAt
<1> QED
  BY <1>1, <1>2, <1>3, <1>4

\* A session's close, from its removal on.
LEMMA DropFollows ==
    ASSUME TypeInv, TypeInv', Following, Followed, Followed', NEW t \in Threads,
           \/ RemovedSession(t) \/ MarkClosed(t) \/ ExecutorDeleted(t)
    PROVE  Following'
<1> USE Apart DEF RemovedSession, MarkClosed, ExecutorDeleted, Return, Goto, Of,
        Undefined, Threads, connectionVars, sessionVars, lockVars, threadVars,
        historyVars
<1> QED
  BY DEF TypeInv, TypeOK, SessionsTypeOK, ThreadsTypeOK, SessionPositions,
      OwnerPositions, Following, Follows, Runs, Followed, CreateAt, CloseAt,
      DetachAt, DropAt

\* A call of the connection begins.
LEMMA ConnectionCallsFollows ==
    ASSUME TypeInv, TypeInv', Following, Followed, Followed',
           \/ Start \/ Stop \/ Close
    PROVE  Following'
<1>0. Stop => \A s \in Sessions : op[s] \in {"none", "close"}
  BY ConnectionCallTells DEF Stop, Followed
<1>a. ASSUME NEW r \in active
      PROVE  After(0) \in Sessions /\ After(0) <= r
  <2>1. active \subseteq Sessions
    BY DEF TypeInv, TypeOK, SessionsTypeOK
  <2>2. r > 0
    BY <2>1, SessionsAssumption
  <2> QED
    BY <2>1, <2>2, AfterIsNext
<1> USE Apart DEF Start, Stop, Close, ConnectionCall, Goto, Undefined, Threads,
        connectionVars, sessionVars, lockVars, threadVars, historyVars
<1> QED
  BY <1>0, <1>a DEF TypeInv, TypeOK, SessionsTypeOK, ThreadsTypeOK,
      SessionPositions, OwnerPositions, Following, Follows, Runs, Followed,
      CreateAt, CloseAt, DetachAt, DropAt

\* The connection's start and stop walk over the sessions.
LEMMA WalkFollows ==
    ASSUME TypeInv, TypeInv', Following, Followed, Followed',
           \/ CopySessions \/ (\E s \in Sessions : StartNext(s)) \/ StopNext
           \/ StartOrStopReturns
    PROVE  Following'
<1>0. \A r \in active : r > cursor => After(cursor) \in Sessions /\ After(cursor) <= r
  BY AfterIsNext, SessionsAssumption DEF TypeInv, TypeOK, SessionsTypeOK
<1> USE Apart DEF CopySessions, StartNext, StopNext, StartOrStopReturns, Goto,
        StartExecutor, StopExecutor, Undefined, Threads, connectionVars,
        sessionVars, lockVars, threadVars, historyVars
<1>1. CASE CopySessions
  BY <1>1, <1>0, SessionsAssumption DEF TypeInv, TypeOK, SessionsTypeOK,
      ThreadsTypeOK, SessionPositions, OwnerPositions, Following, Follows, Runs,
      Followed, CreateAt, CloseAt, DetachAt, DropAt
<1>2. CASE \E s \in Sessions : StartNext(s)
  <2>1. PICK s \in Sessions : StartNext(s)
    BY <1>2
  <2> QED
    BY <2>1, SessionsAssumption
    DEF TypeInv, TypeOK, SessionsTypeOK, ThreadsTypeOK, SessionPositions,
        OwnerPositions, Following, Follows, Runs, Followed, CreateAt, CloseAt,
        DetachAt, DropAt
<1>3. CASE StopNext
  BY <1>3, <1>0, SessionsAssumption DEF TypeInv, TypeOK, SessionsTypeOK,
      ThreadsTypeOK, SessionPositions, OwnerPositions, Following, Follows, Runs,
      Followed, CreateAt, CloseAt, DetachAt, DropAt
<1>4. CASE StartOrStopReturns
  BY <1>4, <1>0, SessionsAssumption DEF TypeInv, TypeOK, SessionsTypeOK,
      ThreadsTypeOK, SessionPositions, OwnerPositions, Following, Follows, Runs,
      Followed, CreateAt, CloseAt, DetachAt, DropAt
<1> QED
  BY <1>1, <1>2, <1>3, <1>4

\* The connection's close walks over the sessions, and ends.
LEMMA ConnectionCloseFollows ==
    ASSUME TypeInv, TypeInv', Following, Followed, Followed',
           \/ (\E s \in Sessions : CloseNext(s)) \/ CloseConnection \/ Disconnect
    PROVE  Following'
<1> USE Apart DEF CloseNext, CloseConnection, Disconnect, Goto, Threads,
        connectionVars, sessionVars, lockVars, threadVars, historyVars
<1> QED
  BY DEF TypeInv, TypeOK, SessionsTypeOK, ThreadsTypeOK, SessionPositions,
      OwnerPositions, Following, Follows, Runs, Followed, CreateAt, CloseAt,
      DetachAt, DropAt

\* The reader, and the loss of the connection.
LEMMA ReaderFollows ==
    ASSUME TypeInv, TypeInv', Following, Followed, Followed',
           \/ (\E s \in Sessions : OnConsumerMessage(s)) \/ Dispatched
           \/ ConnectionBreaks
    PROVE  Following'
<1> USE Apart DEF OnConsumerMessage, Dispatched, ConnectionBreaks, Undefined,
        Threads, connectionVars, sessionVars, lockVars, threadVars, historyVars
<1> QED
  BY DEF TypeInv, TypeOK, SessionsTypeOK, ThreadsTypeOK, SessionPositions,
      OwnerPositions, Following, Follows, Runs, Followed, CreateAt, CloseAt,
      DetachAt, DropAt

-----------------------------------------------------------------------------
(* The close of the connection reaches every session *)

\* A session's call begins.
LEMMA CallsReaches ==
    ASSUME TypeInv, TypeInv', Reaching, Told, Told', NEW s \in Sessions,
           \/ Create(s) \/ CreateConsumer(s) \/ CloseConsumer(s) \/ CloseSession(s)
    PROVE  Reaching'
<1>0. CloseSession(s) \/ op[Owner] # "close"
  BY SessionCallTells DEF Create, CreateConsumer, CloseConsumer, CloseSession,
     Told
<1> USE Apart DEF Create, CreateConsumer, CloseConsumer, CloseSession, SessionCall,
        Goto, Threads, connectionVars, sessionVars, lockVars, threadVars,
        historyVars
<1> QED
  BY <1>0 DEF TypeInv, TypeOK, SessionsTypeOK, ThreadsTypeOK, SessionPositions,
      OwnerPositions, Reaching, Reaches, Works, Told, CreateAt, CloseAt, DetachAt,
      DropAt

\* The session is created, and put in the set.
LEMMA CreatingReaches ==
    ASSUME TypeInv, TypeInv', Reaching, Told, Told', NEW s \in Sessions,
           \/ Created(s) \/ CreateFails(s) \/ Added(s) \/ TestsStarted(s)
           \/ StartsSession(s)
    PROVE  Reaching'
<1> USE Apart DEF Created, CreateFails, Added, TestsStarted, StartsSession, Return,
        StartExecutor, Goto, Undefined, Threads, connectionVars, sessionVars,
        lockVars, threadVars, historyVars
<1> QED
  BY DEF TypeInv, TypeOK, SessionsTypeOK, ThreadsTypeOK, SessionPositions,
      OwnerPositions, Reaching, Reaches, Works, Told, CreateAt, CloseAt, DetachAt,
      DropAt

\* A consumer is created.
LEMMA ConsumerReaches ==
    ASSUME TypeInv, TypeInv', Reaching, Told, Told', NEW s \in Sessions,
           \/ AddDispatcher(s) \/ Subscribed(s) \/ SubscribeFails(s)
    PROVE  Reaching'
<1> USE Apart DEF AddDispatcher, Subscribed, SubscribeFails, Return, Goto,
        Undefined, Threads, connectionVars, sessionVars, lockVars, threadVars,
        historyVars
<1> QED
  BY DEF TypeInv, TypeOK, SessionsTypeOK, ThreadsTypeOK, SessionPositions,
      OwnerPositions, Reaching, Reaches, Works, Told, CreateAt, CloseAt, DetachAt,
      DropAt

\* A session is deleted.
LEMMA DeleteReaches ==
    ASSUME TypeInv, TypeInv', Reaching, Told, Told', NEW s \in Sessions,
           DeleteSession(s)
    PROVE  Reaching'
<1> USE Apart DEF DeleteSession, Threads, connectionVars, sessionVars, lockVars,
        threadVars, historyVars
<1> QED
  BY DEF TypeInv, TypeOK, SessionsTypeOK, ThreadsTypeOK, SessionPositions,
      OwnerPositions, Reaching, Reaches, Works, Told, CreateAt, CloseAt, DetachAt,
      DropAt

\* The close of a resource, up to the session's being told.
LEMMA ResourceReaches ==
    ASSUME TypeInv, TypeInv', Reaching, Told, Told', NEW t \in Threads,
           \/ CloseResource(t) \/ Disposed(t) \/ DisposeFails(t) \/ Ask(t)
    PROVE  Reaching'
<1> USE Apart DEF CloseResource, Disposed, DisposeFails, Ask, AfterResource, Return,
        Goto, Of, Undefined, Threads, connectionVars, sessionVars, lockVars,
        threadVars, historyVars
<1> QED
  BY DEF TypeInv, TypeOK, SessionsTypeOK, ThreadsTypeOK, SessionPositions,
      OwnerPositions, Reaching, Reaches, Works, Told, CreateAt, CloseAt, DetachAt,
      DropAt

\* The session detaches a consumer.
LEMMA DetachReaches ==
    ASSUME TypeInv, TypeInv', Reaching, Told, Told', NEW t \in Threads,
           \/ StopForCall(t) \/ RemoveDispatcher(t) \/ Purge(t) \/ Forget(t)
    PROVE  Reaching'
<1> USE Apart DEF StopForCall, RemoveDispatcher, Purge, Forget, Return, Goto, Of,
        StartExecutor, StopExecutor, Undefined, Threads, connectionVars,
        sessionVars, lockVars, threadVars, historyVars
<1> QED
  BY DEF TypeInv, TypeOK, SessionsTypeOK, ThreadsTypeOK, SessionPositions,
      OwnerPositions, Reaching, Reaches, Works, Told, CreateAt, CloseAt, DetachAt,
      DropAt

\* A session's close, while it is in the set.
LEMMA CloseReaches ==
    ASSUME TypeInv, TypeInv', Reaching, Told, Told', NEW t \in Threads,
           \/ CloseBegins(t) \/ LockResources(t) \/ UnlockResources(t)
           \/ RemovesSession(t)
    PROVE  Reaching'
<1> USE Apart DEF CloseBegins, LockResources, UnlockResources, RemovesSession,
        Return, Goto, Of, StopExecutor, Undefined, Threads, connectionVars,
        sessionVars, lockVars, threadVars, historyVars
<1> QED
  BY DEF TypeInv, TypeOK, SessionsTypeOK, ThreadsTypeOK, SessionPositions,
      OwnerPositions, Reaching, Reaches, Works, Told, CreateAt, CloseAt, DetachAt,
      DropAt

\* A session's close, from its removal on.
LEMMA DropReaches ==
    ASSUME TypeInv, TypeInv', Reaching, Told, Told', NEW t \in Threads,
           \/ RemovedSession(t) \/ MarkClosed(t) \/ ExecutorDeleted(t)
    PROVE  Reaching'
<1> USE Apart DEF RemovedSession, MarkClosed, ExecutorDeleted, Return, Goto, Of,
        Undefined, Threads, connectionVars, sessionVars, lockVars, threadVars,
        historyVars
<1> QED
  BY DEF TypeInv, TypeOK, SessionsTypeOK, ThreadsTypeOK, SessionPositions,
      OwnerPositions, Reaching, Reaches, Works, Told, CreateAt, CloseAt, DetachAt,
      DropAt

\* A call of the connection begins.
LEMMA ConnectionCallsReaches ==
    ASSUME TypeInv, TypeInv', Reaching, Told, Told',
           \/ Start \/ Stop \/ Close
    PROVE  Reaching'
<1>0. Close => \A s \in Sessions : op[s] \in {"none", "close"}
  BY ConnectionCallTells DEF Close, Told
<1> USE Apart DEF Start, Stop, Close, ConnectionCall, Goto, Undefined, Threads,
        connectionVars, sessionVars, lockVars, threadVars, historyVars
<1> QED
  BY <1>0 DEF TypeInv, TypeOK, SessionsTypeOK, ThreadsTypeOK, SessionPositions,
      OwnerPositions, Reaching, Reaches, Works, Told, CreateAt, CloseAt, DetachAt,
      DropAt

\* The connection's start and stop walk over the sessions.
LEMMA WalkReaches ==
    ASSUME TypeInv, TypeInv', Reaching, Told, Told',
           \/ CopySessions \/ (\E s \in Sessions : StartNext(s)) \/ StopNext
           \/ StartOrStopReturns
    PROVE  Reaching'
<1> USE Apart DEF CopySessions, StartNext, StopNext, StartOrStopReturns, Goto,
        StartExecutor, StopExecutor, Undefined, Threads, connectionVars,
        sessionVars, lockVars, threadVars, historyVars
<1> QED
  BY DEF TypeInv, TypeOK, SessionsTypeOK, ThreadsTypeOK, SessionPositions,
      OwnerPositions, Reaching, Reaches, Works, Told, CreateAt, CloseAt, DetachAt,
      DropAt

\* The connection's close walks over the sessions, and ends.
LEMMA ConnectionCloseReaches ==
    ASSUME TypeInv, TypeInv', Reaching, Told, Told',
           \/ (\E s \in Sessions : CloseNext(s)) \/ CloseConnection \/ Disconnect
    PROVE  Reaching'
<1> USE Apart DEF CloseNext, CloseConnection, Disconnect, Goto, Threads,
        connectionVars, sessionVars, lockVars, threadVars, historyVars
<1> QED
  BY DEF TypeInv, TypeOK, SessionsTypeOK, ThreadsTypeOK, SessionPositions,
      OwnerPositions, Reaching, Reaches, Works, Told, CreateAt, CloseAt, DetachAt,
      DropAt

\* The reader, and the loss of the connection.
LEMMA ReaderReaches ==
    ASSUME TypeInv, TypeInv', Reaching, Told, Told',
           \/ (\E s \in Sessions : OnConsumerMessage(s)) \/ Dispatched
           \/ ConnectionBreaks
    PROVE  Reaching'
<1> USE Apart DEF OnConsumerMessage, Dispatched, ConnectionBreaks, Undefined,
        Threads, connectionVars, sessionVars, lockVars, threadVars, historyVars
<1> QED
  BY DEF TypeInv, TypeOK, SessionsTypeOK, ThreadsTypeOK, SessionPositions,
      OwnerPositions, Reaching, Reaches, Works, Told, CreateAt, CloseAt, DetachAt,
      DropAt

-----------------------------------------------------------------------------
(* No closed session leaves its consumer behind *)

\* A session's call begins.
LEMMA CallsLeaves ==
    ASSUME TypeInv, TypeInv', Reaching, Reaching', Leaving, Told, Told', ~unsent',
           NEW s \in Sessions,
           \/ Create(s) \/ CreateConsumer(s) \/ CloseConsumer(s) \/ CloseSession(s)
    PROVE  Leaving'
<1>0. CloseSession(s) \/ op[Owner] # "close"
  BY SessionCallTells DEF Create, CreateConsumer, CloseConsumer, CloseSession,
     Told
<1> USE Apart DEF Create, CreateConsumer, CloseConsumer, CloseSession, SessionCall,
        Goto, Threads, connectionVars, sessionVars, lockVars, threadVars,
        historyVars
<1> QED
  BY <1>0 DEF TypeInv, TypeOK, SessionsTypeOK, ThreadsTypeOK, SessionPositions,
      OwnerPositions, LocksTypeOK, Leaving, Leaves, Detaches, Works, Told, Reaching,
      Reaches, CreateAt, CloseAt, DetachAt, DropAt

\* The session is created, and put in the set.
LEMMA CreatingLeaves ==
    ASSUME TypeInv, TypeInv', Reaching, Reaching', Leaving, Told, Told', ~unsent',
           NEW s \in Sessions,
           \/ Created(s) \/ CreateFails(s) \/ Added(s) \/ TestsStarted(s)
           \/ StartsSession(s)
    PROVE  Leaving'
<1> USE Apart DEF Created, CreateFails, Added, TestsStarted, StartsSession, Return,
        StartExecutor, Goto, Undefined, Threads, connectionVars, sessionVars,
        lockVars, threadVars, historyVars
<1> QED
  BY DEF TypeInv, TypeOK, SessionsTypeOK, ThreadsTypeOK, SessionPositions,
      OwnerPositions, LocksTypeOK, Leaving, Leaves, Detaches, Works, Told, Reaching,
      Reaches, CreateAt, CloseAt, DetachAt, DropAt

\* A consumer is created.
LEMMA ConsumerLeaves ==
    ASSUME TypeInv, TypeInv', Reaching, Reaching', Leaving, Told, Told', ~unsent',
           NEW s \in Sessions,
           \/ AddDispatcher(s) \/ Subscribed(s) \/ SubscribeFails(s)
    PROVE  Leaving'
<1> USE Apart DEF AddDispatcher, Subscribed, SubscribeFails, Return, Goto,
        Undefined, Threads, connectionVars, sessionVars, lockVars, threadVars,
        historyVars
<1> QED
  BY DEF TypeInv, TypeOK, SessionsTypeOK, ThreadsTypeOK, SessionPositions,
      OwnerPositions, LocksTypeOK, Leaving, Leaves, Detaches, Works, Told, Reaching,
      Reaches, CreateAt, CloseAt, DetachAt, DropAt

\* A session is deleted.
LEMMA DeleteLeaves ==
    ASSUME TypeInv, TypeInv', Reaching, Reaching', Leaving, Told, Told', ~unsent',
           NEW s \in Sessions,
           DeleteSession(s)
    PROVE  Leaving'
<1> USE Apart DEF DeleteSession, Threads, connectionVars, sessionVars, lockVars,
        threadVars, historyVars
<1> QED
  BY DEF TypeInv, TypeOK, SessionsTypeOK, ThreadsTypeOK, SessionPositions,
      OwnerPositions, LocksTypeOK, Leaving, Leaves, Detaches, Works, Told, Reaching,
      Reaches, CreateAt, CloseAt, DetachAt, DropAt

\* The close of a resource, up to the session's being told.
LEMMA ResourceLeaves ==
    ASSUME TypeInv, TypeInv', Reaching, Reaching', Leaving, Told, Told', ~unsent',
           NEW t \in Threads,
           \/ CloseResource(t) \/ Disposed(t) \/ DisposeFails(t) \/ Ask(t)
    PROVE  Leaving'
<1> USE Apart DEF CloseResource, Disposed, DisposeFails, Ask, AfterResource, Return,
        Goto, Of, Undefined, Threads, connectionVars, sessionVars, lockVars,
        threadVars, historyVars
<1> QED
  BY DEF TypeInv, TypeOK, SessionsTypeOK, ThreadsTypeOK, SessionPositions,
      OwnerPositions, LocksTypeOK, Leaving, Leaves, Detaches, Works, Told, Reaching,
      Reaches, CreateAt, CloseAt, DetachAt, DropAt

\* The session detaches a consumer.
LEMMA DetachLeaves ==
    ASSUME TypeInv, TypeInv', Reaching, Reaching', Leaving, Told, Told', ~unsent',
           NEW t \in Threads,
           \/ StopForCall(t) \/ RemoveDispatcher(t) \/ Purge(t) \/ Forget(t)
    PROVE  Leaving'
<1> USE Apart DEF StopForCall, RemoveDispatcher, Purge, Forget, Return, Goto, Of,
        StartExecutor, StopExecutor, Undefined, Threads, connectionVars,
        sessionVars, lockVars, threadVars, historyVars
<1> QED
  BY DEF TypeInv, TypeOK, SessionsTypeOK, ThreadsTypeOK, SessionPositions,
      OwnerPositions, LocksTypeOK, Leaving, Leaves, Detaches, Works, Told, Reaching,
      Reaches, CreateAt, CloseAt, DetachAt, DropAt

\* A session's close, while it is in the set.
LEMMA CloseLeaves ==
    ASSUME TypeInv, TypeInv', Reaching, Reaching', Leaving, Told, Told', ~unsent',
           NEW t \in Threads,
           \/ CloseBegins(t) \/ LockResources(t) \/ UnlockResources(t)
           \/ RemovesSession(t)
    PROVE  Leaving'
<1> USE Apart DEF CloseBegins, LockResources, UnlockResources, RemovesSession,
        Return, Goto, Of, StopExecutor, Undefined, Threads, connectionVars,
        sessionVars, lockVars, threadVars, historyVars
<1> QED
  BY DEF TypeInv, TypeOK, SessionsTypeOK, ThreadsTypeOK, SessionPositions,
      OwnerPositions, LocksTypeOK, Leaving, Leaves, Detaches, Works, Told, Reaching,
      Reaches, CreateAt, CloseAt, DetachAt, DropAt

\* A session's close, from its removal on.
LEMMA DropLeaves ==
    ASSUME TypeInv, TypeInv', Reaching, Reaching', Leaving, Told, Told', ~unsent',
           NEW t \in Threads,
           \/ RemovedSession(t) \/ MarkClosed(t) \/ ExecutorDeleted(t)
    PROVE  Leaving'
<1> USE Apart DEF RemovedSession, MarkClosed, ExecutorDeleted, Return, Goto, Of,
        Undefined, Threads, connectionVars, sessionVars, lockVars, threadVars,
        historyVars
<1> QED
  BY DEF TypeInv, TypeOK, SessionsTypeOK, ThreadsTypeOK, SessionPositions,
      OwnerPositions, LocksTypeOK, Leaving, Leaves, Detaches, Works, Told, Reaching,
      Reaches, CreateAt, CloseAt, DetachAt, DropAt

\* A call of the connection begins.
LEMMA ConnectionCallsLeaves ==
    ASSUME TypeInv, TypeInv', Reaching, Reaching', Leaving, Told, Told', ~unsent',
           \/ Start \/ Stop \/ Close
    PROVE  Leaving'
<1> USE Apart DEF Start, Stop, Close, ConnectionCall, Goto, Undefined, Threads,
        connectionVars, sessionVars, lockVars, threadVars, historyVars
<1> QED
  BY DEF TypeInv, TypeOK, SessionsTypeOK, ThreadsTypeOK, SessionPositions,
      OwnerPositions, LocksTypeOK, Leaving, Leaves, Detaches, Works, Told, Reaching,
      Reaches, CreateAt, CloseAt, DetachAt, DropAt

\* The connection's start and stop walk over the sessions.
LEMMA WalkLeaves ==
    ASSUME TypeInv, TypeInv', Reaching, Reaching', Leaving, Told, Told', ~unsent',
           \/ CopySessions \/ (\E s \in Sessions : StartNext(s)) \/ StopNext
           \/ StartOrStopReturns
    PROVE  Leaving'
<1> USE Apart DEF CopySessions, StartNext, StopNext, StartOrStopReturns, Goto,
        StartExecutor, StopExecutor, Undefined, Threads, connectionVars,
        sessionVars, lockVars, threadVars, historyVars
<1> QED
  BY DEF TypeInv, TypeOK, SessionsTypeOK, ThreadsTypeOK, SessionPositions,
      OwnerPositions, LocksTypeOK, Leaving, Leaves, Detaches, Works, Told, Reaching,
      Reaches, CreateAt, CloseAt, DetachAt, DropAt

\* The connection's close walks over the sessions, and ends.
LEMMA ConnectionCloseLeaves ==
    ASSUME TypeInv, TypeInv', Reaching, Reaching', Leaving, Told, Told', ~unsent',
           \/ (\E s \in Sessions : CloseNext(s)) \/ CloseConnection \/ Disconnect
    PROVE  Leaving'
<1> USE Apart DEF CloseNext, CloseConnection, Disconnect, Goto, Threads,
        connectionVars, sessionVars, lockVars, threadVars, historyVars
<1> QED
  BY DEF TypeInv, TypeOK, SessionsTypeOK, ThreadsTypeOK, SessionPositions,
      OwnerPositions, LocksTypeOK, Leaving, Leaves, Detaches, Works, Told, Reaching,
      Reaches, CreateAt, CloseAt, DetachAt, DropAt

\* The reader, and the loss of the connection.
LEMMA ReaderLeaves ==
    ASSUME TypeInv, TypeInv', Reaching, Reaching', Leaving, Told, Told', ~unsent',
           \/ (\E s \in Sessions : OnConsumerMessage(s)) \/ Dispatched
           \/ ConnectionBreaks
    PROVE  Leaving'
<1> USE Apart DEF OnConsumerMessage, Dispatched, ConnectionBreaks, Undefined,
        Threads, connectionVars, sessionVars, lockVars, threadVars, historyVars
<1> QED
  BY DEF TypeInv, TypeOK, SessionsTypeOK, ThreadsTypeOK, SessionPositions,
      OwnerPositions, LocksTypeOK, Leaving, Leaves, Detaches, Works, Told, Reaching,
      Reaches, CreateAt, CloseAt, DetachAt, DropAt

-----------------------------------------------------------------------------
(* The theorems *)

\* What has happened stays known.
LEMMA SoundBefore ==
    ASSUME TypeInv, [Next]_vars, Sound'
    PROVE  Sound
<1> USE DEF Sound, historyVars
<1>1. CASE UNCHANGED vars
  BY <1>1 DEF vars
<1>2. ASSUME NEW s \in Sessions,
             \/ Create(s) \/ CreateConsumer(s) \/ CloseConsumer(s)
             \/ CloseSession(s) \/ DeleteSession(s)
             \/ Creating(s) \/ OnConsumerMessage(s)
      PROVE  Sound
  BY <1>2 DEF Create, CreateConsumer, CloseConsumer, CloseSession, DeleteSession,
         Creating,
         OnConsumerMessage, SessionCall, Created, CreateFails, Added, TestsStarted,
         StartsSession, AddDispatcher, Subscribed, SubscribeFails
<1>3. ASSUME NEW t \in Threads, Closing(t)
      PROVE  Sound
  <2>1. CASE \/ CloseResource(t) \/ Disposed(t) \/ Ask(t) \/ StopForCall(t)
             \/ RemoveDispatcher(t) \/ Purge(t) \/ Forget(t)
    BY <2>1 DEF CloseResource, Disposed, Ask, StopForCall, RemoveDispatcher, Purge,
           Forget
  <2>2. CASE DisposeFails(t)
    BY <2>2 DEF DisposeFails
  <2>3. CASE \/ CloseBegins(t) \/ LockResources(t) \/ UnlockResources(t)
             \/ RemovesSession(t) \/ ExecutorDeleted(t)
    BY <2>3 DEF CloseBegins, LockResources, UnlockResources, RemovesSession,
           ExecutorDeleted
  <2>4. CASE RemovedSession(t)
    BY <2>4 DEF RemovedSession
  <2>5. CASE MarkClosed(t)
    BY <2>5 DEF MarkClosed
  <2> QED
    BY <1>3, <2>1, <2>2, <2>3, <2>4, <2>5 DEF Closing
<1>4. ASSUME Start \/ Stop \/ Close \/ Walking \/ Dispatched \/ ConnectionBreaks
      PROVE  Sound
  BY <1>4 DEF Start, Stop, Close, ConnectionCall, Walking, CopySessions, StartNext,
         StopNext,
         StartOrStopReturns, CloseNext, CloseConnection, Disconnect, Dispatched,
         ConnectionBreaks
<1> QED
  BY <1>1, <1>2, <1>3, <1>4 DEF Next

\* Nor is it taken back that a stop has been undone or a close has missed
\* something, nor that the connection is being closed.
LEMMA KnownBefore ==
    ASSUME TypeInv, Next
    PROVE  /\ Followed' => Followed
           /\ Told' => Told
           /\ ~unsent' => ~unsent
<1>0. ~undefined
  BY DEF Next
<1>1. clash \subseteq clash' /\ (~unsent' => ~unsent)
  <2> USE DEF historyVars
  <2>1. ASSUME NEW s \in Sessions,
               \/ Create(s) \/ CreateConsumer(s) \/ CloseConsumer(s)
               \/ CloseSession(s) \/ DeleteSession(s)
               \/ Creating(s) \/ OnConsumerMessage(s)
        PROVE  clash \subseteq clash' /\ (~unsent' => ~unsent)
    BY <2>1 DEF Create, CreateConsumer, CloseConsumer, CloseSession, DeleteSession,
       Creating, OnConsumerMessage, SessionCall, Created, CreateFails, Added,
       TestsStarted, StartsSession, AddDispatcher, Subscribed, SubscribeFails
  <2>2. ASSUME NEW t \in Threads, Closing(t)
        PROVE  clash \subseteq clash' /\ (~unsent' => ~unsent)
    <3>1. CASE \/ CloseResource(t) \/ Disposed(t) \/ Ask(t) \/ StopForCall(t)
               \/ RemoveDispatcher(t) \/ Purge(t) \/ Forget(t)
      BY <3>1 DEF CloseResource, Disposed, Ask, StopForCall, RemoveDispatcher, Purge,
         Forget
    <3>2. CASE DisposeFails(t)
      BY <3>2 DEF DisposeFails
    <3>3. CASE \/ CloseBegins(t) \/ LockResources(t) \/ UnlockResources(t)
               \/ RemovesSession(t) \/ ExecutorDeleted(t)
      BY <3>3 DEF CloseBegins, LockResources, UnlockResources, RemovesSession,
         ExecutorDeleted
    <3>4. CASE RemovedSession(t)
      BY <3>4 DEF RemovedSession
    <3>5. CASE MarkClosed(t)
      BY <3>5 DEF MarkClosed
    <3> QED
      BY <2>2, <3>1, <3>2, <3>3, <3>4, <3>5 DEF Closing
  <2>3. ASSUME Start \/ Stop \/ Close \/ Walking \/ Dispatched \/ ConnectionBreaks
        PROVE  clash \subseteq clash' /\ (~unsent' => ~unsent)
    BY <2>3 DEF Start, Stop, Close, ConnectionCall, Walking, CopySessions, StartNext,
       StopNext, StartOrStopReturns, CloseNext, CloseConnection, Disconnect,
       Dispatched, ConnectionBreaks
  <2> QED
    BY <2>1, <2>2, <2>3 DEF Next
<1>2. op'[Owner] # "close" /\ ~closed' => op[Owner] # "close" /\ ~closed
  <2> USE Apart DEF connectionVars, threadVars, Threads
  <2>1. ASSUME NEW s \in Sessions,
               \/ Create(s) \/ CreateConsumer(s) \/ CloseConsumer(s)
               \/ CloseSession(s) \/ DeleteSession(s)
               \/ Creating(s) \/ OnConsumerMessage(s)
        PROVE  op'[Owner] = op[Owner] /\ closed' = closed
    BY <2>1 DEF Create, CreateConsumer, CloseConsumer, CloseSession, DeleteSession,
       Creating, OnConsumerMessage, SessionCall, Created, CreateFails, Added,
       TestsStarted, StartsSession, AddDispatcher, Subscribed, SubscribeFails, Return,
       TypeInv, TypeOK, ThreadsTypeOK
  <2>2. ASSUME NEW t \in Threads, Closing(t)
        PROVE  op'[Owner] = op[Owner] /\ closed' = closed
    BY <2>2 DEF Closing, CloseResource, Disposed, DisposeFails, Ask, StopForCall,
       RemoveDispatcher, Purge, Forget, CloseBegins, LockResources, UnlockResources,
       RemovesSession, RemovedSession, MarkClosed, ExecutorDeleted, AfterResource,
       Return, TypeInv, TypeOK, ThreadsTypeOK
  <2>3. ASSUME Start \/ Stop \/ Close \/ Walking \/ Dispatched \/ ConnectionBreaks
        PROVE  op'[Owner] # "close" /\ ~closed' => op[Owner] # "close" /\ ~closed
    BY <2>3 DEF Start, Stop, Close, ConnectionCall, Walking, CopySessions, StartNext,
       StopNext, StartOrStopReturns, CloseNext, CloseConnection, Disconnect,
       Dispatched, ConnectionBreaks, TypeInv, TypeOK, ThreadsTypeOK, OwnerPositions
  <2> QED
    BY <2>1, <2>2, <2>3 DEF Next
<1> QED
  BY <1>0, <1>1, <1>2 DEF Followed, Told

LEMMA StepTypes ==
    ASSUME TypeInv, [Next]_vars
    PROVE  TypeInv'
<1>1. CASE UNCHANGED vars
  BY <1>1 DEF vars, connectionVars, sessionVars, lockVars, threadVars, historyVars,
         TypeInv,
         TypeOK, SessionsTypeOK, ThreadsTypeOK, LocksTypeOK, SessionPositions,
                OwnerPositions
<1>2. ASSUME NEW s \in Sessions,
             \/ Create(s) \/ CreateConsumer(s) \/ CloseConsumer(s)
             \/ CloseSession(s) \/ DeleteSession(s)
             \/ Creating(s) \/ OnConsumerMessage(s)
      PROVE  TypeInv'
  BY <1>2, CreatingTypes, ConsumerTypes, EndTypes, ReaderTypes DEF Creating
<1>3. ASSUME NEW t \in Threads, Closing(t)
      PROVE  TypeInv'
  BY <1>3, ResourceTypes, DetachTypes, CloseTypes, DropTypes DEF Closing
<1>4. ASSUME Start \/ Stop \/ Close \/ Walking \/ Dispatched \/ ConnectionBreaks
      PROVE  TypeInv'
  BY <1>4, WalkTypes, ConnectionCloseTypes, ReaderTypes DEF Walking
<1> QED
  BY <1>1, <1>2, <1>3, <1>4 DEF Next

LEMMA StepIntact ==
    ASSUME TypeInv, TypeInv', Intact, Sound', [Next]_vars
    PROVE  Intact'
<1>1. CASE UNCHANGED vars
  BY <1>1 DEF vars, connectionVars, sessionVars, lockVars, threadVars, historyVars,
         Intact,
         Compatible, Lives, Reliable, Relies, Walks
<1>2. ASSUME NEW s \in Sessions,
             \/ Create(s) \/ CreateConsumer(s) \/ CloseConsumer(s)
             \/ CloseSession(s) \/ DeleteSession(s)
             \/ Creating(s) \/ OnConsumerMessage(s)
      PROVE  Intact'
  BY <1>2, CallsIntact, CreatingIntact, ConsumerIntact, DeleteIntact, ReaderIntact
     DEF Creating
<1>3. ASSUME NEW t \in Threads, Closing(t)
      PROVE  Intact'
  BY <1>3, ResourceIntact, DetachIntact, CloseIntact, DropIntact DEF Closing
<1>4. ASSUME Start \/ Stop \/ Close \/ Walking \/ Dispatched \/ ConnectionBreaks
      PROVE  Intact'
  BY <1>4, ConnectionCallsIntact, WalkIntact, ConnectionCloseIntact, ReaderIntact
     DEF Walking
<1> QED
  BY <1>1, <1>2, <1>3, <1>4 DEF Next

LEMMA InitIntact == Init => Intact
  BY Apart DEF Init, Intact, Compatible, Lives, Reliable, Relies, Walks, Threads,
     CloseAt, DetachAt, DropAt

LEMMA InvariantHolds == Spec => []IInv
<1>1. Init => IInv
  BY InitTypes, InitIntact DEF IInv
<1>2. IInv /\ [Next]_vars => IInv'
  BY StepTypes, StepIntact, SoundBefore DEF IInv
<1> QED
  BY <1>1, <1>2, PTL DEF Spec

LEMMA StepFollows ==
    ASSUME TypeInv, TypeInv', Following, Followed, Followed', Next
    PROVE  Following'
<1>1. ASSUME NEW s \in Sessions,
             \/ Create(s) \/ CreateConsumer(s) \/ CloseConsumer(s)
             \/ CloseSession(s) \/ DeleteSession(s)
             \/ Creating(s) \/ OnConsumerMessage(s)
      PROVE  Following'
  BY <1>1, CallsFollows, CreatingFollows, ConsumerFollows, DeleteFollows, ReaderFollows
     DEF Creating
<1>2. ASSUME NEW t \in Threads, Closing(t)
      PROVE  Following'
  BY <1>2, ResourceFollows, DetachFollows, CloseFollows, DropFollows DEF Closing
<1>3. ASSUME Start \/ Stop \/ Close \/ Walking \/ Dispatched \/ ConnectionBreaks
      PROVE  Following'
  BY <1>3, ConnectionCallsFollows, WalkFollows, ConnectionCloseFollows, ReaderFollows
     DEF Walking
<1> QED
  BY <1>1, <1>2, <1>3 DEF Next

LEMMA StepReaches ==
    ASSUME TypeInv, TypeInv', Reaching, Told, Told', Next
    PROVE  Reaching'
<1>1. ASSUME NEW s \in Sessions,
             \/ Create(s) \/ CreateConsumer(s) \/ CloseConsumer(s)
             \/ CloseSession(s) \/ DeleteSession(s)
             \/ Creating(s) \/ OnConsumerMessage(s)
      PROVE  Reaching'
  BY <1>1, CallsReaches, CreatingReaches, ConsumerReaches, DeleteReaches, ReaderReaches
     DEF Creating
<1>2. ASSUME NEW t \in Threads, Closing(t)
      PROVE  Reaching'
  BY <1>2, ResourceReaches, DetachReaches, CloseReaches, DropReaches DEF Closing
<1>3. ASSUME Start \/ Stop \/ Close \/ Walking \/ Dispatched \/ ConnectionBreaks
      PROVE  Reaching'
  BY <1>3, ConnectionCallsReaches, WalkReaches, ConnectionCloseReaches, ReaderReaches
     DEF Walking
<1> QED
  BY <1>1, <1>2, <1>3 DEF Next

LEMMA StepLeaves ==
    ASSUME TypeInv, TypeInv', Reaching, Reaching', Leaving, Told, Told', ~unsent', Next
    PROVE  Leaving'
<1>1. ASSUME NEW s \in Sessions,
             \/ Create(s) \/ CreateConsumer(s) \/ CloseConsumer(s)
             \/ CloseSession(s) \/ DeleteSession(s)
             \/ Creating(s) \/ OnConsumerMessage(s)
      PROVE  Leaving'
  BY <1>1, CallsLeaves, CreatingLeaves, ConsumerLeaves, DeleteLeaves, ReaderLeaves
     DEF Creating
<1>2. ASSUME NEW t \in Threads, Closing(t)
      PROVE  Leaving'
  BY <1>2, ResourceLeaves, DetachLeaves, CloseLeaves, DropLeaves DEF Closing
<1>3. ASSUME Start \/ Stop \/ Close \/ Walking \/ Dispatched \/ ConnectionBreaks
      PROVE  Leaving'
  BY <1>3, ConnectionCallsLeaves, WalkLeaves, ConnectionCloseLeaves, ReaderLeaves
     DEF Walking
<1> QED
  BY <1>1, <1>2, <1>3 DEF Next

LEMMA ReachInvHolds == Spec => []ReachInv
<1>1. Init => ReachInv
  <2>1. Init => Following
    BY Apart DEF Init, Following, Follows, Runs, Threads
  <2>2. Init => Reaching
    BY Apart DEF Init, Reaching, Reaches, Works, Threads, CloseAt, DetachAt, DropAt
  <2>3. Init => Leaving
    BY Apart DEF Init, Leaving, Leaves, Detaches, Works, Threads, CloseAt, DetachAt,
       DropAt
  <2> QED
    BY <2>1, <2>2, <2>3, InitTypes DEF ReachInv
<1>2. ReachInv /\ [Next]_vars => ReachInv'
  <2>1. CASE UNCHANGED vars
    BY <2>1 DEF vars, connectionVars, sessionVars, lockVars, threadVars, historyVars,
       ReachInv, TypeInv, TypeOK, SessionsTypeOK, ThreadsTypeOK, LocksTypeOK,
       SessionPositions, OwnerPositions, Followed, Following, Follows, Runs, Told,
       Reaching, Reaches, Works, Leaving, Leaves, Detaches
  <2>2. CASE Next
    BY <2>2, StepTypes, KnownBefore, StepFollows, StepReaches, StepLeaves DEF ReachInv
  <2> QED
    BY <2>1, <2>2
<1> QED
  BY <1>1, <1>2, PTL DEF Spec

\* Types are preserved for any number of sessions, and the set of sessions is
\* locked exactly while a thread adds to it or removes from it.
THEOREM TypeCorrect == Spec => []TypeOK
<1>1. IInv => TypeOK
  BY DEF IInv, TypeInv
<1> QED
  BY <1>1, InvariantHolds, PTL

\* Connection, sessions and reader use nothing deleted as long as no two
\* incompatible calls overlap and no close of a consumer is lost: start, stop
\* and close of a connection, and the calls of its sessions.
THEOREM NothingDeletedIsUsed == Spec => []NothingDeleted
<1>1. IInv => NothingDeleted
  BY DEF IInv, Intact, Sound, NothingDeleted
<1> QED
  BY <1>1, InvariantHolds, PTL

\* start and stop reach every session: whenever no call is under way, each that
\* is in the set runs exactly if the connection does, though start overlap the
\* calls of the sessions, and stop those that cannot undo it.  And close reaches
\* every session and consumer, those included that are being closed meanwhile,
\* unless it has missed something or a consumer's close could not be sent.
THEOREM SessionsAreReached == Spec => []ConnectionReaches
<1>1. ReachInv => SessionsFollow
  <2> SUFFICES ASSUME ReachInv, AtRest, ~closed, "undone" \notin clash,
                      NEW s \in active
               PROVE  executor[s] = IF started THEN "started" ELSE "stopped"
    BY DEF SessionsFollow
  <2>1. s \in Sessions /\ s \in Threads /\ Owner \in Threads
    BY DEF ReachInv, TypeInv, TypeOK, SessionsTypeOK, Threads
  <2>2. /\ at[Owner] = "idle" /\ op[Owner] = "none"
        /\ at[s] = "idle" /\ op[s] = "none"
    BY <2>1 DEF AtRest, ReachInv, TypeInv, TypeOK, ThreadsTypeOK
  <2>3. Runs(s)
    BY <2>1, <2>2 DEF ReachInv, Followed, Following, Follows, AtRest
  <2> QED
    BY <2>2, <2>3 DEF Runs
<1>2. ReachInv => CloseReachesAll
  <2> SUFFICES ASSUME ReachInv, AtRest, closed, "missed" \notin clash
               PROVE  /\ active = {}
                      /\ \A s \in Sessions : life[s] \in {"none", "closed", "deleted"}
                      /\ unsent \/ dispatchers = {}
    BY DEF CloseReachesAll
  <2>1. Told /\ Reaching /\ active \subseteq Sessions
    BY DEF ReachInv, Told, AtRest, TypeInv, TypeOK, SessionsTypeOK
  <2>2. active = {}
    BY <2>1 DEF Reaching, Reaches
  <2>3. ASSUME NEW s \in Sessions
        PROVE  life[s] \in {"none", "closed", "deleted"}
    <3>1. life[s] # "open"
      BY <2>1, <2>2 DEF Reaching, Reaches, AtRest, Threads
    <3> QED
      BY <3>1 DEF ReachInv, TypeInv, TypeOK, SessionsTypeOK
  <2>4. ~unsent => dispatchers = {}
    <3> SUFFICES ASSUME ~unsent, NEW s \in dispatchers PROVE FALSE
      OBVIOUS
    <3>1. s \in Sessions /\ resource[s] \in {"open", "closed"}
      BY <2>1 DEF ReachInv, Leaving, Leaves, TypeInv, TypeOK, SessionsTypeOK
    <3>2. life[s] # "none"
      BY <3>1 DEF ReachInv, TypeInv, SessionPositions
    <3> QED
      BY <2>1, <2>3, <3>1, <3>2 DEF ReachInv, Leaving, Leaves
  <2> QED
    BY <2>2, <2>3, <2>4
<1>3. ReachInv => ConnectionReaches
  BY <1>1, <1>2 DEF ConnectionReaches
<1> QED
  BY <1>3, ReachInvHolds, PTL

=============================================================================
