---------------------------- MODULE CmsTemplate ----------------------------
(***************************************************************************)
(* CmsTemplate with its session pools, the clients cached in each pooled   *)
(* session, the destination resolver and the resource manager, in the one  *)
(* thread it is used from.  The application calls execute, send or         *)
(* receive, its callbacks run inside those calls and may call the template *)
(* again and change its settings; any step of a call may throw, and every  *)
(* catch of every level destroys the whole template's resources on the way *)
(* up.                                                                     *)
(***************************************************************************)
EXTENDS Naturals, Sequences, FiniteSets

CONSTANTS AckModes,
          Names,            \* names of destinations
          Objects,          \* destinations the application has objects of
          Requests,         \* the calls the application makes
          MaxDepth,         \* bound: calls nested in callbacks
          MaxSessions,      \* bound: sessions ever created
          MaxConnections,   \* bound: connections ever created
          MaxAvailable      \* bound: a callback closes its session while fewer
                            \* are available

Destination == [kind : {"queue", "topic"}, name : Names]

VARIABLES
    initialized,
    connection,            \* number of the connection, 0 for NULL
    pools,                 \* sessionPools has been created
    pooled,                \* per mode: PooledSessions of its pool
    available,             \* per mode: those that may be taken
    cache,                 \* producers and consumers cached in pooled sessions
    resolved,              \* what the resolver has for each session
    managed,               \* sessions and destinations of the resource manager
    defaultDestination,
    defaultDestinationName,
    pubSubDomain,
    ackMode,
    calls,                 \* calls in progress, the innermost last
    created,               \* history: sessions and connections ever created
    handled,               \* history: a callback of the calls in progress has
                           \* handled a failed call
    returned,              \* history: sessions of the pools that a callback has
                           \* closed itself
    undefined              \* history: a deleted object has been used

resourceVars == <<initialized, connection, pools, pooled, available, cache,
                  resolved, managed, defaultDestination>>
settingVars == <<defaultDestinationName, pubSubDomain, ackMode>>
vars == <<resourceVars, settingVars, calls, created, handled, returned, undefined>>

None == "none"
NoDefault == [by |-> None]
NoObject == [kind |-> None, name |-> None]
NoSession == 0

Targets == [by : {"default"}] \cup [by : {"name"}, name : Names]
              \cup [by : {"object"}, dest : Objects]

\* execute with a session callback; execute and send, with a producer; receive.
ASSUME RequestsAssumption ==
    Requests \subseteq [kind : {"session"}, target : [by : {None}]]
                         \cup [kind : {"producer", "consumer"}, target : Targets]

\* The bounds are numbers; 0 allows none.
ASSUME BoundsAssumption == {MaxDepth, MaxSessions, MaxConnections, MaxAvailable} \subseteq Nat

\* A call in progress: what it is for, how far it is, its pooled session, and
\* the destination its producer or consumer was created for.
Frames == [for : Requests,
           at : {"connecting", "taking", "creating", "callback", "caught"},
           session : 0..MaxSessions,
           has : Destination \cup Objects \cup {NoObject}]

Resolved == [session : 1..MaxSessions, dest : Destination]

TypeOK ==
    /\ initialized \in BOOLEAN /\ pools \in BOOLEAN
    /\ connection \in 0..MaxConnections
    /\ pooled \in [AckModes -> SUBSET (1..MaxSessions)]
    /\ available \in [AckModes -> Seq(1..MaxSessions)]
    /\ \A c \in cache : /\ c.session \in UNION {pooled[m] : m \in AckModes}
                        /\ c.kind \in {"producer", "consumer"}
                        /\ c.dest \in Destination \cup Objects
    /\ resolved \subseteq Resolved
    /\ managed \in [sessions : SUBSET (1..MaxSessions), destinations : SUBSET Resolved]
    /\ defaultDestination \in {NoDefault} \cup [by : {"application"}, dest : Objects]
                                \cup [by : {"template"}, object : Resolved]
    /\ defaultDestinationName \in Names \cup {None}
    /\ pubSubDomain \in BOOLEAN /\ ackMode \in AckModes
    /\ calls \in Seq(Frames) /\ Len(calls) <= MaxDepth
    /\ created \in [sessions : 0..MaxSessions, connections : 0..MaxConnections]
    /\ handled \in BOOLEAN /\ undefined \in BOOLEAN
    /\ returned \subseteq UNION {pooled[m] : m \in AckModes}

Init ==
    /\ initialized = FALSE /\ connection = 0 /\ pools = FALSE
    /\ pooled = [m \in AckModes |-> {}]
    /\ available = [m \in AckModes |-> <<>>]
    /\ cache = {} /\ resolved = {}
    /\ managed = [sessions |-> {}, destinations |-> {}]
    /\ defaultDestination = NoDefault
    /\ defaultDestinationName = None
    /\ pubSubDomain = FALSE
    /\ ackMode \in AckModes
    /\ calls = <<>>
    /\ created = [sessions |-> 0, connections |-> 0]
    /\ handled = FALSE /\ returned = {} /\ undefined = FALSE

-----------------------------------------------------------------------------
(* The stack of calls *)

Top == calls[Len(calls)]
Below == SubSeq(calls, 1, Len(calls) - 1)

\* The innermost call has come to this position.
TopAt(position) == calls # <<>> /\ Top.at = position /\ ~undefined

\* The application's code runs: outside all calls, or in the callback of the
\* innermost.  receive has no callback.
ApplicationRuns ==
    /\ ~undefined
    /\ calls # <<>> => Top.at = "callback" /\ Top.for.kind # "consumer"

Advance(frame) == calls' = Append(Below, frame)

\* The pooled session, and the session it wraps, have not been deleted.
Alive(s) == s \in UNION {pooled[m] : m \in AckModes} /\ s \in managed.sessions

\* The destination object the template would use for the name: one of the
\* session's own.
Named(s, n) ==
    [session |-> s,
     dest |-> [kind |-> IF pubSubDomain THEN "topic" ELSE "queue", name |-> n]]

\* What a cached client is found by: a temporary destination is neither a
\* cms::Queue nor a cms::Topic and all of them have the same empty name.
UniqueDestName(d) == IF d.kind = "temporary" THEN NoObject ELSE d

Cached(s, kind, d) ==
    {c \in cache : c.session = s /\ c.kind = kind
                     /\ UniqueDestName(c.dest) = UniqueDestName(d)}

-----------------------------------------------------------------------------
(* Failure: destroy() in every catch on the way up *)

\* Seeded fault: the clients of the deleted sessions stay.
FaultKeepsClients ==
    /\ pools' = FALSE
    /\ pooled' = [m \in AckModes |-> {}]
    /\ available' = [m \in AckModes |-> <<>>]
    /\ returned' = {}
    /\ UNCHANGED cache

DestroySessionPools ==
    /\ pools' = FALSE
    /\ pooled' = [m \in AckModes |-> {}]
    /\ available' = [m \in AckModes |-> <<>>]
    /\ cache' = {} /\ returned' = {}

\* Seeded fault: the reference to the default destination is not cleared.
FaultKeepsDefault ==
    /\ initialized' = FALSE
    /\ connection' = 0
    /\ UNCHANGED defaultDestination
    /\ DestroySessionPools
    /\ resolved' = {}
    /\ managed' = [sessions |-> {}, destinations |-> {}]
    /\ UNCHANGED settingVars

Destroy ==
    /\ initialized' = FALSE
    /\ connection' = 0
    /\ defaultDestination' = NoDefault
    /\ DestroySessionPools
    /\ resolved' = {}
    /\ managed' = [sessions |-> {}, destinations |-> {}]
    /\ UNCHANGED settingVars

\* The innermost call ends with an exception, which the callback of the call
\* below it, if there is one, gets next.
Throw ==
    /\ Destroy
    /\ calls' = [i \in 1..Len(Below) |->
                    IF i = Len(Below) THEN [Below[i] EXCEPT !.at = "caught"] ELSE Below[i]]
    /\ handled' = (handled /\ Below # <<>>)
    /\ UNCHANGED undefined

\* Anything between the beginning of a call and its end may throw.
ThrowInCall ==
    /\ \/ TopAt("connecting") /\ connection = 0
       \/ TopAt("taking") /\ available[ackMode] = <<>>
       \/ TopAt("creating")
       \/ TopAt("callback")
    /\ Throw
    /\ UNCHANGED created

\* createConnection goes through and the start of the connection throws.
StartThrows ==
    /\ TopAt("connecting") /\ connection = 0
    /\ created.connections < MaxConnections
    /\ created' = [created EXCEPT !.connections = @ + 1]
    /\ Throw

\* A callback lets an exception of a nested call pass ...
PassOn == TopAt("caught") /\ Throw /\ UNCHANGED created

\* ... or catches it and goes on.
Handle ==
    /\ TopAt("caught")
    /\ Advance([Top EXCEPT !.at = "callback"])
    /\ handled' = TRUE
    /\ UNCHANGED <<resourceVars, settingVars, created, returned, undefined>>

-----------------------------------------------------------------------------
(* The steps of execute *)

\* init() initialises the resolver, which drops what it has.
Execute(request) ==
    /\ ApplicationRuns /\ Len(calls) < MaxDepth
    /\ initialized' = TRUE
    /\ resolved' = IF initialized THEN resolved ELSE {}
    /\ calls' = Append(calls, [for |-> request, at |-> "connecting",
                               session |-> NoSession, has |-> NoObject])
    /\ UNCHANGED <<connection, pools, pooled, available, cache, managed,
                   defaultDestination, settingVars, created, handled, returned, undefined>>

HaveConnection ==
    /\ TopAt("connecting") /\ connection # 0
    /\ Advance([Top EXCEPT !.at = "taking"])
    /\ UNCHANGED <<resourceVars, settingVars, created, handled, returned, undefined>>

\* createSessionPools destroys the pools there may be and makes new ones.
GetConnection ==
    /\ TopAt("connecting") /\ connection = 0
    /\ created.connections < MaxConnections
    /\ created' = [created EXCEPT !.connections = @ + 1]
    /\ connection' = created'.connections
    /\ pools' = TRUE
    /\ pooled' = [m \in AckModes |-> {}]
    /\ available' = [m \in AckModes |-> <<>>]
    /\ cache' = {} /\ returned' = {}
    /\ Advance([Top EXCEPT !.at = "taking"])
    /\ UNCHANGED <<initialized, resolved, managed, defaultDestination,
                   settingVars, handled, undefined>>

\* The callback of a session is the application's; producers and consumers
\* have to be created first.
Taken(s) ==
    Advance([Top EXCEPT !.session = s,
                        !.at = IF Top.for.kind = "session" THEN "callback" ELSE "creating"])

\* Seeded fault: the session is taken and not removed from the list.
FaultTakesAndLeaves ==
    /\ TopAt("taking") /\ pools
    /\ available[ackMode] # <<>>
    /\ Taken(Head(available[ackMode]))
    /\ UNCHANGED <<resourceVars, settingVars, created, handled, returned, undefined>>

TakeAvailable ==
    /\ TopAt("taking") /\ pools
    /\ available[ackMode] # <<>>
    /\ Taken(Head(available[ackMode]))
    /\ available' = [available EXCEPT ![ackMode] = Tail(@)]
    /\ UNCHANGED <<initialized, connection, pools, pooled, cache, resolved, managed,
                   defaultDestination, settingVars, created, handled, returned, undefined>>

TakeNew ==
    /\ TopAt("taking") /\ pools
    /\ available[ackMode] = <<>>
    /\ created.sessions < MaxSessions
    /\ LET s == created.sessions + 1 IN
       /\ created' = [created EXCEPT !.sessions = s]
       /\ managed' = [managed EXCEPT !.sessions = @ \cup {s}]
       /\ pooled' = [pooled EXCEPT ![ackMode] = @ \cup {s}]
       /\ Taken(s)
    /\ UNCHANGED <<initialized, connection, pools, available, cache, resolved,
                   defaultDestination, settingVars, handled, returned, undefined>>

\* The producer or consumer is the cached one, or is created, for d.
GetClient(d) ==
    LET found == Cached(Top.session, Top.for.kind, d)
    IN  \/ \E c \in found :
             /\ Advance([Top EXCEPT !.at = "callback", !.has = c.dest])
             /\ UNCHANGED cache
        \/ /\ found = {}
           /\ cache' = cache \cup {[session |-> Top.session, kind |-> Top.for.kind, dest |-> d]}
           /\ Advance([Top EXCEPT !.at = "callback", !.has = d])

\* resolveDestinationName: the session's resolver has the destination, or
\* creates it and gives it to the manager.
Resolve(object) ==
    /\ resolved' = resolved \cup {object}
    /\ managed' = [managed EXCEPT !.destinations =
                      IF object \in resolved THEN @ ELSE @ \cup {object}]

CreateForObject ==
    /\ TopAt("creating") /\ Top.for.target.by = "object"
    /\ GetClient(Top.for.target.dest)
    /\ UNCHANGED <<initialized, connection, pools, pooled, available, resolved, managed,
                   defaultDestination, settingVars, created, handled, returned, undefined>>

CreateForName ==
    /\ TopAt("creating") /\ Top.for.target.by = "name"
    /\ LET object == Named(Top.session, Top.for.target.name) IN
         Resolve(object) /\ GetClient(object.dest)
    /\ UNCHANGED <<initialized, connection, pools, pooled, available,
                   defaultDestination, settingVars, created, handled, returned, undefined>>

\* The default name is resolved once and its object kept.
CreateForDefaultName ==
    /\ TopAt("creating") /\ Top.for.target.by = "default"
    /\ defaultDestination = NoDefault /\ defaultDestinationName # None
    /\ LET object == Named(Top.session, defaultDestinationName) IN
       /\ Resolve(object) /\ GetClient(object.dest)
       /\ defaultDestination' = [by |-> "template", object |-> object]
    /\ UNCHANGED <<initialized, connection, pools, pooled, available,
                   settingVars, created, handled, returned, undefined>>

CreateForDefault ==
    /\ TopAt("creating") /\ Top.for.target.by = "default"
    /\ \/ /\ defaultDestination.by = "application"
          /\ GetClient(defaultDestination.dest)
       \/ /\ defaultDestination.by = "template"
          /\ defaultDestination.object \in managed.destinations
          /\ GetClient(defaultDestination.object.dest)
    /\ UNCHANGED <<initialized, connection, pools, pooled, available, resolved, managed,
                   defaultDestination, settingVars, created, handled, returned, undefined>>

\* PooledSession::close: into the pool it is from, whether or not it is there.
ReturnSession(s) ==
    available' = [m \in AckModes |-> IF s \in pooled[m] THEN Append(available[m], s)
                                                       ELSE available[m]]

\* The callback closes the session it has been given, which is the pooled one.
CloseSession ==
    /\ TopAt("callback") /\ Top.for.kind # "consumer" /\ Alive(Top.session)
    /\ \A m \in AckModes : Top.session \in pooled[m] => Len(available[m]) < MaxAvailable
    /\ ReturnSession(Top.session)
    /\ returned' = returned \cup {Top.session}
    /\ UNCHANGED <<initialized, connection, pools, pooled, cache, resolved, managed,
                   defaultDestination, settingVars, calls, created, handled, undefined>>

\* The callback returns, or the receive does: the client, being cached, stays
\* open, and execute returns the session, which its callback may have closed.
Finish ==
    /\ TopAt("callback") /\ Alive(Top.session)
    /\ ReturnSession(Top.session)
    /\ calls' = Below
    /\ handled' = (handled /\ Below # <<>>)
    /\ UNCHANGED <<initialized, connection, pools, pooled, cache, resolved, managed,
                   defaultDestination, settingVars, created, returned, undefined>>

\* A pool that does not exist, a session that has been deleted with its pool,
\* or a destination that has been deleted by the manager.
UseDeleted ==
    /\ \/ TopAt("taking") /\ ~pools
       \/ TopAt("creating") /\ ~Alive(Top.session)
       \/ TopAt("callback") /\ ~Alive(Top.session)
       \/ /\ TopAt("creating") /\ Top.for.target.by = "default"
          /\ defaultDestination.by = "template"
          /\ defaultDestination.object \notin managed.destinations
    /\ undefined' = TRUE
    /\ UNCHANGED <<resourceVars, settingVars, calls, created, handled, returned>>

-----------------------------------------------------------------------------
(* Settings, at any time the application runs *)

SetDefaultDestination(d) ==
    /\ ApplicationRuns
    /\ defaultDestination' = [by |-> "application", dest |-> d]
    /\ UNCHANGED <<initialized, connection, pools, pooled, available, cache, resolved,
                   managed, settingVars, calls, created, handled, returned, undefined>>

SetDefaultDestinationName(n) ==
    /\ ApplicationRuns
    /\ n # defaultDestinationName
    /\ defaultDestinationName' = n
    /\ defaultDestination' = NoDefault
    /\ UNCHANGED <<initialized, connection, pools, pooled, available, cache, resolved,
                   managed, pubSubDomain, ackMode, calls, created, handled, returned, undefined>>

SetPubSubDomain ==
    /\ ApplicationRuns
    /\ pubSubDomain' = ~pubSubDomain
    /\ defaultDestination' = NoDefault
    /\ UNCHANGED <<initialized, connection, pools, pooled, available, cache, resolved,
                   managed, defaultDestinationName, ackMode, calls, created, handled, returned, undefined>>

SetSessionAcknowledgeMode(m) ==
    /\ ApplicationRuns
    /\ ackMode' = m
    /\ UNCHANGED <<resourceVars, defaultDestinationName, pubSubDomain,
                   calls, created, handled, returned, undefined>>

Next ==
    \/ ThrowInCall \/ StartThrows \/ PassOn \/ Handle
    \/ \E request \in Requests : Execute(request)
    \/ HaveConnection \/ GetConnection \/ TakeAvailable \/ TakeNew
    \/ CreateForObject \/ CreateForName \/ CreateForDefaultName \/ CreateForDefault
    \/ CloseSession \/ Finish \/ UseDeleted
    \/ \E d \in Objects : SetDefaultDestination(d)
    \/ \E n \in Names \cup {None} : SetDefaultDestinationName(n)
    \/ SetPubSubDomain
    \/ \E m \in AckModes : SetSessionAcknowledgeMode(m)

Spec == Init /\ [][Next]_vars

-----------------------------------------------------------------------------
(* Properties *)

Holders(s) == {i \in 1..Len(calls) : calls[i].session = s}

\* Every session of a pool is either available, once, or used by exactly one
\* call in progress, whatever fails and however calls are nested: takeSession
\* and PooledSession::close, which callbacks of any depth interleave.  A
\* session that a callback has closed itself is returned once more by execute
\* (CmsTemplate.cpp:421): of those only that they stay in their own pool.
SessionOwnedOnce ==
    \A m \in AckModes :
        /\ \A i, j \in 1..Len(available[m]) :
              available[m][i] = available[m][j] => i = j \/ available[m][i] \in returned
        /\ \A i \in 1..Len(available[m]) : available[m][i] \in pooled[m]
        /\ \A s \in pooled[m] :
              /\ Cardinality(Holders(s)) =
                    (IF \E i \in 1..Len(available[m]) : available[m][i] = s THEN 0 ELSE 1)
                 \/ s \in returned
              /\ \A n \in AckModes \ {m} : s \notin pooled[n]

\* No deleted object is used, unless a callback has handled the failure of a
\* call nested in it and went on with the session that failure has deleted.
\* And the default destination the template has resolved and kept is what its
\* settings name now, and has not been deleted.
NothingStale ==
    /\ undefined => handled
    /\ defaultDestination.by = "template" =>
         /\ defaultDestination.object.dest =
              Named(defaultDestination.object.session, defaultDestinationName).dest
         /\ defaultDestination.object \in managed.destinations

\* The template's resources hold together: sessions in their pools, and what is
\* cached and resolved with what it was made from.
ResourcesHold == SessionOwnedOnce /\ NothingStale

\* A client is for the destination it was asked for: createCachedProducer and
\* createCachedConsumer create one "if none exist for the given destination"
\* (PooledSession.h:144-145).
OwnDestination ==
    \A i \in 1..Len(calls) :
        calls[i].for.target.by = "object" /\ calls[i].has # NoObject
            => calls[i].has = calls[i].for.target.dest

\* A destination set with setDefaultDestination stays the default while no
\* setting is changed (CmsTemplate.h:282).
DefaultIsKept ==
    [][defaultDestination.by = "application" /\ UNCHANGED settingVars
         => defaultDestination'.by = "application"]_vars
\* close "returns this session back to the pool, but does not close or destroy"
\* it (PooledSession.h:75-79), from where it is taken (SessionPool.h:73): the
\* pool has a session once.
ReturnedOnce ==
    \A m \in AckModes :
        \A i, j \in 1..Len(available[m]) : available[m][i] = available[m][j] => i = j
=============================================================================
