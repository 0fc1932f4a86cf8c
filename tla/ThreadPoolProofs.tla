-------------------------- MODULE ThreadPoolProofs --------------------------
(***************************************************************************)
(* Safety of the thread pool for any clients, workers, blocks and width of *)
(* the counter: what freeThreads counts, and that a pool destroyed when    *)
(* its work is done is not touched any more.  In the second half, safety   *)
(* of the pooled sessions of a CmsTemplate (of which Cms is an instance)   *)
(* for any bounds on its calls, sessions and connections: no behaviour is  *)
(* meant to be of both modules, so the variable undefined, which both      *)
(* declare, stands for the one or for the other.                           *)
(***************************************************************************)
EXTENDS ThreadPool, FiniteSetTheorems, SequenceTheorems, TLAPS

CONSTANTS AckModes, Names, Objects, Requests, MaxDepth, MaxSessions, MaxConnections,
          MaxAvailable
VARIABLES initialized, connection, pools, pooled, available, cache, resolved, managed,
          defaultDestination, defaultDestinationName, pubSubDomain, ackMode,
          calls, created, handled, returned

Cms == INSTANCE CmsTemplate
-----------------------------------------------------------------------------
\* A task is in one place: with the client that queues it, in the queue, or
\* with the worker that has taken it.
TaskHasOnePlace ==
    /\ \A w \in Workers : task[w] \notin Range(queue)
    /\ \A c \in Clients : client[c] # "idle" =>
          c \notin Range(queue) /\ \A w \in Workers : task[w] # c

\* A worker without a task is on its way to one, as long as the pool lives.
Alive ==
    dtor = "none" =>
        /\ ~shutdown /\ ~quiet /\ ~undefined
        /\ \A w \in Workers : at[w] \in {"taken", "starting", "running", "failing"}
                                => task[w] # None

\* After a destructor that found no work there is nothing that could change
\* the pool.
QuietMeans ==
    quiet =>
        /\ queue = <<>> /\ ~undefined
        /\ \A c \in Clients : client[c] = "idle"
        /\ \A w \in Workers :
              /\ task[w] = None
              /\ at[w] \in {"none", "dequeuing", "waiting", "taken", "dead"}
              /\ at[w] # "none" => w \in stopped

\* The threads freeThreads means to count.
Free == {w \in pool : ~Busy(w)}

IInv == TypeOK /\ TaskHasOnePlace /\ Alive /\ QuietMeans /\ CountIsExact

-----------------------------------------------------------------------------
(* Arithmetic modulo the width of the counter *)

LEMMA ModRange ==
    ASSUME NEW a \in Int, NEW W \in Nat \ {0}
    PROVE  a % W \in 0 .. W - 1
OBVIOUS

LEMMA ModDiv ==
    ASSUME NEW a \in Int, NEW W \in Nat \ {0}
    PROVE  a \div W \in Int /\ a = W * (a \div W) + (a % W)
OBVIOUS

\* The only multiple of W between -W and W is 0.
LEMMA SmallMultiple ==
    ASSUME NEW W \in Nat \ {0}, NEW p \in Int, -W < W * p, W * p < W
    PROVE  p = 0
<1>1. CASE p >= 1
  <2>1. W * p >= W * 1
    BY <1>1
  <2> QED
    BY <2>1
<1>2. CASE p <= -1
  <2>1. W * p <= W * (-1)
    BY <1>2
  <2> QED
    BY <2>1
<1> QED
  BY <1>1, <1>2

LEMMA Congruent ==
    ASSUME NEW W \in Nat \ {0}, NEW x \in Int, NEW y \in Int, NEW k \in Int,
           x = y + W * k
    PROVE  x % W = y % W
<1>1. PICK p \in Int : x = W * p + (x % W)
  BY ModDiv
<1>2. PICK q \in Int : y = W * q + (y % W)
  BY ModDiv
<1>3. (x % W) - (y % W) = W * (q + k - p)
  <2> DEFINE rx == x % W
             ry == y % W
             wp == W * p
             wq == W * q
             wk == W * k
             wd == W * (q + k - p)
  <2>1. wd = wq + wk - wp
    OBVIOUS
  <2>2. rx \in Int /\ ry \in Int
    BY ModRange
  <2>3. wp \in Int /\ wq \in Int /\ wk \in Int
    OBVIOUS
  <2>4. x = wp + rx /\ y = wq + ry /\ x = y + wk
    BY <1>1, <1>2
  <2> HIDE DEF rx, ry, wp, wq, wk, wd
  <2>5. rx - ry = wd
    BY <2>1, <2>2, <2>3, <2>4
  <2> QED
    BY <2>5 DEF rx, ry, wd
<1>4. x % W \in 0 .. W - 1 /\ y % W \in 0 .. W - 1
  BY ModRange
<1>5. q + k - p = 0
  BY <1>3, <1>4, SmallMultiple
<1> QED
  BY <1>3, <1>4, <1>5

LEMMA ModPlus ==
    ASSUME NEW a \in Int, NEW b \in Int, NEW W \in Nat \ {0}
    PROVE  ((a % W) + b) % W = (a + b) % W
<1>1. PICK k \in Int : a = W * k + (a % W)
  BY ModDiv
<1> DEFINE r == a % W
           m == W * k
<1>2. r \in Int /\ m \in Int /\ a = m + r
  BY <1>1, ModRange
<1>3. (r + b) % W = (a + b) % W
  <2>1. a + b = (r + b) + m
    <3> HIDE DEF r, m
    <3> QED
      BY <1>2
  <2>2. a + b = (r + b) + W * k
    BY <2>1
  <2>3. a + b \in Int /\ r + b \in Int
    BY <1>2
  <2> HIDE DEF r, m
  <2> QED
    BY <2>2, <2>3, Congruent
<1> QED
  BY <1>3

-----------------------------------------------------------------------------
(* The counter *)

\* Counting m more, and one exception.
LEMMA CountUp ==
    ASSUME NEW n \in Int, NEW t \in Int, NEW m \in Int, NEW W \in Nat \ {0}
    PROVE  (((n - t) % W) + m) % W = ((n + m) - t) % W
<1>1. (((n - t) % W) + m) % W = ((n - t) + m) % W
  <2>1. n - t \in Int
    OBVIOUS
  <2> QED
    BY <2>1, ModPlus
<1>2. (n - t) + m = (n + m) - t
  OBVIOUS
<1> QED
  BY <1>1, <1>2

LEMMA CountOut ==
    ASSUME NEW n \in Int, NEW t \in Int, NEW m \in Int, NEW W \in Nat \ {0}
    PROVE  (((((n - t) % W) - 1) % W) + m) % W = ((n + m) - ((t + 1) % W)) % W
<1> DEFINE a == (n - t) % W
           b == (a - 1) % W
           s == (t + 1) % W
<1>1. a \in Int /\ s \in Int
  BY ModRange
<1>2. (b + m) % W = (a - 1 + m) % W
  <2>1. a - 1 \in Int
    BY <1>1
  <2> HIDE DEF a
  <2> QED
    BY <2>1, ModPlus
<1>3. (a - 1 + m) % W = (n - t - 1 + m) % W
  <2>1. (a + (m - 1)) % W = ((n - t) + (m - 1)) % W
    <3>1. n - t \in Int /\ m - 1 \in Int
      OBVIOUS
    <3> QED
      BY <3>1, ModPlus
  <2>2. a + (m - 1) = a - 1 + m /\ (n - t) + (m - 1) = n - t - 1 + m
    <3> HIDE DEF a
    <3> QED
      BY <1>1
  <2> QED
    BY <2>1, <2>2
<1>4. (n - t - 1 + m) % W = ((n + m) - s) % W
  <2>1. PICK k \in Int : t + 1 = W * k + s
    <3>1. t + 1 \in Int
      OBVIOUS
    <3> QED
      BY <3>1, ModDiv
  <2> DEFINE wk == W * k
             x == (n + m) - s
             y == n - t - 1 + m
  <2>2. wk \in Int /\ x \in Int /\ y \in Int
    BY <1>1
  <2>3. x = y + wk
    <3>1. t + 1 = wk + s
      BY <2>1
    <3> HIDE DEF s, wk
    <3> QED
      BY <1>1, <2>2, <3>1
  <2>4. x = y + W * k
    BY <2>3
  <2>5. x % W = y % W
    <3> HIDE DEF x, y
    <3> QED
      BY <2>2, <2>4, Congruent
  <2> QED
    BY <2>5
<1> QED
  BY <1>2, <1>3, <1>4

-----------------------------------------------------------------------------
(* The queue *)

LEMMA AppendToQueue ==
    ASSUME NEW S, NEW q \in Seq(S), IsInjective(q), NEW c \in S, c \notin Range(q)
    PROVE  /\ Append(q, c) \in Seq(S)
           /\ IsInjective(Append(q, c))
           /\ Range(Append(q, c)) = Range(q) \cup {c}
<1>1. DOMAIN q = 1..Len(q) /\ DOMAIN Append(q, c) = 1..(Len(q) + 1)
  OBVIOUS
<1>2. \A i \in 1..Len(q) : Append(q, c)[i] = q[i] /\ q[i] \in Range(q)
  BY <1>1 DEF Range
<1>3. Append(q, c)[Len(q) + 1] = c
  OBVIOUS
<1>4. \A i \in 1..(Len(q) + 1) : i \in 1..Len(q) \/ i = Len(q) + 1
  OBVIOUS
<1>5. IsInjective(Append(q, c))
  BY <1>1, <1>2, <1>3, <1>4 DEF IsInjective
<1>6. Range(Append(q, c)) = Range(q) \cup {c}
  BY <1>1, <1>2, <1>3, <1>4 DEF Range
<1> QED
  BY <1>5, <1>6

LEMMA TailOfQueue ==
    ASSUME NEW S, NEW q \in Seq(S), IsInjective(q), q # <<>>
    PROVE  /\ Tail(q) \in Seq(S) /\ Head(q) \in S
           /\ IsInjective(Tail(q))
           /\ Range(Tail(q)) = Range(q) \ {Head(q)}
           /\ Head(q) \in Range(q)
<1>1. DOMAIN q = 1..Len(q) /\ DOMAIN Tail(q) = 1..(Len(q) - 1) /\ Len(q) \in Nat \ {0}
  OBVIOUS
<1>2. \A i \in 1..(Len(q) - 1) : Tail(q)[i] = q[i + 1]
  OBVIOUS
<1>3. Head(q) = q[1]
  OBVIOUS
<1>4. IsInjective(Tail(q))
  BY <1>1, <1>2 DEF IsInjective
<1>5. Range(Tail(q)) = Range(q) \ {Head(q)}
  <2>1. ASSUME NEW x \in Range(q), x # Head(q)
        PROVE  x \in Range(Tail(q))
    <3>1. PICK j \in 1..Len(q) : x = q[j]
      BY <1>1 DEF Range
    <3>2. j - 1 \in 1..(Len(q) - 1) /\ (j - 1) + 1 = j
      BY <1>1, <1>3, <2>1, <3>1
    <3>3. Tail(q)[j - 1] = x
      BY <1>2, <3>1, <3>2
    <3> QED
      BY <1>1, <3>2, <3>3 DEF Range
  <2>2. ASSUME NEW i \in 1..(Len(q) - 1)
        PROVE  Tail(q)[i] \in Range(q) /\ Tail(q)[i] # Head(q)
    <3>1. i + 1 \in 1..Len(q) /\ 1 \in 1..Len(q) /\ i + 1 # 1
      BY <1>1
    <3> QED
      BY <1>1, <1>2, <1>3, <3>1 DEF Range, IsInjective
  <2> QED
    BY <1>1, <2>1, <2>2 DEF Range
<1>6. Head(q) \in Range(q)
  <2>1. 1 \in 1..Len(q)
    BY <1>1
  <2> QED
    BY <1>1, <1>3, <2>1 DEF Range
<1> QED
  BY <1>4, <1>5, <1>6

-----------------------------------------------------------------------------
(* The growth of the pool *)

LEMMA SubsetOfSize ==
    ASSUME NEW S, IsFiniteSet(S), NEW k \in 0..Cardinality(S)
    PROVE  \E T \in SUBSET S : Cardinality(T) = k
<1>1. PICK f \in Bijection(1..Cardinality(S), S) : TRUE
  BY FS_CardinalityType DEF ExistsBijection
<1> DEFINE T == {f[i] : i \in 1..k}
           g == [i \in 1..k |-> f[i]]
<1>0. Cardinality(S) \in Nat
  BY FS_CardinalityType
<1>2. T \in SUBSET S
  BY <1>0, <1>1 DEF Bijection, Injection, Surjection
<1>3. g \in Bijection(1..k, T)
  BY <1>0, <1>1 DEF Bijection, Injection, Surjection, IsInjective
<1>4. Cardinality(T) = k
  <2>1. ExistsBijection(1..k, T)
    BY <1>3 DEF ExistsBijection
  <2>2. IsFiniteSet(1..k) /\ Cardinality(1..k) = k
    <3>1. 1 \in Int /\ k \in Int /\ k >= 0
      BY <1>0
    <3> HIDE DEF T, g
    <3>2. IsFiniteSet(1..k) /\ Cardinality(1..k) = IF 1 > k THEN 0 ELSE k - 1 + 1
      BY <3>1, FS_Interval
    <3> QED
      BY <3>1, <3>2
  <2> HIDE DEF T, g
  <2> QED
    BY <2>1, <2>2, FS_Bijection
<1> QED
  BY <1>2, <1>4

LEMMA WordIsPositive == Word \in Nat \ {0}
BY PoolAssumption

\* AllocateThreads adds some of the unused threads.
LEMMA GrownIsPart ==
    ASSUME NEW old, NEW count \in Nat
    PROVE  /\ Grown(old, count) \in SUBSET {w \in Workers : old[w] = "none"}
           /\ IsFiniteSet(Grown(old, count))
           /\ Cardinality(Grown(old, count)) \in Nat
<1> DEFINE unused == {w \in Workers : old[w] = "none"}
           number == IF count < Cardinality(unused) THEN count ELSE Cardinality(unused)
<1>1. IsFiniteSet(unused) /\ Cardinality(unused) \in Nat
  <2>1. unused \in SUBSET Workers
    OBVIOUS
  <2>2. IsFiniteSet(Workers)
    BY PoolAssumption
  <2>3. IsFiniteSet(unused)
    <3> HIDE DEF unused
    <3> QED
      BY <2>1, <2>2, FS_Subset
  <2> HIDE DEF unused
  <2> QED
    BY <2>3, FS_CardinalityType
<1>2. number \in 0 .. Cardinality(unused)
  <2> HIDE DEF unused
  <2> QED
    BY <1>1
<1>3. \E S \in SUBSET unused : Cardinality(S) = number
  <2> HIDE DEF unused, number
  <2> QED
    BY <1>1, <1>2, SubsetOfSize
<1>4. Grown(old, count) \in SUBSET unused
  BY <1>3 DEF Grown
<1> HIDE DEF unused
<1>5. IsFiniteSet(Grown(old, count)) /\ Cardinality(Grown(old, count)) \in Nat
  BY <1>1, <1>4, FS_Subset, FS_CardinalityType
<1> QED
  BY <1>4, <1>5 DEF unused

LEMMA FreeIsFinite ==
    ASSUME TypeOK
    PROVE  IsFiniteSet(Free) /\ Cardinality(Free) \in Nat
<1>1. Free \in SUBSET Workers
  BY DEF Free, pool
<1>2. IsFiniteSet(Workers)
  BY PoolAssumption
<1> HIDE DEF Free
<1> QED
  BY <1>1, <1>2, FS_Subset, FS_CardinalityType

\* New threads are free, and are counted.
LEMMA CountGrows ==
    ASSUME TypeOK, CountIsExact, NEW new, IsFiniteSet(new),
           Free' = Free \cup new, Free \cap new = {},
           freeThreads' = (freeThreads + Cardinality(new)) % Word,
           thrown' = thrown
    PROVE  CountIsExact'
<1>1. IsFiniteSet(Free) /\ Cardinality(Free) \in Nat
  BY FreeIsFinite
<1>2. Cardinality(new) \in Nat
  BY FS_CardinalityType
<1>3. Cardinality(Free') = Cardinality(Free) + Cardinality(new)
  <2>1. Cardinality(Free \cap new) = 0
    BY FS_EmptySet
  <2>2. Cardinality(Free \cup new)
          = Cardinality(Free) + Cardinality(new) - Cardinality(Free \cap new)
    BY <1>1, FS_Union
  <2> QED
    BY <1>1, <1>2, <2>1, <2>2
<1>4. freeThreads = (Cardinality(Free) - thrown) % Word
  BY DEF CountIsExact, Free
<1>5. thrown \in Int
  BY WordIsPositive DEF TypeOK, PoolTypeOK
<1>6. freeThreads' = ((Cardinality(Free) + Cardinality(new)) - thrown) % Word
  <2> DEFINE n == Cardinality(Free)
             m == Cardinality(new)
  <2>1. n \in Int /\ m \in Int
    BY <1>1, <1>2
  <2>2. freeThreads' = (((n - thrown) % Word) + m) % Word
    BY <1>4
  <2> HIDE DEF n, m
  <2>3. (((n - thrown) % Word) + m) % Word = ((n + m) - thrown) % Word
    BY <2>1, <1>5, WordIsPositive, CountUp
  <2>4. freeThreads' = ((n + m) - thrown) % Word
    BY <2>2, <2>3
  <2> QED
    BY <2>4 DEF n, m
<1>7. freeThreads' = (Cardinality(Free') - thrown') % Word
  BY <1>3, <1>6
<1> QED
  BY <1>7 DEF CountIsExact, Free

\* A step that neither frees a thread nor takes one.
LEMMA CountStays ==
    ASSUME CountIsExact, Free' = Free, freeThreads' = freeThreads, thrown' = thrown
    PROVE  CountIsExact'
<1>1. freeThreads = (Cardinality(Free) - thrown) % Word
  BY DEF CountIsExact, Free
<1>2. freeThreads' = (Cardinality(Free') - thrown') % Word
  BY <1>1
<1> QED
  BY <1>2 DEF CountIsExact, Free

\* What AllocateThreads does, for some new threads.
LEMMA Allocates ==
    ASSUME NEW old, NEW free, NEW count \in Nat, AllocateThreads(old, free, count)
    PROVE  \E new \in SUBSET {w \in Workers : old[w] = "none"} :
              /\ IsFiniteSet(new) /\ Cardinality(new) \in Nat
              /\ at' = [w \in Workers |-> IF w \in new THEN "dequeuing" ELSE old[w]]
              /\ freeThreads' = (free + Cardinality(new)) % Word
              /\ undefined' = (undefined \/ (dtor # "none" /\ new # {}))
<1> DEFINE new == Grown(old, count)
<1>1. /\ new \in SUBSET {w \in Workers : old[w] = "none"}
      /\ IsFiniteSet(new) /\ Cardinality(new) \in Nat
  BY GrownIsPart
<1>2. /\ at' = [w \in Workers |-> IF w \in new THEN "dequeuing" ELSE old[w]]
      /\ freeThreads' = (free + Cardinality(new)) % Word
      /\ undefined' = (undefined \/ (dtor # "none" /\ new # {}))
  BY DEF AllocateThreads
<1> HIDE DEF new
<1> QED
  BY <1>1, <1>2

\* The pool grows while a client or a worker that is not alone runs: all but
\* the count, for threads at positions old.
LEMMA GrowthIsSafe ==
    ASSUME IInv, ~quiet, queue' = queue, shutdown' = shutdown, task' = task,
           stopped' = stopped, dtor' = dtor, thrown' = thrown, quiet' = quiet,
           client' \in [Clients -> {"idle", "allocating", "pushing"}],
           \A c \in Clients : client'[c] # "idle" => client[c] # "idle",
           NEW old \in [Workers -> {"none", "dequeuing", "waiting", "taken",
                                    "starting", "running", "failing", "dead"}],
           \A w \in Workers : \/ old[w] = at[w]
                              \/ at[w] = "starting" /\ old[w] = "running",
           NEW new \in SUBSET {w \in Workers : old[w] = "none"},
           IsFiniteSet(new), Cardinality(new) \in Nat,
           at' = [w \in Workers |-> IF w \in new THEN "dequeuing" ELSE old[w]],
           freeThreads' = (freeThreads + Cardinality(new)) % Word,
           undefined' = (undefined \/ (dtor # "none" /\ new # {}))
    PROVE  IInv'
<1>1. PoolTypeOK'
  <2>1. freeThreads \in Int /\ freeThreads + Cardinality(new) \in Int
    BY WordIsPositive DEF IInv, TypeOK, PoolTypeOK
  <2>2. freeThreads' \in 0 .. Word - 1
    BY <2>1, WordIsPositive, ModRange
  <2>3. undefined \in BOOLEAN
    BY DEF IInv, TypeOK, PoolTypeOK
  <2>4. undefined' \in BOOLEAN
    BY <2>3
  <2> QED
    BY <2>2, <2>4 DEF IInv, TypeOK, PoolTypeOK
<1>2. PositionsTypeOK'
  BY DEF IInv, TypeOK, PositionsTypeOK, pool
<1>3. TasksTypeOK'
  BY DEF IInv, TypeOK, PositionsTypeOK, TasksTypeOK
<1>4. TaskHasOnePlace'
  BY DEF IInv, TaskHasOnePlace
<1>5. Alive'
  BY DEF IInv, Alive
<1>6. QuietMeans'
  BY DEF QuietMeans
<1>7. CountIsExact'
  <2>1. Free' = Free \cup new /\ Free \cap new = {}
    BY DEF Free, pool, Busy
  <2> QED
    BY <2>1, CountGrows DEF IInv
<1> QED
  BY <1>1, <1>2, <1>3, <1>4, <1>5, <1>6, <1>7 DEF IInv, TypeOK

-----------------------------------------------------------------------------
(* Clients *)

LEMMA QueueTaskIsSafe ==
    ASSUME IInv, NEW c \in Clients, QueueTask(c)
    PROVE  IInv'
<1> USE DEF QueueTask, poolVars, historyVars
<1>1. TypeOK'
  BY DEF IInv, TypeOK, PoolTypeOK, PositionsTypeOK, TasksTypeOK, pool
<1>2. TaskHasOnePlace'
  BY DEF IInv, TypeOK, PositionsTypeOK, TaskHasOnePlace
<1>3. Alive' /\ QuietMeans'
  BY DEF IInv, Alive, QuietMeans
<1>4. CountIsExact'
  <2>1. Free' = Free
    BY DEF Free, pool, Busy
  <2> QED
    BY <2>1, CountStays DEF IInv
<1> QED
  BY <1>1, <1>2, <1>3, <1>4 DEF IInv

LEMMA AllocateIsSafe ==
    ASSUME IInv, NEW c \in Clients, Allocate(c)
    PROVE  IInv'
<1>1. blockSize \in Nat
  BY PoolAssumption
<1>2. PICK new \in SUBSET {w \in Workers : at[w] = "none"} :
              /\ IsFiniteSet(new) /\ Cardinality(new) \in Nat
              /\ at' = [w \in Workers |-> IF w \in new THEN "dequeuing" ELSE at[w]]
              /\ freeThreads' = (freeThreads + Cardinality(new)) % Word
              /\ undefined' = (undefined \/ (dtor # "none" /\ new # {}))
  BY <1>1, Allocates DEF Allocate
<1>3. ~quiet
  BY DEF Allocate, IInv, QuietMeans
<1>4. /\ client' \in [Clients -> {"idle", "allocating", "pushing"}]
      /\ \A d \in Clients : client'[d] # "idle" => client[d] # "idle"
      /\ at \in [Workers -> {"none", "dequeuing", "waiting", "taken",
                             "starting", "running", "failing", "dead"}]
  BY DEF Allocate, IInv, TypeOK, PositionsTypeOK
<1>5. /\ queue' = queue /\ shutdown' = shutdown /\ task' = task
      /\ stopped' = stopped /\ dtor' = dtor /\ thrown' = thrown /\ quiet' = quiet
  BY DEF Allocate
<1> QED
  BY <1>2, <1>3, <1>4, <1>5, GrowthIsSafe

LEMMA PushIsSafe ==
    ASSUME IInv, NEW c \in Clients, Push(c)
    PROVE  IInv'
<1> USE DEF Push, historyVars
<1>1. /\ queue \in Seq(Clients) /\ IsInjective(queue)
      /\ c \notin Range(queue) /\ \A w \in Workers : task[w] # c
  BY DEF IInv, TypeOK, PoolTypeOK, TaskHasOnePlace
<1>2. queue' \in Seq(Clients) /\ IsInjective(queue') /\ Range(queue') = Range(queue) \cup {c}
  BY <1>1, AppendToQueue
<1>3. /\ at' \in [Workers -> {"none", "dequeuing", "waiting", "taken", "starting",
                              "running", "failing", "dead"}]
      /\ \A w \in Workers : \/ at'[w] = at[w]
                            \/ at[w] = "waiting" /\ at'[w] = "dequeuing"
  BY DEF IInv, TypeOK, PositionsTypeOK
<1>4. PoolTypeOK'
  BY <1>2 DEF IInv, TypeOK, PoolTypeOK
<1>5. PositionsTypeOK'
  BY <1>3 DEF IInv, TypeOK, PositionsTypeOK, pool
<1>6. TasksTypeOK'
  BY <1>3 DEF IInv, TypeOK, TasksTypeOK
<1>7. TaskHasOnePlace'
  BY <1>1, <1>2 DEF IInv, TypeOK, PositionsTypeOK, TaskHasOnePlace
<1>8. Alive'
  BY <1>3 DEF IInv, Alive
<1>9. QuietMeans'
  BY DEF IInv, QuietMeans
<1>10. CountIsExact'
  <2>1. Free' = Free
    BY <1>3 DEF Free, pool, Busy
  <2> QED
    BY <2>1, CountStays DEF IInv
<1> QED
  BY <1>4, <1>5, <1>6, <1>7, <1>8, <1>9, <1>10 DEF IInv, TypeOK

LEMMA ReserveIsSafe ==
    ASSUME IInv, NEW size \in 1 .. maxThreads, reserve(size)
    PROVE  IInv'
<1>1. size - Cardinality(pool) \in Nat
  <2>1. pool \in SUBSET Workers /\ IsFiniteSet(Workers)
    BY PoolAssumption DEF pool
  <2>2. Cardinality(pool) \in Nat
    <3> HIDE DEF pool
    <3> QED
      BY <2>1, FS_Subset, FS_CardinalityType
  <2>3. size > Cardinality(pool) /\ size \in Int
    BY PoolAssumption DEF reserve
  <2> DEFINE k == Cardinality(pool)
  <2>4. k \in Nat /\ size > k /\ size \in Int
    BY <2>2, <2>3
  <2> HIDE DEF k
  <2>5. size - k \in Nat
    BY <2>4
  <2> QED
    BY <2>5 DEF k
<1>2. PICK new \in SUBSET {w \in Workers : at[w] = "none"} :
              /\ IsFiniteSet(new) /\ Cardinality(new) \in Nat
              /\ at' = [w \in Workers |-> IF w \in new THEN "dequeuing" ELSE at[w]]
              /\ freeThreads' = (freeThreads + Cardinality(new)) % Word
              /\ undefined' = (undefined \/ (dtor # "none" /\ new # {}))
  <2> DEFINE count == size - Cardinality(pool)
  <2>1. AllocateThreads(at, freeThreads, count) /\ count \in Nat
    BY <1>1 DEF reserve
  <2> HIDE DEF count
  <2> QED
    BY <2>1, Allocates
<1>3. ~quiet
  BY DEF reserve, IInv, Alive
<1>4. /\ client' = client
      /\ client \in [Clients -> {"idle", "allocating", "pushing"}]
      /\ at \in [Workers -> {"none", "dequeuing", "waiting", "taken",
                             "starting", "running", "failing", "dead"}]
  BY DEF reserve, IInv, TypeOK, PositionsTypeOK
<1>5. /\ queue' = queue /\ shutdown' = shutdown /\ task' = task
      /\ stopped' = stopped /\ dtor' = dtor /\ thrown' = thrown /\ quiet' = quiet
  BY DEF reserve
<1> QED
  BY <1>2, <1>3, <1>4, <1>5, GrowthIsSafe

-----------------------------------------------------------------------------
(* Workers: first the steps that leave the count alone *)

\* A worker moves between positions that are both busy or both free, keeping
\* its task, and touches nothing else.
LEMMA MoveIsSafe ==
    ASSUME IInv, NEW w \in Workers, NEW position, Moves(w, position),
           UNCHANGED <<poolVars, client, task, stopped, dtor, historyVars>>,
           \/ at[w] = "dequeuing" /\ position = "waiting"
           \/ at[w] = "running" /\ position = "failing"
           \/ at[w] = "taken" /\ position = "failing" /\ task[w] = None /\ w \notin stopped
    PROVE  IInv'
<1> USE DEF Moves, poolVars, historyVars
<1>1. PoolTypeOK' /\ TasksTypeOK'
  BY DEF IInv, TypeOK, PoolTypeOK, TasksTypeOK, PositionsTypeOK
<1>2. PositionsTypeOK'
  BY DEF IInv, TypeOK, PositionsTypeOK, pool
<1>3. TaskHasOnePlace'
  BY DEF IInv, TaskHasOnePlace
<1>4. Alive'
  BY DEF IInv, TypeOK, PositionsTypeOK, TasksTypeOK, Alive
<1>5. QuietMeans'
  BY DEF IInv, TypeOK, PositionsTypeOK, QuietMeans
<1>6. CountIsExact'
  <2>1. Free' = Free
    BY DEF IInv, TypeOK, PositionsTypeOK, TasksTypeOK, Free, pool, Busy
  <2> QED
    BY <2>1, CountStays DEF IInv
<1> QED
  BY <1>1, <1>2, <1>3, <1>4, <1>5, <1>6 DEF IInv, TypeOK

LEMMA WaitsIsSafe ==
    ASSUME IInv, NEW w \in Workers, Waits(w)
    PROVE  IInv'
BY MoveIsSafe DEF Waits

LEMMA NullTaskIsSafe ==
    ASSUME IInv, NEW w \in Workers, NullTask(w)
    PROVE  IInv'
BY MoveIsSafe DEF NullTask

LEMMA TaskThrowsIsSafe ==
    ASSUME IInv, NEW w \in Workers, TaskThrows(w)
    PROVE  IInv'
BY MoveIsSafe DEF TaskThrows

LEMMA TakesIsSafe ==
    ASSUME IInv, NEW w \in Workers, Takes(w)
    PROVE  IInv'
<1> USE DEF Takes, Moves, historyVars
<1>1. CASE shutdown /\ UNCHANGED <<queue, task>>
  <2>1. PoolTypeOK' /\ TasksTypeOK'
    BY <1>1 DEF IInv, TypeOK, PoolTypeOK, TasksTypeOK, PositionsTypeOK
  <2>2. PositionsTypeOK'
    BY DEF IInv, TypeOK, PositionsTypeOK, pool
  <2>3. TaskHasOnePlace'
    BY <1>1 DEF IInv, TaskHasOnePlace
  <2>4. Alive' /\ QuietMeans'
    BY <1>1 DEF IInv, TypeOK, PositionsTypeOK, Alive, QuietMeans
  <2>5. Free' = Free
    BY <1>1 DEF IInv, TypeOK, PositionsTypeOK, Free, pool, Busy
  <2>6. CountIsExact'
    BY <2>5, CountStays DEF IInv
  <2> QED
    BY <2>1, <2>2, <2>3, <2>4, <2>6 DEF IInv, TypeOK
<1>2. CASE /\ ~shutdown /\ queue # <<>>
           /\ queue' = Tail(queue)
           /\ task' = [task EXCEPT ![w] = Head(queue)]
  <2>0. queue \in Seq(Clients) /\ IsInjective(queue)
    BY DEF IInv, TypeOK, PoolTypeOK
  <2>1. /\ queue' \in Seq(Clients) /\ IsInjective(queue')
        /\ Head(queue) \in Clients /\ Head(queue) \in Range(queue)
        /\ Range(queue') = Range(queue) \ {Head(queue)}
    BY <1>2, <2>0, TailOfQueue
  <2>2. \A v \in Workers : task[v] # Head(queue)
    BY <2>1 DEF IInv, TaskHasOnePlace
  <2>3. PoolTypeOK'
    BY <1>2, <2>1 DEF IInv, TypeOK, PoolTypeOK
  <2>4. PositionsTypeOK'
    BY DEF IInv, TypeOK, PositionsTypeOK, pool
  <2>5. TasksTypeOK'
    BY <1>2, <2>1, <2>2, NoneAssumption DEF IInv, TypeOK, PositionsTypeOK, TasksTypeOK
  <2>6. TaskHasOnePlace'
    BY <1>2, <2>1 DEF IInv, TypeOK, TasksTypeOK, TaskHasOnePlace, QueueLocked
  <2>7. Alive' /\ QuietMeans'
    BY <1>2, <2>1, NoneAssumption
       DEF IInv, TypeOK, PositionsTypeOK, TasksTypeOK, Alive, QuietMeans
  <2>8. Free' = Free
    BY <1>2 DEF IInv, TypeOK, PositionsTypeOK, TasksTypeOK, Free, pool, Busy
  <2>9. CountIsExact'
    BY <2>8, CountStays DEF IInv
  <2> QED
    BY <2>3, <2>4, <2>5, <2>6, <2>7, <2>9 DEF IInv, TypeOK
<1> QED
  BY <1>1, <1>2

\* None is no task of the queue's.
LEMMA NoneIsNotQueued ==
    ASSUME TypeOK
    PROVE  None \notin Range(queue)
<1>1. queue \in Seq(Clients)
  BY DEF TypeOK, PoolTypeOK
<1>2. \A i \in DOMAIN queue : queue[i] \in Clients
  BY <1>1
<1> QED
  BY <1>2, NoneAssumption DEF Range

LEMMA QuitsIsSafe ==
    ASSUME IInv, NEW w \in Workers, Quits(w)
    PROVE  IInv'
<1> USE DEF Quits, Moves, poolVars, historyVars
<1>1. PoolTypeOK'
  BY DEF IInv, TypeOK, PoolTypeOK
<1>2. PositionsTypeOK'
  BY DEF IInv, TypeOK, PositionsTypeOK, pool
<1>3. TasksTypeOK'
  BY DEF IInv, TypeOK, TasksTypeOK, PositionsTypeOK
<1>4. TaskHasOnePlace'
  BY NoneIsNotQueued, NoneAssumption DEF IInv, TypeOK, TasksTypeOK, TaskHasOnePlace
<1>5. Alive' /\ QuietMeans'
  BY DEF IInv, TypeOK, PositionsTypeOK, TasksTypeOK, Alive, QuietMeans
<1>6. Free' = Free
  BY DEF IInv, TypeOK, PositionsTypeOK, TasksTypeOK, Free, pool, Busy
<1>7. CountIsExact'
  BY <1>6, CountStays DEF IInv
<1> QED
  BY <1>1, <1>2, <1>3, <1>4, <1>5, <1>7 DEF IInv, TypeOK

-----------------------------------------------------------------------------
(* Workers: the steps that count *)

\* A worker that starts is one free thread less, and one that is done one more.
LEMMA CountMoves ==
    ASSUME TypeOK, CountIsExact, NEW m \in Int,
           Cardinality(Free') = Cardinality(Free) + m,
           freeThreads' = (freeThreads + m) % Word, thrown' = thrown
    PROVE  CountIsExact'
<1> DEFINE n == Cardinality(Free)
<1>1. n \in Int /\ thrown \in Int
  BY FreeIsFinite, WordIsPositive DEF TypeOK, PoolTypeOK
<1>2. freeThreads' = (((n - thrown) % Word) + m) % Word
  BY DEF CountIsExact, Free
<1>3. Cardinality(Free') = n + m
  OBVIOUS
<1> HIDE DEF n
<1>4. freeThreads' = ((n + m) - thrown) % Word
  BY <1>1, <1>2, WordIsPositive, CountUp
<1>5. freeThreads' = (Cardinality(Free') - thrown') % Word
  BY <1>3, <1>4
<1> QED
  BY <1>5 DEF CountIsExact, Free

LEMMA StartsIsSafe ==
    ASSUME IInv, NEW w \in Workers, Starts(w)
    PROVE  IInv'
<1> USE DEF Starts, Moves, historyVars
<1>0. freeThreads \in Int
  BY WordIsPositive DEF IInv, TypeOK, PoolTypeOK
<1>1. PoolTypeOK'
  <2>1. freeThreads' \in 0 .. Word - 1
    BY <1>0, WordIsPositive, ModRange
  <2> QED
    BY <2>1 DEF IInv, TypeOK, PoolTypeOK
<1>2. PositionsTypeOK'
  BY DEF IInv, TypeOK, PositionsTypeOK, pool
<1>3. TasksTypeOK'
  BY DEF IInv, TypeOK, TasksTypeOK, PositionsTypeOK
<1>4. TaskHasOnePlace'
  BY DEF IInv, TaskHasOnePlace
<1>5. Alive' /\ QuietMeans'
  BY DEF IInv, TypeOK, PositionsTypeOK, Alive, QuietMeans
<1>6. CountIsExact'
  <2>1. Free' = Free \ {w} /\ w \in Free
    BY DEF IInv, TypeOK, PositionsTypeOK, Free, pool, Busy
  <2>2. IsFiniteSet(Free) /\ Cardinality(Free) \in Nat
    BY FreeIsFinite DEF IInv
  <2>3. Cardinality(Free') = Cardinality(Free) - 1
    <3>1. Cardinality(Free \ {w}) = Cardinality(Free) - 1
      BY <2>1, <2>2, FS_RemoveElement
    <3> QED
      BY <2>1, <3>1
  <2>4. Cardinality(Free') = Cardinality(Free) + (-1) /\ freeThreads' = (freeThreads + (-1)) % Word
    BY <1>0, <2>2, <2>3
  <2> QED
    BY <2>4, CountMoves DEF IInv
<1> QED
  BY <1>1, <1>2, <1>3, <1>4, <1>5, <1>6 DEF IInv, TypeOK

LEMMA CompletedIsSafe ==
    ASSUME IInv, NEW w \in Workers, Completed(w)
    PROVE  IInv'
<1> USE DEF Completed, Moves, historyVars
<1>0. freeThreads \in Int
  BY WordIsPositive DEF IInv, TypeOK, PoolTypeOK
<1>1. PoolTypeOK'
  <2>1. freeThreads' \in 0 .. Word - 1
    BY <1>0, WordIsPositive, ModRange
  <2> QED
    BY <2>1 DEF IInv, TypeOK, PoolTypeOK
<1>2. PositionsTypeOK'
  BY DEF IInv, TypeOK, PositionsTypeOK, pool
<1>3. TasksTypeOK'
  BY DEF IInv, TypeOK, TasksTypeOK, PositionsTypeOK
<1>4. TaskHasOnePlace'
  BY NoneIsNotQueued, NoneAssumption DEF IInv, TypeOK, TasksTypeOK, TaskHasOnePlace
<1>5. Alive' /\ QuietMeans'
  BY DEF IInv, TypeOK, PositionsTypeOK, TasksTypeOK, Alive, QuietMeans
<1>6. CountIsExact'
  <2>1. Free' = Free \cup {w} /\ w \notin Free
    BY DEF IInv, TypeOK, PositionsTypeOK, TasksTypeOK, Free, pool, Busy
  <2>2. IsFiniteSet(Free) /\ Cardinality(Free) \in Nat
    BY FreeIsFinite DEF IInv
  <2>3. Cardinality(Free') = Cardinality(Free) + 1
    <3>1. Cardinality(Free \cup {w}) = Cardinality(Free) + 1
      BY <2>1, <2>2, FS_AddElement
    <3> QED
      BY <2>1, <3>1
  <2> QED
    BY <2>3, CountMoves DEF IInv
<1> QED
  BY <1>1, <1>2, <1>3, <1>4, <1>5, <1>6 DEF IInv, TypeOK

LEMMA StartedIsSafe ==
    ASSUME IInv, NEW w \in Workers, Started(w)
    PROVE  IInv'
<1> DEFINE old == [at EXCEPT ![w] = "running"]
           count == IF freeThreads = 0 /\ queue # <<>> THEN blockSize ELSE 0
<1>1. count \in Nat /\ AllocateThreads(old, freeThreads, count)
  BY PoolAssumption DEF Started
<1>2. /\ old \in [Workers -> {"none", "dequeuing", "waiting", "taken",
                             "starting", "running", "failing", "dead"}]
      /\ \A v \in Workers : \/ old[v] = at[v]
                            \/ at[v] = "starting" /\ old[v] = "running"
      /\ client' = client
      /\ client \in [Clients -> {"idle", "allocating", "pushing"}]
  BY DEF Started, IInv, TypeOK, PositionsTypeOK
<1>3. ~quiet
  BY DEF Started, IInv, QuietMeans
<1>4. /\ queue' = queue /\ shutdown' = shutdown /\ task' = task
      /\ stopped' = stopped /\ dtor' = dtor /\ thrown' = thrown /\ quiet' = quiet
  BY DEF Started
<1> HIDE DEF old, count
<1>5. PICK new \in SUBSET {v \in Workers : old[v] = "none"} :
              /\ IsFiniteSet(new) /\ Cardinality(new) \in Nat
              /\ at' = [v \in Workers |-> IF v \in new THEN "dequeuing" ELSE old[v]]
              /\ freeThreads' = (freeThreads + Cardinality(new)) % Word
              /\ undefined' = (undefined \/ (dtor # "none" /\ new # {}))
  BY <1>1, Allocates
<1> QED
  BY <1>2, <1>3, <1>4, <1>5, GrowthIsSafe

\* A worker that ends with an exception: what the count is after it, whether
\* onTaskStarted has counted the worker out before or not.
LEMMA CountFails ==
    ASSUME TypeOK, CountIsExact, NEW w \in Workers, at[w] = "failing",
           NEW new, IsFiniteSet(new), Cardinality(new) \in Nat,
           Free' = (Free \ {w}) \cup new, (Free \ {w}) \cap new = {},
           w \in Free <=> task[w] = None,
           freeThreads' = (((freeThreads - 1) % Word) + Cardinality(new)) % Word,
           thrown' = IF task[w] # None THEN (thrown + 1) % Word ELSE thrown
    PROVE  CountIsExact'
<1> DEFINE rest == Free \ {w}
           m == Cardinality(new)
           k == Cardinality(rest)
<1>1. IsFiniteSet(Free) /\ Cardinality(Free) \in Nat /\ thrown \in Int
  BY FreeIsFinite, WordIsPositive DEF TypeOK, PoolTypeOK
<1>2. IsFiniteSet(rest)
  <2>1. rest \in SUBSET Free
    OBVIOUS
  <2> QED
    BY <1>1, <2>1, FS_Subset
<1>3. k \in Int /\ m \in Int
  BY <1>2, FS_CardinalityType
<1>4. Cardinality(Free') = k + m
  <2>1. Cardinality(rest \cap new) = 0
    BY FS_EmptySet
  <2>2. Cardinality(rest \cup new) = Cardinality(rest) + Cardinality(new)
                                       - Cardinality(rest \cap new)
    <3> HIDE DEF rest
    <3> QED
      BY <1>2, FS_Union
  <2> QED
    BY <1>3, <2>1, <2>2
<1>5. freeThreads = (Cardinality(Free) - thrown) % Word
  BY DEF CountIsExact, Free
<1>6. freeThreads' = (Cardinality(Free') - thrown') % Word
  <2>1. CASE task[w] # None
    <3>1. Free \ {w} = Free
      BY <2>1
    <3>2. freeThreads' = (((((k - thrown) % Word) - 1) % Word) + m) % Word
      BY <1>5, <3>1
    <3> HIDE DEF k, m
    <3>3. freeThreads' = ((k + m) - ((thrown + 1) % Word)) % Word
      BY <1>1, <1>3, <3>2, WordIsPositive, CountOut
    <3>4. thrown' = (thrown + 1) % Word
      BY <2>1
    <3> QED
      BY <1>4, <3>3, <3>4
  <2>2. CASE task[w] = None
    <3> DEFINE n == Cardinality(Free)
    <3>1. n \in Int
      BY <1>1
    <3>2. k = n - 1
      BY <1>1, <2>2, FS_RemoveElement
    <3>3. freeThreads' = (((((n - thrown) % Word) - 1) % Word) + m) % Word
      BY <1>5
    <3> HIDE DEF k, m, n
    <3>4. (((n - thrown) % Word) + (-1)) % Word = ((n + (-1)) - thrown) % Word
      BY <1>1, <3>1, WordIsPositive, CountUp
    <3> DEFINE a == (n - thrown) % Word
    <3>5. a \in Int
      <4>1. n - thrown \in Int
        BY <1>1, <3>1
      <4> QED
        BY <4>1, WordIsPositive, ModRange
    <3>6. (a - 1) % Word = (k - thrown) % Word
      <4>1. n + (-1) = k
        BY <3>1, <3>2
      <4>2. (a + (-1)) % Word = (k - thrown) % Word
        BY <3>4, <4>1
      <4> HIDE DEF a
      <4>3. a + (-1) = a - 1
        BY <3>5
      <4> QED
        BY <4>2, <4>3
    <3>7. freeThreads' = (((k - thrown) % Word) + m) % Word
      BY <3>3, <3>6
    <3>8. freeThreads' = ((k + m) - thrown) % Word
      BY <1>1, <1>3, <3>7, WordIsPositive, CountUp
    <3>9. thrown' = thrown
      BY <2>2
    <3> QED
      BY <1>4, <3>8, <3>9
  <2> QED
    BY <2>1, <2>2
<1> QED
  BY <1>6 DEF CountIsExact, Free

LEMMA FailedIsSafe ==
    ASSUME IInv, NEW w \in Workers, Failed(w)
    PROVE  IInv'
<1> DEFINE old == [at EXCEPT ![w] = "none"]
           free == (freeThreads - 1) % Word
<1>1. free \in Int
  BY WordIsPositive, ModRange DEF IInv, TypeOK, PoolTypeOK
<1>2. PICK new \in SUBSET {v \in Workers : old[v] = "none"} :
              /\ IsFiniteSet(new) /\ Cardinality(new) \in Nat
              /\ at' = [v \in Workers |-> IF v \in new THEN "dequeuing" ELSE old[v]]
              /\ freeThreads' = (free + Cardinality(new)) % Word
              /\ undefined' = (undefined \/ (dtor # "none" /\ new # {}))
  <2>1. AllocateThreads(old, free, 1)
    BY DEF Failed
  <2> HIDE DEF old, free
  <2> QED
    BY <2>1, Allocates
<1>3. /\ at[w] = "failing" /\ task' = [task EXCEPT ![w] = None]
      /\ stopped' = stopped \ {w}
      /\ thrown' = IF task[w] # None THEN (thrown + 1) % Word ELSE thrown
      /\ UNCHANGED <<queue, shutdown, client, dtor, quiet>>
  BY DEF Failed
<1>4. PoolTypeOK'
  <2>1. freeThreads' \in 0 .. Word - 1
    <3>1. free + Cardinality(new) \in Int
      <4> HIDE DEF free
      <4> QED
        BY <1>1, <1>2
    <3> HIDE DEF free
    <3> QED
      BY <1>2, <3>1, WordIsPositive, ModRange
  <2>2. thrown' \in 0 .. Word - 1
    <3>1. thrown \in 0 .. Word - 1 /\ thrown + 1 \in Int
      BY WordIsPositive DEF IInv, TypeOK, PoolTypeOK
    <3> QED
      BY <1>3, <3>1, WordIsPositive, ModRange
  <2>3. undefined' \in BOOLEAN
    BY <1>2 DEF IInv, TypeOK, PoolTypeOK
  <2> QED
    BY <1>3, <2>1, <2>2, <2>3 DEF IInv, TypeOK, PoolTypeOK
<1>5. /\ \A v \in Workers : at'[v] = IF v \in new THEN "dequeuing"
                                     ELSE IF v = w THEN "none" ELSE at[v]
      /\ \A v \in new : v = w \/ at[v] = "none"
      /\ \A v \in Workers : task'[v] = IF v = w THEN None ELSE task[v]
  BY <1>2, <1>3 DEF IInv, TypeOK, PositionsTypeOK, TasksTypeOK
<1>6. PositionsTypeOK'
  BY <1>2, <1>3, <1>5 DEF IInv, TypeOK, PositionsTypeOK, pool
<1>7. TasksTypeOK'
  BY <1>3, <1>5 DEF IInv, TypeOK, TasksTypeOK
<1>8. TaskHasOnePlace'
  BY <1>3, <1>5, NoneIsNotQueued, NoneAssumption
     DEF IInv, TypeOK, TasksTypeOK, TaskHasOnePlace
<1>9. Alive'
  BY <1>2, <1>3, <1>5 DEF IInv, Alive
<1>10. QuietMeans'
  BY <1>3 DEF IInv, QuietMeans
<1>11. CountIsExact'
  <2>1. /\ Free' = (Free \ {w}) \cup new
        /\ (Free \ {w}) \cap new = {}
        /\ w \in Free <=> task[w] = None
    BY <1>3, <1>5 DEF Free, pool, Busy
  <2> QED
    BY <1>2, <1>3, <2>1, CountFails DEF IInv
<1> QED
  BY <1>4, <1>6, <1>7, <1>8, <1>9, <1>10, <1>11 DEF IInv, TypeOK

-----------------------------------------------------------------------------
(* ~ThreadPool *)

LEMMA StopAllIsSafe ==
    ASSUME IInv, StopAll
    PROVE  IInv'
<1> USE DEF StopAll, poolVars
<1>1. PoolTypeOK'
  BY DEF IInv, TypeOK, PoolTypeOK
<1>2. PositionsTypeOK' /\ TasksTypeOK'
  BY DEF IInv, TypeOK, PositionsTypeOK, TasksTypeOK, pool
<1>3. TaskHasOnePlace' /\ Alive'
  BY DEF IInv, TaskHasOnePlace, Alive
<1>4. QuietMeans'
  BY DEF IInv, TypeOK, PositionsTypeOK, Alive, QuietMeans, QueueLocked, pool
<1>5. Free' = Free
  BY DEF Free, pool, Busy
<1>6. CountIsExact'
  BY <1>5, CountStays DEF IInv
<1> QED
  BY <1>1, <1>2, <1>3, <1>4, <1>6 DEF IInv, TypeOK

LEMMA DestroyingIsSafe ==
    ASSUME IInv, Destroying
    PROVE  IInv'
<1> USE DEF Destroying, ShutDown, NotifyAll, JoinAll, poolVars, historyVars
<1>0. \/ at' = at
      \/ at' = [w \in Workers |-> IF at[w] = "waiting" THEN "dequeuing" ELSE at[w]]
  OBVIOUS
<1>1. PoolTypeOK'
  BY DEF IInv, TypeOK, PoolTypeOK
<1>2. PositionsTypeOK' /\ TasksTypeOK'
  BY DEF IInv, TypeOK, PositionsTypeOK, TasksTypeOK, pool
<1>3. TaskHasOnePlace' /\ Alive'
  BY DEF IInv, TaskHasOnePlace, Alive
<1>4. QuietMeans'
  BY DEF IInv, QuietMeans
<1>5. Free' = Free
  BY <1>0 DEF Free, pool, Busy
<1>6. CountIsExact'
  BY <1>5, CountStays DEF IInv
<1> QED
  BY <1>1, <1>2, <1>3, <1>4, <1>6 DEF IInv, TypeOK

-----------------------------------------------------------------------------
(* The invariant *)

LEMMA InitEstablishes == Init => IInv
<1> SUFFICES ASSUME Init PROVE IInv
  OBVIOUS
<1> USE DEF Init
<1>1. TypeOK
  <2>1. <<>> \in Seq(Clients) /\ DOMAIN <<>> = {}
    OBVIOUS
  <2>2. IsInjective(queue)
    BY <2>1 DEF IsInjective
  <2>3. 0 \in 0 .. Word - 1
    BY WordIsPositive
  <2>4. PoolTypeOK
    BY <2>1, <2>2, <2>3 DEF PoolTypeOK
  <2>5. PositionsTypeOK /\ TasksTypeOK
    BY DEF PositionsTypeOK, TasksTypeOK, pool
  <2> QED
    BY <2>4, <2>5 DEF TypeOK
<1>2. TaskHasOnePlace /\ Alive /\ QuietMeans
  BY DEF TaskHasOnePlace, Alive, QuietMeans, Range
<1>3. CountIsExact
  <2>1. Free = {}
    BY DEF Free, pool
  <2>2. Cardinality(Free) = 0
    BY <2>1, FS_EmptySet
  <2>3. (0 - 0) % Word = 0
    BY WordIsPositive
  <2>4. freeThreads = (Cardinality(Free) - thrown) % Word
    BY <2>2, <2>3
  <2> QED
    BY <2>4 DEF CountIsExact, Free
<1> QED
  BY <1>1, <1>2, <1>3 DEF IInv

LEMMA StepPreserves == IInv /\ [Next]_vars => IInv'
<1> SUFFICES ASSUME IInv, [Next]_vars PROVE IInv'
  OBVIOUS
<1>1. ASSUME NEW c \in Clients, QueueTask(c) \/ Calling(c)
      PROVE  IInv'
  BY <1>1, QueueTaskIsSafe, AllocateIsSafe, PushIsSafe DEF Calling
<1>2. ASSUME NEW size \in 1 .. maxThreads, reserve(size)
      PROVE  IInv'
  BY <1>2, ReserveIsSafe
<1>3. ASSUME NEW w \in Workers, Running(w)
      PROVE  IInv'
  BY <1>3, WaitsIsSafe, TakesIsSafe, QuitsIsSafe, NullTaskIsSafe, StartsIsSafe,
     StartedIsSafe, CompletedIsSafe, TaskThrowsIsSafe, FailedIsSafe DEF Running
<1>4. CASE StopAll \/ Destroying
  BY <1>4, StopAllIsSafe, DestroyingIsSafe
<1>5. CASE UNCHANGED vars
  <2>1. TypeOK' /\ TaskHasOnePlace' /\ Alive' /\ QuietMeans'
    BY <1>5 DEF vars, poolVars, threadVars, historyVars, IInv, TypeOK, PoolTypeOK,
       PositionsTypeOK, TasksTypeOK, TaskHasOnePlace, Alive, QuietMeans, pool
  <2>2. Free' = Free
    BY <1>5 DEF vars, threadVars, Free, pool, Busy
  <2>3. CountIsExact'
    BY <1>5, <2>2, CountStays DEF IInv, vars, poolVars, historyVars
  <2> QED
    BY <2>1, <2>3 DEF IInv
<1> QED
  BY <1>1, <1>2, <1>3, <1>4, <1>5 DEF Next

LEMMA Inductive == Spec => []IInv
BY InitEstablishes, StepPreserves, PTL DEF Spec

\* queue, freeThreads, the positions of clients and workers and their tasks
\* stay in their ranges: a task is never in the queue twice, or with two threads.
THEOREM TypeCorrect == Spec => []TypeOK
<1>1. IInv => TypeOK
  BY DEF IInv
<1> QED
  BY <1>1, Inductive, PTL

\* freeThreads is the number of threads without a task, less one for each task
\* that ended with an exception, for any number of clients and threads, any
\* block size and any width of size_t.
THEOREM CountStaysExact == Spec => []CountIsExact
<1>1. IInv => CountIsExact
  BY DEF IInv
<1> QED
  BY <1>1, Inductive, PTL

\* Nobody grows the pool under the iterator of ~ThreadPool when the pool is
\* destroyed after its last task.
THEOREM QuietDestruction == Spec => []QuietShutdown
<1>1. IInv => QuietShutdown
  BY DEF IInv, QuietMeans, QuietShutdown
<1> QED
  BY <1>1, Inductive, PTL
-----------------------------------------------------------------------------
(* The sessions of a template. *)

\* The sequence has the element.
In(x, q) == \E i \in 1..Len(q) : q[i] = x

AllPooled == UNION {pooled[m] : m \in AckModes}

\* Only the innermost call is anywhere else than in its callback.
Stacked ==
    /\ \A i \in 1..Len(calls) : i # Len(calls) => calls[i].at = "callback"
    /\ \A i \in 1..Len(calls) :
          /\ calls[i].at \in {"connecting", "taking"} => calls[i].session = Cms!NoSession
          /\ calls[i].session <= created.sessions
          /\ calls[i].at = "creating" => Cms!Alive(calls[i].session) /\ calls[i].for.kind # "session"
          /\ calls[i].at = "taking" => connection # 0

\* Pools live and die with the connection, and their sessions are managed.
Pooling ==
    /\ pools <=> connection # 0
    /\ connection = 0 => AllPooled = {}
    /\ \A s \in AllPooled : s \in 1..created.sessions /\ s \in managed.sessions
    /\ resolved \subseteq managed.destinations

\* A session no callback has closed is available, or held by one call.
Owned ==
    \A m \in AckModes :
        /\ \A i, j \in 1..Len(available[m]) :
              available[m][i] = available[m][j] => i = j \/ available[m][i] \in returned
        /\ \A i \in 1..Len(available[m]) : available[m][i] \in pooled[m]
        /\ \A s \in pooled[m] :
              /\ s \notin returned =>
                    IF In(s, available[m]) THEN Cms!Holders(s) = {}
                    ELSE \E i \in 1..Len(calls) : Cms!Holders(s) = {i}
              /\ \A n \in AckModes \ {m} : s \notin pooled[n]

\* Until a callback goes on after a failure, callbacks have their sessions;
\* while a failure is on its way up there are none.
Living ==
    ~handled /\ calls # <<>> =>
        IF Cms!Top.at = "caught"
        THEN connection = 0
        ELSE \A i \in 1..Len(calls) : calls[i].at = "callback" => Cms!Alive(calls[i].session)

\* What the steps keep.
Held == Cms!TypeOK /\ Stacked /\ Pooling /\ Owned /\ Living /\ Cms!NothingStale

\* The inductive invariant.  The assumptions are part of it, as every step needs them.
TemplateInv == Cms!BoundsAssumption /\ Cms!RequestsAssumption /\ Held

LEMMA Bounds ==
    ASSUME TemplateInv
    PROVE  MaxDepth \in Nat /\ MaxSessions \in Nat /\ MaxConnections \in Nat
  BY DEF TemplateInv, Cms!BoundsAssumption

-----------------------------------------------------------------------------
LEMMA StackIs ==
    ASSUME Cms!TypeOK, calls # <<>>
    PROVE  /\ Len(calls) \in Nat \ {0} /\ Cms!Top \in Cms!Frames /\ Cms!Top = calls[Len(calls)]
           /\ Cms!Below \in Seq(Cms!Frames) /\ Len(Cms!Below) = Len(calls) - 1
           /\ \A i \in 1..(Len(calls) - 1) : Cms!Below[i] = calls[i]
<1>1. calls \in Seq(Cms!Frames)
  BY DEF Cms!TypeOK
<1>2. Len(calls) \in Nat \ {0} /\ \A i \in 1..Len(calls) : calls[i] \in Cms!Frames
  BY <1>1, EmptySeq, ElementOfSeq
<1>3. Cms!Top \in Cms!Frames
  BY <1>2 DEF Cms!Top
<1>4. /\ Cms!Below \in Seq(Cms!Frames) /\ Len(Cms!Below) = Len(calls) - 1
      /\ \A i \in 1..(Len(calls) - 1) : Cms!Below[i] = calls[i]
  <2> DEFINE n == Len(calls) - 1
  <2>1. n \in Nat /\ 1..n \subseteq 1..Len(calls)
    BY <1>2
  <2>2. \A i \in 1..n : calls[i] \in Cms!Frames
    BY <1>2, <2>1
  <2>3. Cms!Below = [i \in 1..n |-> calls[i]]
    BY <1>1, <1>2 DEF Cms!Below
  <2> HIDE DEF n
  <2>4. Cms!Below \in [1..n -> Cms!Frames]
    BY <2>2, <2>3
  <2>5. Cms!Below \in Seq(Cms!Frames) /\ Len(Cms!Below) = n
    BY <2>1, <2>4, IsASeq
  <2> QED
    BY <2>3, <2>5 DEF n
<1> QED
  BY <1>2, <1>3, <1>4 DEF Cms!Top

LEMMA Advanced ==
    ASSUME Cms!TypeOK, calls # <<>>, NEW f \in Cms!Frames, Cms!Advance(f)
    PROVE  /\ calls' \in Seq(Cms!Frames) /\ Len(calls') = Len(calls)
           /\ calls'[Len(calls)] = f
           /\ \A i \in 1..(Len(calls) - 1) : calls'[i] = calls[i]
<1>1. /\ Len(calls) \in Nat \ {0} /\ Cms!Below \in Seq(Cms!Frames) /\ Len(Cms!Below) = Len(calls) - 1
      /\ \A i \in 1..(Len(calls) - 1) : Cms!Below[i] = calls[i]
  BY StackIs
<1>2. calls' = Append(Cms!Below, f)
  BY DEF Cms!Advance
<1>3. /\ calls' \in Seq(Cms!Frames) /\ Len(calls') = Len(Cms!Below) + 1
      /\ \A i \in 1..Len(Cms!Below) : calls'[i] = Cms!Below[i]
      /\ calls'[Len(Cms!Below) + 1] = f
  BY <1>1, <1>2, AppendProperties
<1> QED
  BY <1>1, <1>3

LEMMA Thrown ==
    ASSUME Cms!TypeOK, Stacked, calls # <<>>, Cms!Throw
    PROVE  /\ calls' \in Seq(Cms!Frames) /\ Len(calls') = Len(calls) - 1
           /\ \A i \in 1..Len(calls') :
                 calls'[i] = [calls[i] EXCEPT !.at = IF i = Len(calls') THEN "caught" ELSE @]
<1>1. /\ Len(calls) \in Nat \ {0} /\ Cms!Below \in Seq(Cms!Frames) /\ Len(Cms!Below) = Len(calls) - 1
      /\ \A i \in 1..(Len(calls) - 1) : Cms!Below[i] = calls[i]
  BY StackIs
<1> DEFINE n == Len(Cms!Below)
<1>2. calls' = [i \in 1..n |-> IF i = n THEN [Cms!Below[i] EXCEPT !.at = "caught"] ELSE Cms!Below[i]]
  BY DEF Cms!Throw
<1>3. n \in Nat /\ \A i \in 1..n : Cms!Below[i] \in Cms!Frames
  BY <1>1, ElementOfSeq
<1>4. \A i \in 1..n : [Cms!Below[i] EXCEPT !.at = "caught"] \in Cms!Frames
  BY <1>3 DEF Cms!Frames
<1> HIDE DEF n
<1>5. calls' \in [1..n -> Cms!Frames]
  BY <1>2, <1>3, <1>4
<1>6. calls' \in Seq(Cms!Frames) /\ Len(calls') = n
  BY <1>3, <1>5, IsASeq
<1>7. n = Len(calls) - 1
  BY <1>1 DEF n
<1>8. ASSUME NEW i \in 1..n
      PROVE  calls'[i] = [calls[i] EXCEPT !.at = IF i = n THEN "caught" ELSE @]
  <2>1. Cms!Below[i] = calls[i] /\ calls[i] \in Cms!Frames
    BY <1>1, <1>3, <1>7
  <2>2. calls'[i] = IF i = n THEN [calls[i] EXCEPT !.at = "caught"] ELSE calls[i]
    BY <1>2, <2>1
  <2>3. calls[i] = [calls[i] EXCEPT !.at = calls[i].at]
    BY <2>1 DEF Cms!Frames
  <2> QED
    BY <2>2, <2>3
<1> QED
  BY <1>6, <1>7, <1>8

\* Who holds a session, when the calls are as before but for their positions.
LEMMA SameHolders ==
    ASSUME Len(calls') = Len(calls),
           \A i \in 1..Len(calls) : calls'[i].session = calls[i].session
    PROVE  \A s : Cms!Holders(s)' = Cms!Holders(s)
  BY DEF Cms!Holders

LEMMA OwnedKept ==
    ASSUME Owned, Len(calls') = Len(calls),
           \A i \in 1..Len(calls) : calls'[i].session = calls[i].session,
           UNCHANGED <<available, pooled, returned>>
    PROVE  Owned'
<1>1. \A s : Cms!Holders(s)' = Cms!Holders(s)
  BY SameHolders
<1>2. available' = available /\ pooled' = pooled /\ Len(calls') = Len(calls)
  OBVIOUS
<1> QED
  BY <1>1, <1>2 DEF Owned, In

\* A call that stays at its session only moves on.
LEMMA Moved ==
    ASSUME Cms!TypeOK, calls # <<>>, NEW f \in Cms!Frames, Cms!Advance(f), f.session = Cms!Top.session
    PROVE  /\ calls' \in Seq(Cms!Frames) /\ Len(calls') = Len(calls) /\ calls' # <<>>
           /\ Len(calls) \in Nat \ {0} /\ Cms!Top' = f
           /\ calls'[Len(calls)] = f /\ Cms!Top = calls[Len(calls)]
           /\ \A i \in 1..Len(calls) : i # Len(calls) => calls'[i] = calls[i]
           /\ \A i \in 1..Len(calls) : calls'[i].session = calls[i].session
<1>1. /\ Len(calls) \in Nat \ {0} /\ Cms!Top = calls[Len(calls)]
  BY StackIs
<1>2. /\ calls' \in Seq(Cms!Frames) /\ Len(calls') = Len(calls)
      /\ calls'[Len(calls)] = f
      /\ \A i \in 1..(Len(calls) - 1) : calls'[i] = calls[i]
  BY Advanced
<1>3. calls' # <<>>
  BY <1>1, <1>2, EmptySeq
<1>4. \A i \in 1..Len(calls) : i # Len(calls) => i \in 1..(Len(calls) - 1)
  BY <1>1
<1>5. Cms!Top' = f
  BY <1>2 DEF Cms!Top
<1> QED
  BY <1>1, <1>2, <1>3, <1>4, <1>5

\* Whatever throws, the call below is all that is left, with nothing to use.
LEMMA ThrowKeeps ==
    ASSUME TemplateInv, calls # <<>>, ~undefined, Cms!Throw,
           created' \in [sessions : 0..MaxSessions, connections : 0..MaxConnections],
           created'.sessions = created.sessions
    PROVE  Held'
<1>1. Cms!TypeOK /\ Stacked /\ Pooling /\ Owned /\ Living /\ Cms!NothingStale
  BY DEF TemplateInv, Held
<1>2. /\ calls' \in Seq(Cms!Frames) /\ Len(calls') = Len(calls) - 1
      /\ \A i \in 1..Len(calls') :
            calls'[i] = [calls[i] EXCEPT !.at = IF i = Len(calls') THEN "caught" ELSE @]
  BY <1>1, Thrown
<1>3. Len(calls) \in Nat \ {0} /\ \A i \in 1..Len(calls) : calls[i] \in Cms!Frames
  <2>1. calls \in Seq(Cms!Frames) /\ Len(calls) \in Nat \ {0}
    BY <1>1, StackIs DEF Cms!TypeOK
  <2> QED
    BY <2>1, ElementOfSeq
<1>4. \A i \in 1..Len(calls') :
         /\ i \in 1..Len(calls) /\ calls[i].at = "callback"
         /\ calls'[i].session = calls[i].session /\ calls'[i].for = calls[i].for
         /\ calls'[i].at = IF i = Len(calls') THEN "caught" ELSE "callback"
  <2> SUFFICES ASSUME NEW i \in 1..Len(calls')
      PROVE  /\ i \in 1..Len(calls) /\ calls[i].at = "callback"
             /\ calls'[i].session = calls[i].session /\ calls'[i].for = calls[i].for
             /\ calls'[i].at = IF i = Len(calls') THEN "caught" ELSE "callback"
    OBVIOUS
  <2>1. i \in 1..Len(calls) /\ i # Len(calls) /\ calls[i] \in Cms!Frames
    BY <1>2, <1>3
  <2>2. calls[i].at = "callback"
    BY <1>1, <2>1 DEF Stacked
  <2> QED
    BY <1>2, <2>1, <2>2 DEF Cms!Frames
<1>5. /\ initialized' = FALSE /\ connection' = 0 /\ defaultDestination' = Cms!NoDefault
      /\ pools' = FALSE /\ pooled' = [m \in AckModes |-> {}]
      /\ available' = [m \in AckModes |-> <<>>] /\ cache' = {} /\ resolved' = {}
      /\ managed' = [sessions |-> {}, destinations |-> {}] /\ returned' = {}
      /\ UNCHANGED <<Cms!settingVars, undefined>>
  BY DEF Cms!Throw, Cms!Destroy, Cms!DestroySessionPools
<1>6. 0 \in 0..MaxConnections /\ MaxDepth \in Nat
  BY Bounds
<1>7. \A m \in AckModes : pooled'[m] = {} /\ available'[m] = <<>>
  BY <1>5
<1>8. Cms!TypeOK'
  <2>1. pooled' \in [AckModes -> SUBSET (1..MaxSessions)]
    BY <1>5
  <2>2. available' \in [AckModes -> Seq(1..MaxSessions)]
    BY <1>5, EmptySeq
  <2>3. Len(calls') <= MaxDepth
    BY <1>1, <1>2, <1>3, <1>6 DEF Cms!TypeOK
  <2>4. defaultDestinationName' \in Names \cup {Cms!None} /\ pubSubDomain' \in BOOLEAN /\ ackMode' \in AckModes
        /\ undefined' \in BOOLEAN
    BY <1>1, <1>5, Zenon DEF Cms!TypeOK, Cms!settingVars
  <2>5. handled' \in BOOLEAN
    BY Zenon DEF Cms!Throw
  <2> QED
    BY <1>2, <1>5, <1>6, <2>1, <2>2, <2>3, <2>4, <2>5 DEF Cms!TypeOK
<1>9. Stacked'
  <2>1. \A i \in 1..Len(calls') : calls'[i].session <= created'.sessions
    BY <1>1, <1>4 DEF Stacked
  <2> QED
    BY <1>4, <2>1 DEF Stacked
<1>10. Pooling'
  BY <1>5, <1>7 DEF Pooling, AllPooled
<1>11. Owned'
  BY <1>7, EmptySeq DEF Owned
<1>12. Living'
  <2>1. calls' # <<>> => Len(calls') \in 1..Len(calls')
    BY <1>2, EmptySeq
  <2> QED
    BY <1>4, <1>5, <2>1 DEF Living, Cms!Top
<1>13. Cms!NothingStale'
  BY <1>1, <1>5 DEF Cms!NothingStale, Cms!NoDefault, Cms!None
<1> QED
  BY <1>8, <1>9, <1>10, <1>11, <1>12, <1>13 DEF Held

LEMMA ThrowsKeep ==
    ASSUME TemplateInv, Cms!ThrowInCall \/ Cms!StartThrows \/ Cms!PassOn
    PROVE  Held'
<1>0. created \in [sessions : 0..MaxSessions, connections : 0..MaxConnections]
  BY DEF TemplateInv, Held, Cms!TypeOK
<1>1. calls # <<>> /\ ~undefined /\ Cms!Throw
  BY DEF Cms!ThrowInCall, Cms!StartThrows, Cms!PassOn, Cms!TopAt
<1>2. /\ created' \in [sessions : 0..MaxSessions, connections : 0..MaxConnections]
      /\ created'.sessions = created.sessions
  <2>1. CASE created' = created
    BY <1>0, <2>1
  <2>2. CASE Cms!StartThrows
    <3>1. created.connections < MaxConnections /\ MaxConnections \in Nat
          /\ created' = [created EXCEPT !.connections = @ + 1]
      BY <2>2, Bounds DEF Cms!StartThrows
    <3> QED
      BY <1>0, <3>1
  <2> QED
    BY <2>1, <2>2 DEF Cms!ThrowInCall, Cms!PassOn
<1> QED
  BY <1>1, <1>2, ThrowKeeps

\* A call that moves on with its session, while the pools stay as they are.
LEMMA MoveKeeps ==
    ASSUME TemplateInv, calls # <<>>, NEW f \in Cms!Frames, Cms!Advance(f), f.session = Cms!Top.session,
           f.at \in {"taking", "callback"}, f.at = "taking" => Cms!Top.at = "connecting" /\ connection # 0,
           f.at = "callback" => handled' \/ Cms!Alive(f.session),
           UNCHANGED <<initialized, connection, pools, pooled, available, Cms!settingVars,
                       created, returned, undefined>>,
           managed'.sessions = managed.sessions,
           handled' = TRUE \/ (handled' = handled /\ Cms!Top.at # "caught")
    PROVE  /\ calls' \in Seq(Cms!Frames) /\ Len(calls') = Len(calls)
           /\ Stacked' /\ Owned' /\ Living' /\ AllPooled' = AllPooled
<1>1. Cms!TypeOK /\ Stacked /\ Pooling /\ Owned /\ Living /\ Cms!NothingStale
  BY DEF TemplateInv, Held
<1>2. /\ calls' \in Seq(Cms!Frames) /\ Len(calls') = Len(calls) /\ calls' # <<>>
      /\ Len(calls) \in Nat \ {0} /\ Cms!Top' = f
      /\ calls'[Len(calls)] = f /\ Cms!Top = calls[Len(calls)]
      /\ \A i \in 1..Len(calls) : i # Len(calls) => calls'[i] = calls[i]
      /\ \A i \in 1..Len(calls) : calls'[i].session = calls[i].session
  BY <1>1, Moved
<1>3. Owned'
  BY <1>1, <1>2, OwnedKept
<1>4. AllPooled' = AllPooled /\ \A s : Cms!Alive(s)' <=> Cms!Alive(s)
  BY DEF AllPooled, Cms!Alive
<1>5. Stacked'
  <2> SUFFICES ASSUME NEW i \in 1..Len(calls)
      PROVE  /\ i # Len(calls) => calls'[i].at = "callback"
             /\ calls'[i].at \in {"connecting", "taking"} => calls'[i].session = Cms!NoSession
             /\ calls'[i].session <= created.sessions
             /\ calls'[i].at = "creating" => Cms!Alive(calls'[i].session) /\ calls'[i].for.kind # "session"
             /\ calls'[i].at = "taking" => connection # 0
    BY <1>2, <1>4 DEF Stacked, Cms!NoSession
  <2>1. CASE i # Len(calls)
    BY <1>1, <1>2, <2>1 DEF Stacked
  <2>2. CASE i = Len(calls)
    BY <1>1, <1>2, <2>2 DEF Stacked
  <2> QED
    BY <2>1, <2>2
<1>6. Living'
  <2> SUFFICES ASSUME ~handled',
                      NEW i \in 1..Len(calls), calls'[i].at = "callback"
               PROVE  Cms!Alive(calls'[i].session)
    BY <1>2, <1>4 DEF Living
  <2>1. CASE i = Len(calls)
    BY <1>2, <2>1
  <2>2. CASE i # Len(calls)
    BY <1>1, <1>2, <2>2 DEF Living
  <2> QED
    BY <2>1, <2>2
<1> QED
  BY <1>2, <1>3, <1>4, <1>5, <1>6

LEMMA HandleKeeps ==
    ASSUME TemplateInv, Cms!Handle
    PROVE  Held'
<1>1. Cms!TypeOK /\ Stacked /\ Pooling /\ Owned /\ Living /\ Cms!NothingStale
  BY DEF TemplateInv, Held
<1>2. calls # <<>> /\ Cms!Top \in Cms!Frames /\ Cms!Top.at = "caught"
  BY <1>1, StackIs DEF Cms!Handle, Cms!TopAt
<1> DEFINE f == [Cms!Top EXCEPT !.at = "callback"]
<1>3. f \in Cms!Frames /\ f.session = Cms!Top.session /\ f.at = "callback"
  BY <1>2 DEF Cms!Frames
<1>4. Cms!Advance(f) /\ handled' = TRUE /\ UNCHANGED <<Cms!resourceVars, Cms!settingVars, created, returned, undefined>>
  BY DEF Cms!Handle
<1> HIDE DEF f
<1>5. /\ calls' \in Seq(Cms!Frames) /\ Len(calls') = Len(calls)
      /\ Stacked' /\ Owned' /\ Living' /\ AllPooled' = AllPooled
  BY <1>2, <1>3, <1>4, MoveKeeps DEF Cms!resourceVars
<1>6. Cms!TypeOK'
  BY <1>1, <1>4, <1>5 DEF Cms!TypeOK, Cms!resourceVars, Cms!settingVars
<1>7. Pooling'
  BY <1>1, <1>4, <1>5 DEF Pooling, Cms!resourceVars
<1>8. Cms!NothingStale'
  BY <1>1, <1>4 DEF Cms!NothingStale, Cms!Named, Cms!resourceVars, Cms!settingVars
<1> QED
  BY <1>5, <1>6, <1>7, <1>8 DEF Held

LEMMA HaveConnectionKeeps ==
    ASSUME TemplateInv, Cms!HaveConnection
    PROVE  Held'
<1>1. Cms!TypeOK /\ Stacked /\ Pooling /\ Owned /\ Living /\ Cms!NothingStale
  BY DEF TemplateInv, Held
<1>2. calls # <<>> /\ Cms!Top \in Cms!Frames /\ Cms!Top.at = "connecting" /\ connection # 0
  BY <1>1, StackIs DEF Cms!HaveConnection, Cms!TopAt
<1> DEFINE f == [Cms!Top EXCEPT !.at = "taking"]
<1>3. f \in Cms!Frames /\ f.session = Cms!Top.session /\ f.at = "taking"
  BY <1>2 DEF Cms!Frames
<1>4. Cms!Advance(f) /\ UNCHANGED <<Cms!resourceVars, Cms!settingVars, created, handled, returned, undefined>>
  BY DEF Cms!HaveConnection
<1> HIDE DEF f
<1>5. /\ calls' \in Seq(Cms!Frames) /\ Len(calls') = Len(calls)
      /\ Stacked' /\ Owned' /\ Living' /\ AllPooled' = AllPooled
  BY <1>2, <1>3, <1>4, MoveKeeps DEF Cms!resourceVars
<1>6. Cms!TypeOK'
  BY <1>1, <1>4, <1>5 DEF Cms!TypeOK, Cms!resourceVars, Cms!settingVars
<1>7. Pooling'
  BY <1>1, <1>4, <1>5 DEF Pooling, Cms!resourceVars
<1>8. Cms!NothingStale'
  BY <1>1, <1>4 DEF Cms!NothingStale, Cms!Named, Cms!resourceVars, Cms!settingVars
<1> QED
  BY <1>5, <1>6, <1>7, <1>8 DEF Held

\* What a call that creates its client has, and what it asks for.
LEMMA Creates ==
    ASSUME TemplateInv, Cms!TopAt("creating")
    PROVE  /\ calls # <<>> /\ Cms!Top \in Cms!Frames /\ Cms!Top.at = "creating"
           /\ Cms!Alive(Cms!Top.session) /\ Cms!Top.session \in AllPooled /\ Cms!Top.session \in 1..MaxSessions
           /\ Cms!Top.for.kind \in {"producer", "consumer"} /\ Cms!Top.for.target \in Cms!Targets
<1>1. Cms!TypeOK /\ Stacked /\ Pooling
  BY DEF TemplateInv, Held
<1>2. calls # <<>> /\ Cms!Top \in Cms!Frames /\ Cms!Top.at = "creating" /\ Cms!Top = calls[Len(calls)]
      /\ Len(calls) \in 1..Len(calls)
  BY <1>1, StackIs DEF Cms!TopAt
<1>3. Cms!Alive(Cms!Top.session) /\ Cms!Top.for.kind # "session"
  BY <1>1, <1>2 DEF Stacked
<1>4. Cms!Top.session \in AllPooled /\ Cms!Top.session \in managed.sessions
  BY <1>3 DEF Cms!Alive, AllPooled
<1>5. Cms!Top.session \in 1..MaxSessions
  BY <1>1, <1>4 DEF Cms!TypeOK
<1>6. Cms!Top.for \in Requests
  BY <1>2 DEF Cms!Frames
<1>7. Cms!Top.for \in [kind : {"session"}, target : [by : {Cms!None}]]
        \/ Cms!Top.for \in [kind : {"producer", "consumer"}, target : Cms!Targets]
  BY <1>6 DEF TemplateInv, Cms!RequestsAssumption
<1>8. Cms!Top.for \in [kind : {"producer", "consumer"}, target : Cms!Targets]
  BY <1>3, <1>7
<1> QED
  BY <1>2, <1>3, <1>4, <1>5, <1>8

\* Whatever is created or found, the call has a client of its session.
LEMMA ClientKeeps ==
    ASSUME TemplateInv, Cms!TopAt("creating"), NEW d \in Cms!Destination \cup Objects, Cms!GetClient(d),
           UNCHANGED <<initialized, connection, pools, pooled, available, Cms!settingVars,
                       created, handled, returned, undefined>>,
           resolved' \subseteq Cms!Resolved, resolved' \subseteq managed'.destinations,
           managed' \in [sessions : SUBSET (1..MaxSessions), destinations : SUBSET Cms!Resolved],
           managed'.sessions = managed.sessions,
           defaultDestination' \in {Cms!NoDefault} \cup [by : {"application"}, dest : Objects]
                                     \cup [by : {"template"}, object : Cms!Resolved]
    PROVE  Cms!TypeOK' /\ Stacked' /\ Pooling' /\ Owned' /\ Living'
<1>1. Cms!TypeOK /\ Stacked /\ Pooling /\ Owned /\ Living /\ Cms!NothingStale
  BY DEF TemplateInv, Held
<1>2. /\ calls # <<>> /\ Cms!Top \in Cms!Frames /\ Cms!Top.at = "creating" /\ Cms!Alive(Cms!Top.session)
      /\ Cms!Top.session \in AllPooled /\ Cms!Top.for.kind \in {"producer", "consumer"}
  BY Creates
<1>3. PICK g \in Cms!Destination \cup Objects :
        /\ Cms!Advance([Cms!Top EXCEPT !.at = "callback", !.has = g])
        /\ cache' = cache
             \/ cache' = cache \cup {[session |-> Cms!Top.session, kind |-> Cms!Top.for.kind, dest |-> d]}
  <2>1. CASE \E c \in Cms!Cached(Cms!Top.session, Cms!Top.for.kind, d) :
                /\ Cms!Advance([Cms!Top EXCEPT !.at = "callback", !.has = c.dest]) /\ UNCHANGED cache
    <3>1. PICK c \in Cms!Cached(Cms!Top.session, Cms!Top.for.kind, d) :
                /\ Cms!Advance([Cms!Top EXCEPT !.at = "callback", !.has = c.dest]) /\ UNCHANGED cache
      BY <2>1, Zenon
    <3>2. \A x \in cache : x.dest \in Cms!Destination \cup Objects
      BY <1>1 DEF Cms!TypeOK
    <3>3. c \in cache
      BY DEF Cms!Cached
    <3>4. c.dest \in Cms!Destination \cup Objects /\ cache' = cache
      BY <3>1, <3>2, <3>3, Zenon
    <3> QED
      BY <3>1, <3>4, Zenon
  <2>2. CASE /\ cache' = cache \cup {[session |-> Cms!Top.session, kind |-> Cms!Top.for.kind, dest |-> d]}
             /\ Cms!Advance([Cms!Top EXCEPT !.at = "callback", !.has = d])
    BY <2>2, Zenon
  <2> QED
    BY <2>1, <2>2, Zenon DEF Cms!GetClient
<1> DEFINE f == [Cms!Top EXCEPT !.at = "callback", !.has = g]
<1>4. f \in Cms!Frames /\ f.session = Cms!Top.session /\ f.at = "callback" /\ Cms!Advance(f)
  BY <1>2, <1>3 DEF Cms!Frames
<1> HIDE DEF f
<1>5. /\ calls' \in Seq(Cms!Frames) /\ Len(calls') = Len(calls)
      /\ Stacked' /\ Owned' /\ Living' /\ AllPooled' = AllPooled
  BY <1>2, <1>4, MoveKeeps
<1>6. Cms!TypeOK'
  <2>1. \A c \in cache' : /\ c.session \in UNION {pooled'[m] : m \in AckModes}
                          /\ c.kind \in {"producer", "consumer"}
                          /\ c.dest \in Cms!Destination \cup Objects
    <3>1. \A c \in cache : /\ c.session \in AllPooled /\ c.kind \in {"producer", "consumer"}
                           /\ c.dest \in Cms!Destination \cup Objects
      BY <1>1 DEF Cms!TypeOK, AllPooled
    <3>2. \A c \in cache' : /\ c.session \in AllPooled /\ c.kind \in {"producer", "consumer"}
                            /\ c.dest \in Cms!Destination \cup Objects
      BY <1>2, <1>3, <3>1
    <3> QED
      BY <3>2 DEF AllPooled
  <2> QED
    BY <1>1, <1>5, <2>1 DEF Cms!TypeOK, Cms!settingVars
<1>7. Pooling'
  BY <1>1, <1>5 DEF Pooling
<1> QED
  BY <1>5, <1>6, <1>7

\* The resolver's object is one of the session's, and the manager has it.
LEMMA Resolves ==
    ASSUME TemplateInv, Cms!TopAt("creating"), NEW n \in Names, Cms!Resolve(Cms!Named(Cms!Top.session, n))
    PROVE  /\ Cms!Named(Cms!Top.session, n) \in Cms!Resolved /\ Cms!Named(Cms!Top.session, n).dest \in Cms!Destination
           /\ resolved' \subseteq Cms!Resolved /\ resolved' \subseteq managed'.destinations
           /\ managed' \in [sessions : SUBSET (1..MaxSessions), destinations : SUBSET Cms!Resolved]
           /\ managed'.sessions = managed.sessions
           /\ managed.destinations \subseteq managed'.destinations
           /\ Cms!Named(Cms!Top.session, n) \in managed'.destinations
<1>1. Cms!TypeOK /\ Pooling /\ Cms!Top.session \in 1..MaxSessions
  BY Creates DEF TemplateInv, Held
<1> DEFINE o == Cms!Named(Cms!Top.session, n)
<1>2. o \in Cms!Resolved /\ o.dest \in Cms!Destination
  BY <1>1 DEF Cms!Named, Cms!Resolved, Cms!Destination
<1>3. /\ resolved' = resolved \cup {o}
      /\ managed' = [managed EXCEPT !.destinations = IF o \in resolved THEN @ ELSE @ \cup {o}]
  BY DEF Cms!Resolve
<1> HIDE DEF o
<1>4. /\ resolved \subseteq Cms!Resolved /\ resolved \subseteq managed.destinations
      /\ managed \in [sessions : SUBSET (1..MaxSessions), destinations : SUBSET Cms!Resolved]
  BY <1>1 DEF Cms!TypeOK, Pooling
<1>5. /\ managed'.sessions = managed.sessions
      /\ managed'.destinations = managed.destinations \cup {o}
      /\ managed' \in [sessions : SUBSET (1..MaxSessions), destinations : SUBSET Cms!Resolved]
  BY <1>2, <1>3, <1>4
<1> QED
  BY <1>2, <1>3, <1>4, <1>5 DEF o

LEMMA CreateForObjectKeeps ==
    ASSUME TemplateInv, Cms!CreateForObject
    PROVE  Held'
<1>1. Cms!TypeOK /\ Pooling /\ Cms!NothingStale
  BY DEF TemplateInv, Held
<1>2. Cms!TopAt("creating") /\ Cms!Top.for.target \in Cms!Targets /\ Cms!Top.for.target.by = "object"
  BY Creates DEF Cms!CreateForObject
<1>3. Cms!Top.for.target.dest \in Cms!Destination \cup Objects
  BY <1>2 DEF Cms!Targets
<1>4. /\ Cms!GetClient(Cms!Top.for.target.dest)
      /\ UNCHANGED <<initialized, connection, pools, pooled, available, resolved, managed,
                     defaultDestination, Cms!settingVars, created, handled, returned, undefined>>
  BY DEF Cms!CreateForObject
<1>5. Cms!TypeOK' /\ Stacked' /\ Pooling' /\ Owned' /\ Living'
  <2>1. /\ resolved' \subseteq Cms!Resolved /\ resolved' \subseteq managed'.destinations
        /\ managed' \in [sessions : SUBSET (1..MaxSessions), destinations : SUBSET Cms!Resolved]
        /\ managed'.sessions = managed.sessions
        /\ defaultDestination' \in {Cms!NoDefault} \cup [by : {"application"}, dest : Objects]
                                     \cup [by : {"template"}, object : Cms!Resolved]
    BY <1>1, <1>4 DEF Cms!TypeOK, Pooling
  <2> QED
    BY <1>2, <1>3, <1>4, <2>1, ClientKeeps
<1>6. Cms!NothingStale'
  BY <1>1, <1>4 DEF Cms!NothingStale, Cms!Named, Cms!settingVars
<1> QED
  BY <1>5, <1>6 DEF Held

LEMMA CreateForDefaultKeeps ==
    ASSUME TemplateInv, Cms!CreateForDefault
    PROVE  Held'
<1>1. Cms!TypeOK /\ Pooling /\ Cms!NothingStale
  BY DEF TemplateInv, Held
<1>2. /\ Cms!TopAt("creating")
      /\ UNCHANGED <<initialized, connection, pools, pooled, available, resolved, managed,
                     defaultDestination, Cms!settingVars, created, handled, returned, undefined>>
  BY DEF Cms!CreateForDefault
<1>3. defaultDestination \in {Cms!NoDefault} \cup [by : {"application"}, dest : Objects]
                               \cup [by : {"template"}, object : Cms!Resolved]
  BY <1>1 DEF Cms!TypeOK
<1>4. PICK d \in Cms!Destination \cup Objects : Cms!GetClient(d)
  <2>1. CASE defaultDestination.by = "application" /\ Cms!GetClient(defaultDestination.dest)
    <3>1. defaultDestination.dest \in Objects
      BY <1>3, <2>1 DEF Cms!NoDefault, Cms!None
    <3> QED
      BY <2>1, <3>1
  <2>2. CASE defaultDestination.by = "template" /\ Cms!GetClient(defaultDestination.object.dest)
    <3>1. defaultDestination.object.dest \in Cms!Destination
      BY <1>3, <2>2 DEF Cms!NoDefault, Cms!None, Cms!Resolved
    <3> QED
      BY <2>2, <3>1
  <2> QED
    BY <2>1, <2>2 DEF Cms!CreateForDefault
<1>5. Cms!TypeOK' /\ Stacked' /\ Pooling' /\ Owned' /\ Living'
  <2>1. /\ resolved' \subseteq Cms!Resolved /\ resolved' \subseteq managed'.destinations
        /\ managed' \in [sessions : SUBSET (1..MaxSessions), destinations : SUBSET Cms!Resolved]
        /\ managed'.sessions = managed.sessions
    BY <1>1, <1>2 DEF Cms!TypeOK, Pooling
  <2> QED
    BY <1>2, <1>3, <1>4, <2>1, ClientKeeps
<1>6. Cms!NothingStale'
  BY <1>1, <1>2 DEF Cms!NothingStale, Cms!Named, Cms!settingVars
<1> QED
  BY <1>5, <1>6 DEF Held

LEMMA CreateForNameKeeps ==
    ASSUME TemplateInv, Cms!CreateForName
    PROVE  Held'
<1>1. Cms!TypeOK /\ Pooling /\ Cms!NothingStale
  BY DEF TemplateInv, Held
<1>2. Cms!TopAt("creating") /\ Cms!Top.for.target \in Cms!Targets /\ Cms!Top.for.target.by = "name"
  BY Creates DEF Cms!CreateForName
<1> DEFINE n == Cms!Top.for.target.name
           o == Cms!Named(Cms!Top.session, n)
<1>3. n \in Names
  BY <1>2 DEF Cms!Targets
<1>4. /\ Cms!Resolve(o) /\ Cms!GetClient(o.dest)
      /\ UNCHANGED <<initialized, connection, pools, pooled, available,
                     defaultDestination, Cms!settingVars, created, handled, returned, undefined>>
  BY DEF Cms!CreateForName
<1> HIDE DEF n
<1>5. /\ o \in Cms!Resolved /\ o.dest \in Cms!Destination
      /\ resolved' \subseteq Cms!Resolved /\ resolved' \subseteq managed'.destinations
      /\ managed' \in [sessions : SUBSET (1..MaxSessions), destinations : SUBSET Cms!Resolved]
      /\ managed'.sessions = managed.sessions
      /\ managed.destinations \subseteq managed'.destinations
  BY <1>2, <1>3, <1>4, Resolves
<1> HIDE DEF o
<1>6. Cms!TypeOK' /\ Stacked' /\ Pooling' /\ Owned' /\ Living'
  <2>1. defaultDestination' \in {Cms!NoDefault} \cup [by : {"application"}, dest : Objects]
                                  \cup [by : {"template"}, object : Cms!Resolved]
    BY <1>1, <1>4 DEF Cms!TypeOK
  <2> QED
    BY <1>2, <1>4, <1>5, <2>1, ClientKeeps
<1>7. Cms!NothingStale'
  BY <1>1, <1>4, <1>5 DEF Cms!NothingStale, Cms!Named, Cms!settingVars
<1> QED
  BY <1>6, <1>7 DEF Held

LEMMA CreateForDefaultNameKeeps ==
    ASSUME TemplateInv, Cms!CreateForDefaultName
    PROVE  Held'
<1>1. Cms!TypeOK /\ Pooling /\ Cms!NothingStale
  BY DEF TemplateInv, Held
<1> DEFINE o == Cms!Named(Cms!Top.session, defaultDestinationName)
<1>2. Cms!TopAt("creating") /\ defaultDestinationName \in Names
  BY <1>1 DEF Cms!CreateForDefaultName, Cms!TypeOK
<1>3. /\ Cms!Resolve(o) /\ Cms!GetClient(o.dest)
      /\ defaultDestination' = [by |-> "template", object |-> o]
      /\ UNCHANGED <<initialized, connection, pools, pooled, available,
                     Cms!settingVars, created, handled, returned, undefined>>
  BY DEF Cms!CreateForDefaultName
<1>4. /\ o \in Cms!Resolved /\ o.dest \in Cms!Destination
      /\ resolved' \subseteq Cms!Resolved /\ resolved' \subseteq managed'.destinations
      /\ managed' \in [sessions : SUBSET (1..MaxSessions), destinations : SUBSET Cms!Resolved]
      /\ managed'.sessions = managed.sessions
      /\ o \in managed'.destinations
  BY <1>2, <1>3, Resolves
<1>5. o.dest = Cms!Named(o.session, defaultDestinationName).dest
  BY DEF Cms!Named
<1>6. Cms!NothingStale'
  <2>1. (undefined => handled)'
    BY <1>1, <1>3 DEF Cms!NothingStale
  <2>2. defaultDestination'.object = o
    BY <1>3
  <2>3. (Cms!Named(defaultDestination.object.session, defaultDestinationName).dest)'
           = Cms!Named(o.session, defaultDestinationName).dest
    BY <1>3, <2>2 DEF Cms!Named, Cms!settingVars
  <2> QED
    BY <1>4, <1>5, <2>1, <2>2, <2>3 DEF Cms!NothingStale
<1> HIDE DEF o
<1>7. Cms!TypeOK' /\ Stacked' /\ Pooling' /\ Owned' /\ Living'
  <2>1. defaultDestination' \in {Cms!NoDefault} \cup [by : {"application"}, dest : Objects]
                                  \cup [by : {"template"}, object : Cms!Resolved]
    BY <1>3, <1>4
  <2> QED
    BY <1>2, <1>3, <1>4, <2>1, ClientKeeps
<1> QED
  BY <1>6, <1>7 DEF Held

LEMMA GetConnectionKeeps ==
    ASSUME TemplateInv, Cms!GetConnection
    PROVE  Held'
<1>1. Cms!TypeOK /\ Stacked /\ Pooling /\ Owned /\ Living /\ Cms!NothingStale
  BY DEF TemplateInv, Held
<1>2. calls # <<>> /\ Cms!Top \in Cms!Frames /\ Cms!Top.at = "connecting" /\ connection = 0
  BY <1>1, StackIs DEF Cms!GetConnection, Cms!TopAt
<1> DEFINE f == [Cms!Top EXCEPT !.at = "taking"]
<1>3. f \in Cms!Frames /\ f.session = Cms!Top.session /\ f.at = "taking"
  BY <1>2 DEF Cms!Frames
<1>4. /\ Cms!Advance(f) /\ created.connections < MaxConnections
      /\ created' = [created EXCEPT !.connections = @ + 1]
      /\ connection' = created'.connections /\ pools' = TRUE
      /\ pooled' = [m \in AckModes |-> {}] /\ available' = [m \in AckModes |-> <<>>]
      /\ cache' = {} /\ returned' = {}
      /\ UNCHANGED <<initialized, resolved, managed, defaultDestination,
                     Cms!settingVars, handled, undefined>>
  BY DEF Cms!GetConnection
<1> HIDE DEF f
<1>5. /\ calls' \in Seq(Cms!Frames) /\ Len(calls') = Len(calls) /\ calls' # <<>>
      /\ Len(calls) \in Nat \ {0} /\ Cms!Top' = f
      /\ calls'[Len(calls)] = f /\ Cms!Top = calls[Len(calls)]
      /\ \A i \in 1..Len(calls) : i # Len(calls) => calls'[i] = calls[i]
      /\ \A i \in 1..Len(calls) : calls'[i].session = calls[i].session
  BY <1>1, <1>2, <1>3, <1>4, Moved
<1>6. /\ created' \in [sessions : 0..MaxSessions, connections : 0..MaxConnections]
      /\ created'.sessions = created.sessions /\ connection' \in 0..MaxConnections
      /\ connection' # 0
  <2>1. /\ created \in [sessions : 0..MaxSessions, connections : 0..MaxConnections]
        /\ MaxConnections \in Nat
    BY <1>1, Bounds DEF Cms!TypeOK
  <2>2. created.connections + 1 \in 0..MaxConnections /\ created.connections + 1 # 0
    BY <1>4, <2>1
  <2> QED
    BY <1>4, <2>1, <2>2
<1>7. \A m \in AckModes : pooled'[m] = {} /\ available'[m] = <<>>
  BY <1>4
<1>8. Cms!TypeOK'
  <2>1. pooled' \in [AckModes -> SUBSET (1..MaxSessions)]
    BY <1>4
  <2>2. available' \in [AckModes -> Seq(1..MaxSessions)]
    BY <1>4, EmptySeq
  <2>3. defaultDestinationName' \in Names \cup {Cms!None} /\ pubSubDomain' \in BOOLEAN /\ ackMode' \in AckModes
        /\ handled' \in BOOLEAN /\ undefined' \in BOOLEAN /\ initialized' \in BOOLEAN
    BY <1>1, <1>4, Zenon DEF Cms!TypeOK, Cms!settingVars
  <2>4. resolved' = resolved /\ managed' = managed /\ defaultDestination' = defaultDestination
    BY <1>4
  <2> QED
    BY <1>1, <1>4, <1>5, <1>6, <2>1, <2>2, <2>3, <2>4 DEF Cms!TypeOK
<1>9. Stacked'
  <2> SUFFICES ASSUME NEW i \in 1..Len(calls)
      PROVE  /\ i # Len(calls) => calls'[i].at = "callback"
             /\ calls'[i].at \in {"connecting", "taking"} => calls'[i].session = Cms!NoSession
             /\ calls'[i].session <= created'.sessions
             /\ calls'[i].at # "creating"
    BY <1>5, <1>6 DEF Stacked, Cms!NoSession
  <2>1. CASE i # Len(calls)
    BY <1>1, <1>5, <1>6, <2>1 DEF Stacked
  <2>2. CASE i = Len(calls)
    BY <1>1, <1>2, <1>3, <1>5, <1>6, <2>2 DEF Stacked
  <2> QED
    BY <2>1, <2>2
<1>10. Pooling'
  <2>1. AllPooled' = {}
    BY <1>7 DEF AllPooled
  <2>2. resolved' = resolved /\ managed' = managed
    BY <1>4
  <2> QED
    BY <1>1, <1>4, <1>6, <2>1, <2>2 DEF Pooling
<1>11. Owned'
  BY <1>7, EmptySeq DEF Owned
<1>12. Living'
  <2>1. \A s : ~Cms!Alive(s)
    BY <1>1, <1>2 DEF Pooling, Cms!Alive, AllPooled
  <2>2. ~handled => \A i \in 1..Len(calls) : calls[i].at # "callback"
    BY <1>1, <1>2, <2>1 DEF Living
  <2>3. ~handled => \A i \in 1..Len(calls') : calls'[i].at # "callback"
    BY <1>3, <1>5, <2>2
  <2> QED
    BY <1>3, <1>4, <1>5, <2>3 DEF Living
<1>13. Cms!NothingStale'
  BY <1>1, <1>4 DEF Cms!NothingStale, Cms!Named, Cms!settingVars
<1> QED
  BY <1>8, <1>9, <1>10, <1>11, <1>12, <1>13 DEF Held

LEMMA ExecuteKeeps ==
    ASSUME TemplateInv, NEW request \in Requests, Cms!Execute(request)
    PROVE  Held'
<1>1. Cms!TypeOK /\ Stacked /\ Pooling /\ Owned /\ Living /\ Cms!NothingStale
  BY DEF TemplateInv, Held
<1> DEFINE f == [for |-> request, at |-> "connecting", session |-> Cms!NoSession, has |-> Cms!NoObject]
<1>2. f \in Cms!Frames /\ f.session = 0 /\ f.at = "connecting"
  BY Bounds DEF Cms!Frames, Cms!NoSession
<1>3. /\ Cms!ApplicationRuns /\ Len(calls) < MaxDepth /\ initialized' = TRUE
      /\ resolved' = resolved \/ resolved' = {}
      /\ calls' = Append(calls, f)
      /\ UNCHANGED <<connection, pools, pooled, available, cache, managed,
                     defaultDestination, Cms!settingVars, created, handled, returned, undefined>>
  BY DEF Cms!Execute
<1> HIDE DEF f
<1>4. calls \in Seq(Cms!Frames) /\ Len(calls) \in Nat
  BY <1>1 DEF Cms!TypeOK
<1>5. /\ calls' \in Seq(Cms!Frames) /\ Len(calls') = Len(calls) + 1
      /\ \A i \in 1..Len(calls) : calls'[i] = calls[i]
      /\ calls'[Len(calls) + 1] = f
  BY <1>2, <1>3, <1>4, AppendProperties
<1>6. \A i \in 1..Len(calls') : i \in 1..Len(calls) \/ i = Len(calls) + 1
  BY <1>4, <1>5
<1>7. \A i \in 1..Len(calls) : calls[i].at = "callback"
  <2>1. \A i \in 1..Len(calls) : i # Len(calls) => calls[i].at = "callback"
    BY <1>1 DEF Stacked
  <2>2. calls # <<>> => calls[Len(calls)].at = "callback"
    BY <1>3 DEF Cms!ApplicationRuns, Cms!Top
  <2>3. calls = <<>> => Len(calls) = 0
    BY EmptySeq
  <2> QED
    BY <1>4, <2>1, <2>2, <2>3
<1>8. Cms!TypeOK'
  <2>1. defaultDestinationName' \in Names \cup {Cms!None} /\ pubSubDomain' \in BOOLEAN /\ ackMode' \in AckModes
        /\ handled' \in BOOLEAN /\ undefined' \in BOOLEAN /\ pools' \in BOOLEAN
    BY <1>1, <1>3, Zenon DEF Cms!TypeOK, Cms!settingVars
  <2>2. Len(calls') <= MaxDepth
    BY <1>3, <1>4, <1>5, Bounds
  <2>3. /\ connection' = connection /\ pooled' = pooled /\ available' = available /\ cache' = cache
        /\ managed' = managed /\ defaultDestination' = defaultDestination /\ created' = created
        /\ returned' = returned
    BY <1>3
  <2> QED
    BY <1>1, <1>3, <1>5, <2>1, <2>2, <2>3 DEF Cms!TypeOK
<1>9. AllPooled' = AllPooled /\ \A s : Cms!Alive(s)' <=> Cms!Alive(s)
  BY <1>3 DEF AllPooled, Cms!Alive
<1>10. created.sessions \in Nat
  BY <1>1, Bounds DEF Cms!TypeOK
<1>11. Stacked'
  <2> SUFFICES ASSUME NEW i \in 1..Len(calls')
      PROVE  /\ i # Len(calls') => calls'[i].at = "callback"
             /\ calls'[i].at \in {"connecting", "taking"} => calls'[i].session = Cms!NoSession
             /\ calls'[i].session <= created'.sessions
             /\ calls'[i].at # "creating" /\ calls'[i].at # "taking"
    BY DEF Stacked, Cms!NoSession
  <2>1. CASE i \in 1..Len(calls)
    <3>1. calls[i].session <= created'.sessions
      BY <1>1, <1>3, <2>1 DEF Stacked
    <3> QED
      BY <1>5, <1>7, <2>1, <3>1
  <2>2. CASE i = Len(calls) + 1
    BY <1>2, <1>3, <1>5, <1>10, <2>2 DEF Cms!NoSession
  <2> QED
    BY <1>6, <2>1, <2>2
<1>12. Pooling'
  BY <1>1, <1>3, <1>9 DEF Pooling
<1>13. Owned'
  <2>1. \A s \in 1..MaxSessions : Cms!Holders(s)' = Cms!Holders(s)
    <3> SUFFICES ASSUME NEW s \in 1..MaxSessions PROVE Cms!Holders(s)' = Cms!Holders(s)
      OBVIOUS
    <3>1. s # 0
      OBVIOUS
    <3>2. \A i \in 1..Len(calls') : calls'[i].session = s => i \in 1..Len(calls) /\ calls[i].session = s
      BY <1>2, <1>5, <1>6, <3>1
    <3>3. \A i \in 1..Len(calls) : i \in 1..Len(calls')
      BY <1>4, <1>5
    <3> QED
      BY <1>5, <3>2, <3>3 DEF Cms!Holders
  <2>2. pooled' = pooled /\ available' = available /\ returned' = returned
    BY <1>3
  <2>3. \A m \in AckModes : pooled[m] \subseteq 1..MaxSessions
    BY <1>1 DEF Cms!TypeOK
  <2>4. 1..Len(calls) \subseteq 1..Len(calls')
    BY <1>4, <1>5
  <2> QED
    BY <1>1, <2>1, <2>2, <2>3, <2>4 DEF Owned, In
<1>14. Living'
  <2>1. CASE handled
    BY <1>3, <2>1 DEF Living
  <2>2. CASE ~handled
    <3>1. \A i \in 1..Len(calls) : Cms!Alive(calls[i].session)
      <4>1. CASE calls = <<>>
        BY <4>1, EmptySeq
      <4>2. CASE calls # <<>>
        BY <1>1, <1>3, <1>7, <2>2, <4>2 DEF Living, Cms!ApplicationRuns
      <4> QED
        BY <4>1, <4>2
    <3>2. (\A i \in 1..Len(calls) : calls[i].at = "callback" => Cms!Alive(calls[i].session))'
      <4>1. \A i \in 1..Len(calls') : calls'[i].at = "callback" => Cms!Alive(calls'[i].session)
        BY <1>2, <1>5, <1>6, <3>1
      <4> QED
        BY <1>3, <4>1 DEF Cms!Alive
    <3>3. (Cms!Top.at)' = "connecting"
      BY <1>2, <1>5 DEF Cms!Top
    <3> QED
      BY <3>2, <3>3 DEF Living
  <2> QED
    BY <2>1, <2>2
<1>15. Cms!NothingStale'
  BY <1>1, <1>3 DEF Cms!NothingStale, Cms!Named, Cms!settingVars
<1> QED
  BY <1>8, <1>11, <1>12, <1>13, <1>14, <1>15 DEF Held

\* A call that takes a session becomes one of its holders.
LEMMA TakesIt ==
    ASSUME TemplateInv, Cms!TopAt("taking"), NEW s \in 1..MaxSessions, Cms!Taken(s)
    PROVE  /\ calls' \in Seq(Cms!Frames) /\ Len(calls') = Len(calls) /\ Len(calls) \in Nat \ {0}
           /\ \A i \in 1..Len(calls) : i # Len(calls) => calls'[i] = calls[i] /\ calls[i].at = "callback"
           /\ calls[Len(calls)].at = "taking" /\ calls[Len(calls)].session = 0 /\ calls # <<>>
           /\ calls'[Len(calls)].session = s
           /\ \/ calls'[Len(calls)].at = "callback"
              \/ calls'[Len(calls)].at = "creating" /\ calls'[Len(calls)].for.kind # "session"
           /\ Cms!Holders(s)' = Cms!Holders(s) \cup {Len(calls)}
           /\ \A x \in 1..MaxSessions : x # s => Cms!Holders(x)' = Cms!Holders(x)
<1>1. Cms!TypeOK /\ Stacked
  BY DEF TemplateInv, Held
<1>2. calls # <<>> /\ Cms!Top.at = "taking"
  BY DEF Cms!TopAt
<1>3. Cms!Top \in Cms!Frames /\ Len(calls) \in Nat \ {0} /\ Cms!Top = calls[Len(calls)]
  BY <1>1, <1>2, StackIs
<1> DEFINE f == [Cms!Top EXCEPT !.session = s,
                            !.at = IF Cms!Top.for.kind = "session" THEN "callback" ELSE "creating"]
<1>4. /\ f \in Cms!Frames /\ f.session = s /\ f.for = Cms!Top.for
      /\ f.at = IF Cms!Top.for.kind = "session" THEN "callback" ELSE "creating"
  <2> DEFINE a == IF Cms!Top.for.kind = "session" THEN "callback" ELSE "creating"
  <2>1. s \in 0..MaxSessions
    BY Bounds
  <2>2. a \in {"connecting", "taking", "creating", "callback", "caught"}
    OBVIOUS
  <2>3. f = [Cms!Top EXCEPT !.session = s, !.at = a]
    OBVIOUS
  <2> HIDE DEF a, f
  <2>4. f \in Cms!Frames /\ f.session = s /\ f.for = Cms!Top.for /\ f.at = a
    BY <1>3, <2>1, <2>2, <2>3 DEF Cms!Frames
  <2> QED
    BY <2>4 DEF a
<1>5. Cms!Advance(f)
  BY DEF Cms!Taken
<1> HIDE DEF f
<1>6. /\ calls' \in Seq(Cms!Frames) /\ Len(calls') = Len(calls)
      /\ calls'[Len(calls)] = f
      /\ \A i \in 1..(Len(calls) - 1) : calls'[i] = calls[i]
  BY <1>1, <1>2, <1>4, <1>5, Advanced
<1>7. \A i \in 1..Len(calls) : i # Len(calls) => calls'[i] = calls[i] /\ calls[i].at = "callback"
  <2>1. \A i \in 1..Len(calls) : i # Len(calls) => i \in 1..(Len(calls) - 1)
    BY <1>3
  <2> QED
    BY <1>1, <1>6, <2>1 DEF Stacked
<1>8. calls[Len(calls)].session = 0
  BY <1>1, <1>2, <1>3 DEF Stacked, Cms!NoSession
<1>9. Cms!Holders(s)' = Cms!Holders(s) \cup {Len(calls)}
  BY <1>3, <1>4, <1>6, <1>7 DEF Cms!Holders
<1>10. \A x \in 1..MaxSessions : x # s => Cms!Holders(x)' = Cms!Holders(x)
  BY <1>3, <1>4, <1>6, <1>7, <1>8 DEF Cms!Holders
<1> QED
  BY <1>2, <1>3, <1>4, <1>6, <1>7, <1>8, <1>9, <1>10

LEMMA TakeKeeps ==
    ASSUME TemplateInv, Cms!TopAt("taking"), NEW s \in 1..MaxSessions, Cms!Taken(s), Cms!Alive(s)',
           UNCHANGED <<connection, handled>>, created.sessions <= created'.sessions,
           created'.sessions \in Nat, s <= created'.sessions,
           AllPooled \subseteq AllPooled', managed.sessions \subseteq managed'.sessions
    PROVE  Stacked' /\ Living'
<1>1. Cms!TypeOK /\ Stacked /\ Pooling /\ Owned /\ Living /\ Cms!NothingStale
  BY DEF TemplateInv, Held
<1>2. /\ calls' \in Seq(Cms!Frames) /\ Len(calls') = Len(calls) /\ Len(calls) \in Nat \ {0}
      /\ \A i \in 1..Len(calls) : i # Len(calls) => calls'[i] = calls[i] /\ calls[i].at = "callback"
      /\ calls[Len(calls)].at = "taking" /\ calls[Len(calls)].session = 0 /\ calls # <<>>
      /\ calls'[Len(calls)].session = s
      /\ \/ calls'[Len(calls)].at = "callback"
         \/ calls'[Len(calls)].at = "creating" /\ calls'[Len(calls)].for.kind # "session"
  BY TakesIt
<1>3. \A x : Cms!Alive(x) => Cms!Alive(x)'
  BY DEF Cms!Alive, AllPooled
<1>4. Stacked'
  <2> SUFFICES ASSUME NEW i \in 1..Len(calls)
      PROVE  /\ i # Len(calls) => calls'[i].at = "callback"
             /\ calls'[i].at \in {"callback", "creating"}
             /\ calls'[i].session <= created'.sessions
             /\ calls'[i].at = "creating" => calls'[i].session = s /\ calls'[i].for.kind # "session"
    BY <1>2 DEF Stacked, Cms!Alive
  <2>1. CASE i # Len(calls)
    <3>1. calls[i].session \in Nat /\ calls[i].session <= created.sessions
      <4>1. calls[i] \in Cms!Frames
        BY <1>1, ElementOfSeq DEF Cms!TypeOK
      <4> QED
        BY <1>1, <4>1, Bounds DEF Cms!Frames, Stacked
    <3>2. created.sessions \in Nat
      BY <1>1, Bounds DEF Cms!TypeOK
    <3> QED
      BY <1>2, <2>1, <3>1, <3>2
  <2>2. CASE i = Len(calls)
    BY <1>2, <2>2
  <2> QED
    BY <2>1, <2>2
<1>5. Living'
  <2>1. calls'[Len(calls')].at # "caught"
    BY <1>2
  <2>2. ASSUME ~handled
        PROVE  (\A i \in 1..Len(calls) : calls[i].at = "callback" => Cms!Alive(calls[i].session))'
    <3>1. \A i \in 1..Len(calls) : calls[i].at = "callback" => Cms!Alive(calls[i].session)
      BY <1>1, <1>2, <2>2 DEF Living, Cms!Top
    <3>2. \A i \in 1..Len(calls) : calls'[i].session = s \/ Cms!Alive(calls'[i].session)
      BY <1>2, <3>1
    <3>3. \A x : (x = s \/ Cms!Alive(x)) => x \in UNION {pooled'[m] : m \in AckModes} /\ x \in managed'.sessions
      BY <1>3 DEF Cms!Alive
    <3> QED
      BY <1>2, <3>2, <3>3 DEF Cms!Alive
  <2> QED
    BY <2>1, <2>2 DEF Living, Cms!Top
<1> QED
  BY <1>4, <1>5

LEMMA TakeAvailableKeeps ==
    ASSUME TemplateInv, Cms!TakeAvailable
    PROVE  Held'
<1>1. Cms!TypeOK /\ Stacked /\ Pooling /\ Owned /\ Living /\ Cms!NothingStale
  BY DEF TemplateInv, Held
<1> DEFINE q == available[ackMode]
<1>2. /\ Cms!TopAt("taking") /\ q # <<>> /\ Cms!Taken(Head(q)) /\ available' = [available EXCEPT ![ackMode] = Tail(q)]
      /\ UNCHANGED <<initialized, connection, pools, pooled, cache, resolved, managed,
                     defaultDestination, Cms!settingVars, created, handled, returned, undefined>>
  BY DEF Cms!TakeAvailable
<1>3. ackMode \in AckModes /\ available \in [AckModes -> Seq(1..MaxSessions)]
  BY <1>1 DEF Cms!TypeOK
<1>4. q \in Seq(1..MaxSessions)
  BY <1>3
<1>0. \A m \in AckModes : available'[m] = IF m = ackMode THEN Tail(q) ELSE available[m]
  BY <1>2, <1>3
<1> HIDE DEF q
<1> PICK s : s = Head(q)
  OBVIOUS
<1>5. /\ Len(q) \in Nat \ {0} /\ s = q[1] /\ s \in 1..MaxSessions /\ Cms!Taken(s)
      /\ Tail(q) \in Seq(1..MaxSessions) /\ Len(Tail(q)) = Len(q) - 1
      /\ \A i \in 1..Len(Tail(q)) : Tail(q)[i] = q[i + 1]
  <2>1. /\ Head(q) \in 1..MaxSessions /\ Tail(q) \in Seq(1..MaxSessions)
        /\ Len(Tail(q)) = Len(q) - 1
        /\ \A i \in 1..Len(Tail(q)) : Tail(q)[i] = q[i + 1]
    BY <1>2, <1>4, HeadTailProperties
  <2>2. Len(q) \in Nat \ {0}
    BY <1>2, <1>4, EmptySeq
  <2>3. Head(q) = q[1]
    BY <1>4, <2>2
  <2> QED
    BY <1>2, <2>1, <2>2, <2>3
<1>6. s \in pooled[ackMode] /\ (s \notin returned => Cms!Holders(s) = {})
  <2>1. 1 \in 1..Len(q)
    BY <1>5
  <2>2. s \in pooled[ackMode] /\ In(s, q)
    BY <1>1, <1>3, <1>5, <2>1 DEF Owned, In, q
  <2> QED
    BY <1>1, <1>3, <2>2 DEF Owned, q
<1>7. s \in AllPooled /\ s \in managed.sessions /\ s <= created.sessions
  <2>1. s \in AllPooled
    BY <1>3, <1>6 DEF AllPooled
  <2> QED
    BY <1>1, <2>1 DEF Pooling
<1> DEFINE aq == Tail(q)
<1>8. \A m \in AckModes : available'[m] = IF m = ackMode THEN aq ELSE available[m]
  BY <1>0, <1>3
<1> HIDE DEF aq
<1>9. /\ calls' \in Seq(Cms!Frames) /\ Len(calls') = Len(calls) /\ Len(calls) \in Nat \ {0}
      /\ Cms!Holders(s)' = Cms!Holders(s) \cup {Len(calls)}
      /\ \A x \in 1..MaxSessions : x # s => Cms!Holders(x)' = Cms!Holders(x)
  BY <1>2, <1>5, TakesIt
<1>10. Stacked' /\ Living'
  <2>1. Cms!Alive(s)'
    BY <1>2, <1>7 DEF Cms!Alive, AllPooled
  <2>2. created.sessions \in Nat /\ created' = created
    BY <1>1, <1>2, Bounds DEF Cms!TypeOK
  <2>3. AllPooled' = AllPooled /\ managed' = managed
    BY <1>2 DEF AllPooled
  <2> QED
    BY <1>2, <1>5, <1>7, <2>1, <2>2, <2>3, TakeKeeps
<1>11. Cms!TypeOK'
  <2>1. available' \in [AckModes -> Seq(1..MaxSessions)]
    BY <1>2, <1>3, <1>5
  <2>2. defaultDestinationName' \in Names \cup {Cms!None} /\ pubSubDomain' \in BOOLEAN /\ ackMode' \in AckModes
        /\ handled' \in BOOLEAN /\ undefined' \in BOOLEAN /\ initialized' \in BOOLEAN /\ pools' \in BOOLEAN
    BY <1>1, <1>2, Zenon DEF Cms!TypeOK, Cms!settingVars
  <2>3. /\ connection' = connection /\ pooled' = pooled /\ cache' = cache /\ resolved' = resolved
        /\ managed' = managed /\ defaultDestination' = defaultDestination /\ created' = created
        /\ returned' = returned
    BY <1>2
  <2> QED
    BY <1>1, <1>9, <2>1, <2>2, <2>3 DEF Cms!TypeOK
<1>12. Pooling'
  BY <1>1, <1>2 DEF Pooling, AllPooled
<1>13. Owned'
  <2>0. pooled' = pooled /\ returned' = returned
    BY <1>2
  <2>1. \A i \in 1..Len(aq) : i + 1 \in 1..Len(q) /\ aq[i] = q[i + 1]
    BY <1>5 DEF aq
  <2>2. \A i \in 2..Len(q) : i - 1 \in 1..Len(aq) /\ aq[i - 1] = q[i]
    BY <1>5 DEF aq
  <2>3. \A x : In(x, q) /\ x # s => In(x, aq)
    BY <1>5, <2>2 DEF In
  <2>4. \A x : In(x, aq) => In(x, q) /\ (x # s \/ x \in returned)
    <3> SUFFICES ASSUME NEW i \in 1..Len(aq)
                 PROVE  In(aq[i], q) /\ (aq[i] # s \/ aq[i] \in returned)
      BY DEF In
    <3>1. \A j, k \in 1..Len(q) : q[j] = q[k] => j = k \/ q[j] \in returned
      BY <1>1, <1>3 DEF Owned, q
    <3>2. i + 1 # 1 /\ 1 \in 1..Len(q) /\ i + 1 \in 1..Len(q)
      BY <1>5, <2>1
    <3> QED
      BY <1>5, <2>1, <3>1, <3>2 DEF In
  <2>5. \A i, j \in 1..Len(aq) : aq[i] = aq[j] => i = j \/ aq[i] \in returned
    <3>1. \A j, k \in 1..Len(q) : q[j] = q[k] => j = k \/ q[j] \in returned
      BY <1>1, <1>3 DEF Owned, q
    <3> SUFFICES ASSUME NEW i \in 1..Len(aq), NEW j \in 1..Len(aq), aq[i] = aq[j],
                        aq[i] \notin returned
                 PROVE  i = j
      OBVIOUS
    <3>2. i + 1 = j + 1
      BY <2>1, <3>1
    <3> QED
      BY <3>2
  <2> SUFFICES ASSUME NEW m \in AckModes
      PROVE  /\ \A i, j \in 1..Len(available'[m]) :
                   available'[m][i] = available'[m][j] => i = j \/ available'[m][i] \in returned
             /\ \A i \in 1..Len(available'[m]) : available'[m][i] \in pooled[m]
             /\ \A x \in pooled[m] :
                   /\ x \notin returned =>
                         IF In(x, available'[m]) THEN Cms!Holders(x)' = {}
                         ELSE \E i \in 1..Len(calls) : Cms!Holders(x)' = {i}
                   /\ \A n \in AckModes \ {m} : x \notin pooled[n]
    BY <1>9, <2>0 DEF Owned, In
  <2>6. pooled[m] \subseteq 1..MaxSessions /\ Len(calls) \in 1..Len(calls)
    BY <1>1, <1>9 DEF Cms!TypeOK
  <2>7. CASE m = ackMode
    <3>1. available'[m] = aq /\ available[m] = q
      BY <1>8, <2>7 DEF q
    <3>2. \A i \in 1..Len(aq) : aq[i] \in pooled[m]
      BY <1>1, <2>1, <3>1 DEF Owned
    <3>3. ASSUME NEW x \in pooled[m]
          PROVE  /\ x \notin returned =>
                       IF In(x, aq) THEN Cms!Holders(x)' = {}
                       ELSE \E i \in 1..Len(calls) : Cms!Holders(x)' = {i}
                 /\ \A n \in AckModes \ {m} : x \notin pooled[n]
      <4>1. /\ x \notin returned =>
                  IF In(x, q) THEN Cms!Holders(x) = {} ELSE \E i \in 1..Len(calls) : Cms!Holders(x) = {i}
            /\ \A n \in AckModes \ {m} : x \notin pooled[n]
        BY <1>1, <3>1 DEF Owned
      <4>2. CASE x = s
        <5>1. x \notin returned => ~In(x, aq)
          BY <2>4, <4>2
        <5>2. x \notin returned => Cms!Holders(x)' = {Len(calls)}
          BY <1>6, <1>9, <4>2
        <5> QED
          BY <2>6, <4>1, <5>1, <5>2
      <4>3. CASE x # s
        <5>1. Cms!Holders(x)' = Cms!Holders(x)
          BY <1>9, <2>6, <4>3
        <5>2. In(x, q) <=> In(x, aq)
          BY <2>3, <2>4, <4>3
        <5> QED
          BY <4>1, <5>1, <5>2
      <4> QED
        BY <4>2, <4>3
    <3> QED
      BY <2>5, <3>1, <3>2, <3>3
  <2>8. CASE m # ackMode
    <3>1. available'[m] = available[m]
      BY <1>8, <2>8
    <3>2. \A x \in pooled[m] : x # s
      BY <1>1, <1>3, <1>6, <2>8 DEF Owned
    <3>3. \A x \in pooled[m] : Cms!Holders(x)' = Cms!Holders(x)
      BY <1>9, <2>6, <3>2
    <3> QED
      BY <1>1, <3>1, <3>3 DEF Owned
  <2> QED
    BY <2>7, <2>8
<1>14. Cms!NothingStale'
  BY <1>1, <1>2 DEF Cms!NothingStale, Cms!Named, Cms!settingVars
<1> QED
  BY <1>10, <1>11, <1>12, <1>13, <1>14 DEF Held

LEMMA TakeNewKeeps ==
    ASSUME TemplateInv, Cms!TakeNew
    PROVE  Held'
<1>1. Cms!TypeOK /\ Stacked /\ Pooling /\ Owned /\ Living /\ Cms!NothingStale
  BY DEF TemplateInv, Held
<1> PICK s : s = created.sessions + 1
  OBVIOUS
<1>2. /\ Cms!TopAt("taking") /\ pools /\ available[ackMode] = <<>> /\ created.sessions < MaxSessions
      /\ created' = [created EXCEPT !.sessions = s]
      /\ managed' = [managed EXCEPT !.sessions = @ \cup {s}]
      /\ pooled' = [pooled EXCEPT ![ackMode] = @ \cup {s}] /\ Cms!Taken(s)
      /\ UNCHANGED <<initialized, connection, pools, available, cache, resolved,
                     defaultDestination, Cms!settingVars, handled, returned, undefined>>
  BY DEF Cms!TakeNew
<1>3. /\ ackMode \in AckModes /\ pooled \in [AckModes -> SUBSET (1..MaxSessions)]
      /\ managed \in [sessions : SUBSET (1..MaxSessions), destinations : SUBSET Cms!Resolved]
      /\ created \in [sessions : 0..MaxSessions, connections : 0..MaxConnections]
      /\ MaxSessions \in Nat
  BY <1>1, Bounds DEF Cms!TypeOK
<1>4. /\ s \in 1..MaxSessions /\ s \in Nat /\ created.sessions \in Nat
      /\ created' \in [sessions : 0..MaxSessions, connections : 0..MaxConnections]
      /\ created'.sessions = s
  BY <1>2, <1>3
<1>5. /\ managed' \in [sessions : SUBSET (1..MaxSessions), destinations : SUBSET Cms!Resolved]
      /\ managed'.sessions = managed.sessions \cup {s}
      /\ managed'.destinations = managed.destinations
  BY <1>2, <1>3, <1>4
<1>6. /\ pooled' \in [AckModes -> SUBSET (1..MaxSessions)]
      /\ \A m \in AckModes : pooled'[m] = IF m = ackMode THEN pooled[m] \cup {s} ELSE pooled[m]
  BY <1>2, <1>3, <1>4
<1>7. AllPooled' = AllPooled \cup {s}
  BY <1>3, <1>6 DEF AllPooled
<1>8. s \notin AllPooled /\ \A m \in AckModes : s \notin pooled[m]
  <2>1. s \notin 1..created.sessions
    BY <1>4
  <2>2. s \notin AllPooled
    BY <1>1, <2>1 DEF Pooling
  <2> QED
    BY <2>2 DEF AllPooled
<1>9. /\ calls' \in Seq(Cms!Frames) /\ Len(calls') = Len(calls) /\ Len(calls) \in Nat \ {0}
      /\ Cms!Holders(s)' = Cms!Holders(s) \cup {Len(calls)}
      /\ \A x \in 1..MaxSessions : x # s => Cms!Holders(x)' = Cms!Holders(x)
  BY <1>2, <1>4, TakesIt
<1>10. Cms!Holders(s) = {}
  <2> SUFFICES ASSUME NEW i \in 1..Len(calls) PROVE calls[i].session # s
    BY DEF Cms!Holders
  <2>1. calls[i] \in Cms!Frames
    BY <1>1, ElementOfSeq DEF Cms!TypeOK
  <2>2. calls[i].session \in Nat /\ calls[i].session <= created.sessions
    BY <1>1, <1>3, <2>1 DEF Cms!Frames, Stacked
  <2> QED
    BY <1>4, <2>2
<1>11. Stacked' /\ Living'
  <2>1. Cms!Alive(s)'
    BY <1>5, <1>7 DEF Cms!Alive, AllPooled
  <2>2. created.sessions <= created'.sessions /\ created'.sessions \in Nat /\ s <= created'.sessions
    BY <1>4
  <2>3. AllPooled \subseteq AllPooled' /\ managed.sessions \subseteq managed'.sessions
    BY <1>5, <1>7
  <2> QED
    BY <1>2, <1>4, <2>1, <2>2, <2>3, TakeKeeps
<1>12. Cms!TypeOK'
  <2>1. defaultDestinationName' \in Names \cup {Cms!None} /\ pubSubDomain' \in BOOLEAN /\ ackMode' \in AckModes
        /\ handled' \in BOOLEAN /\ undefined' \in BOOLEAN /\ initialized' \in BOOLEAN /\ pools' \in BOOLEAN
    BY <1>1, <1>2, Zenon DEF Cms!TypeOK, Cms!settingVars
  <2>2. /\ connection' = connection /\ available' = available /\ cache' = cache /\ resolved' = resolved
        /\ defaultDestination' = defaultDestination /\ returned' = returned
    BY <1>2
  <2>3. \A c \in cache' : /\ c.session \in UNION {pooled'[m] : m \in AckModes}
                          /\ c.kind \in {"producer", "consumer"}
                          /\ c.dest \in Cms!Destination \cup Objects
    <3>1. \A c \in cache : /\ c.session \in AllPooled /\ c.kind \in {"producer", "consumer"}
                           /\ c.dest \in Cms!Destination \cup Objects
      BY <1>1 DEF Cms!TypeOK, AllPooled
    <3>2. \A c \in cache' : c.session \in AllPooled'
      BY <1>7, <2>2, <3>1
    <3> QED
      BY <2>2, <3>1, <3>2 DEF AllPooled
  <2>4. returned' \subseteq UNION {pooled'[m] : m \in AckModes}
    BY <1>1, <1>7, <2>2 DEF Cms!TypeOK, AllPooled
  <2> QED
    BY <1>1, <1>4, <1>5, <1>6, <1>9, <2>1, <2>2, <2>3, <2>4 DEF Cms!TypeOK
<1>13. Pooling'
  <2>1. pools' = pools /\ connection' = connection /\ resolved' = resolved /\ connection # 0
    BY <1>1, <1>2 DEF Pooling
  <2>2. \A x \in AllPooled' : x \in 1..created'.sessions /\ x \in managed'.sessions
    <3>1. \A x \in AllPooled : x \in 1..created.sessions /\ x \in managed.sessions
      BY <1>1 DEF Pooling
    <3>2. 1..created.sessions \subseteq 1..s /\ s \in 1..s
      BY <1>4
    <3> QED
      BY <1>4, <1>5, <1>7, <3>1, <3>2
  <2> QED
    BY <1>1, <1>5, <2>1, <2>2 DEF Pooling
<1>14. Owned'
  <2>0. available' = available /\ returned' = returned
    BY <1>2
  <2> SUFFICES ASSUME NEW m \in AckModes
      PROVE  /\ \A i, j \in 1..Len(available[m]) :
                   available[m][i] = available[m][j] => i = j \/ available[m][i] \in returned
             /\ \A i \in 1..Len(available[m]) : available[m][i] \in pooled'[m]
             /\ \A x \in pooled'[m] :
                   /\ x \notin returned =>
                         IF In(x, available[m]) THEN Cms!Holders(x)' = {}
                         ELSE \E i \in 1..Len(calls) : Cms!Holders(x)' = {i}
                   /\ \A n \in AckModes \ {m} : x \notin pooled'[n]
    BY <1>9, <2>0 DEF Owned, In
  <2>1. /\ \A i, j \in 1..Len(available[m]) :
              available[m][i] = available[m][j] => i = j \/ available[m][i] \in returned
        /\ \A i \in 1..Len(available[m]) : available[m][i] \in pooled[m]
        /\ \A x \in pooled[m] :
              /\ x \notin returned =>
                    IF In(x, available[m]) THEN Cms!Holders(x) = {}
                    ELSE \E i \in 1..Len(calls) : Cms!Holders(x) = {i}
              /\ \A n \in AckModes \ {m} : x \notin pooled[n]
    BY <1>1 DEF Owned
  <2>2. ASSUME NEW x \in pooled'[m]
        PROVE  /\ x \notin returned =>
                     IF In(x, available[m]) THEN Cms!Holders(x)' = {}
                     ELSE \E i \in 1..Len(calls) : Cms!Holders(x)' = {i}
               /\ \A n \in AckModes \ {m} : x \notin pooled'[n]
    <3>1. CASE x = s
      <4>1. m = ackMode
        BY <1>6, <1>8, <3>1
      <4>2. \A n \in AckModes \ {m} : x \notin pooled'[n]
        BY <1>6, <1>8, <3>1, <4>1
      <4>3. ~In(x, available[m])
        BY <1>2, <4>1, EmptySeq DEF In
      <4>4. Cms!Holders(x)' = {Len(calls)} /\ Len(calls) \in 1..Len(calls)
        BY <1>9, <1>10, <3>1
      <4> QED
        BY <4>2, <4>3, <4>4
    <3>2. CASE x # s
      <4>1. x \in pooled[m] /\ x \in 1..MaxSessions
        BY <1>3, <1>6, <3>2
      <4>2. Cms!Holders(x)' = Cms!Holders(x)
        BY <1>9, <3>2, <4>1
      <4>3. \A n \in AckModes \ {m} : x \notin pooled'[n]
        BY <1>6, <2>1, <3>2, <4>1
      <4> QED
        BY <2>1, <4>1, <4>2, <4>3
    <3> QED
      BY <3>1, <3>2
  <2>3. \A i \in 1..Len(available[m]) : available[m][i] \in pooled'[m]
    BY <1>6, <2>1
  <2> QED
    BY <2>1, <2>2, <2>3
<1>15. Cms!NothingStale'
  BY <1>1, <1>2, <1>5 DEF Cms!NothingStale, Cms!Named, Cms!settingVars
<1> QED
  BY <1>11, <1>12, <1>13, <1>14, <1>15 DEF Held

LEMMA FinishKeeps ==
    ASSUME TemplateInv, Cms!Finish
    PROVE  Held'
<1>1. Cms!TypeOK /\ Stacked /\ Pooling /\ Owned /\ Living /\ Cms!NothingStale
  BY DEF TemplateInv, Held
<1> PICK s : s = Cms!Top.session
  OBVIOUS
<1>2. /\ Cms!TopAt("callback") /\ Cms!Alive(s) /\ calls' = Cms!Below
      /\ available' = [m \in AckModes |-> IF s \in pooled[m] THEN Append(available[m], s) ELSE available[m]]
      /\ UNCHANGED <<initialized, connection, pools, pooled, cache, resolved, managed,
                     defaultDestination, Cms!settingVars, created, returned, undefined>>
  BY DEF Cms!Finish, Cms!ReturnSession
<1>3. calls # <<>> /\ Cms!Top.at = "callback" /\ ~undefined
  BY <1>2 DEF Cms!TopAt
<1>4. /\ Len(calls) \in Nat \ {0} /\ Cms!Top \in Cms!Frames /\ Cms!Top = calls[Len(calls)]
      /\ calls' \in Seq(Cms!Frames) /\ Len(calls') = Len(calls) - 1
      /\ \A i \in 1..(Len(calls) - 1) : calls'[i] = calls[i]
  BY <1>1, <1>2, <1>3, StackIs
<1>5. \A i \in 1..Len(calls') : i \in 1..Len(calls) /\ i # Len(calls) /\ calls'[i] = calls[i]
                                  /\ calls[i].at = "callback"
  <2>1. \A i \in 1..Len(calls') : i \in 1..Len(calls) /\ i # Len(calls) /\ calls'[i] = calls[i]
    BY <1>4
  <2> QED
    BY <1>1, <2>1 DEF Stacked
<1>6. \A x : Cms!Holders(x)' = Cms!Holders(x) \ {Len(calls)}
  <2>1. \A i \in 1..Len(calls) : i # Len(calls) => i \in 1..Len(calls')
    BY <1>4
  <2> QED
    BY <1>5, <2>1 DEF Cms!Holders
<1>7. Len(calls) \in Cms!Holders(s) /\ \A x : x # s => Len(calls) \notin Cms!Holders(x)
  BY <1>4 DEF Cms!Holders
<1>8. Cms!TypeOK'
  <2>1. available' \in [AckModes -> Seq(1..MaxSessions)]
    <3>1. s \in 1..MaxSessions
      BY <1>1, <1>2 DEF Cms!TypeOK, Cms!Alive
    <3>2. \A m \in AckModes : available[m] \in Seq(1..MaxSessions)
      BY <1>1 DEF Cms!TypeOK
    <3>3. \A m \in AckModes : Append(available[m], s) \in Seq(1..MaxSessions)
      BY <3>1, <3>2, AppendProperties
    <3> QED
      BY <1>2, <3>2, <3>3
  <2>2. defaultDestinationName' \in Names \cup {Cms!None} /\ pubSubDomain' \in BOOLEAN /\ ackMode' \in AckModes
        /\ undefined' \in BOOLEAN /\ initialized' \in BOOLEAN /\ pools' \in BOOLEAN
    BY <1>1, <1>2, Zenon DEF Cms!TypeOK, Cms!settingVars
  <2>5. handled' \in BOOLEAN
    BY Zenon DEF Cms!Finish
  <2>3. /\ connection' = connection /\ pooled' = pooled /\ cache' = cache /\ resolved' = resolved
        /\ managed' = managed /\ defaultDestination' = defaultDestination /\ created' = created
        /\ returned' = returned
    BY <1>2
  <2>4. Len(calls') <= MaxDepth
    BY <1>1, <1>4, Bounds DEF Cms!TypeOK
  <2> QED
    BY <1>1, <1>4, <2>1, <2>2, <2>3, <2>4, <2>5 DEF Cms!TypeOK
<1>9. Stacked'
  <2>1. \A i \in 1..Len(calls') : calls'[i].session <= created'.sessions
    BY <1>1, <1>2, <1>5 DEF Stacked
  <2> QED
    BY <1>5, <2>1 DEF Stacked
<1>10. Pooling'
  BY <1>1, <1>2 DEF Pooling, AllPooled
<1>11. Living'
  <2>1. ~handled => \A i \in 1..Len(calls) : calls[i].at = "callback" => Cms!Alive(calls[i].session)
    BY <1>1, <1>3 DEF Living
  <2>2. ~handled => (\A i \in 1..Len(calls) : calls[i].at = "callback" => Cms!Alive(calls[i].session))'
    BY <1>2, <1>5, <2>1 DEF Cms!Alive
  <2>3. calls' # <<>> => Len(calls') \in 1..Len(calls')
    BY <1>4, EmptySeq
  <2>4. calls' # <<>> => (Cms!Top.at)' # "caught"
    BY <1>5, <2>3 DEF Cms!Top
  <2>5. calls' # <<>> => (handled' <=> handled)
    BY <1>2, Zenon DEF Cms!Finish
  <2> QED
    BY <1>2, <2>2, <2>4, <2>5 DEF Living
<1>12. Owned'
  <2>0. pooled' = pooled /\ returned' = returned
    BY <1>2
  <2> SUFFICES ASSUME NEW m \in AckModes
      PROVE  /\ \A i, j \in 1..Len(available'[m]) :
                   available'[m][i] = available'[m][j] => i = j \/ available'[m][i] \in returned
             /\ \A i \in 1..Len(available'[m]) : available'[m][i] \in pooled[m]
             /\ \A x \in pooled[m] :
                   /\ x \notin returned =>
                         IF In(x, available'[m]) THEN Cms!Holders(x)' = {}
                         ELSE \E i \in 1..Len(calls') : Cms!Holders(x)' = {i}
                   /\ \A n \in AckModes \ {m} : x \notin pooled[n]
    BY <2>0 DEF Owned, In
  <2> DEFINE q == available[m]
  <2>1. /\ \A i, j \in 1..Len(q) : q[i] = q[j] => i = j \/ q[i] \in returned
        /\ \A i \in 1..Len(q) : q[i] \in pooled[m]
        /\ \A x \in pooled[m] :
              /\ x \notin returned =>
                    IF In(x, q) THEN Cms!Holders(x) = {} ELSE \E i \in 1..Len(calls) : Cms!Holders(x) = {i}
              /\ \A n \in AckModes \ {m} : x \notin pooled[n]
    BY <1>1 DEF Owned
  <2>2. q \in Seq(1..MaxSessions)
    BY <1>1 DEF Cms!TypeOK
  <2>3. available'[m] = IF s \in pooled[m] THEN Append(q, s) ELSE q
    BY <1>2
  <2> HIDE DEF q
  <2>4. ASSUME NEW x \in pooled[m], x # s, x \notin returned
        PROVE  IF In(x, q) THEN Cms!Holders(x)' = {} ELSE \E i \in 1..Len(calls') : Cms!Holders(x)' = {i}
    <3>1. Cms!Holders(x)' = Cms!Holders(x)
      BY <1>6, <1>7, <2>4
    <3>2. CASE In(x, q)
      BY <2>1, <2>4, <3>1, <3>2
    <3>3. CASE ~In(x, q)
      <4>1. PICK i \in 1..Len(calls) : Cms!Holders(x) = {i}
        BY <2>1, <2>4, <3>3
      <4>2. i # Len(calls)
        BY <1>7, <2>4, <4>1
      <4>3. i \in 1..Len(calls')
        BY <1>4, <4>2
      <4> QED
        BY <3>1, <3>3, <4>1, <4>3
    <3> QED
      BY <3>2, <3>3
  <2>5. CASE s \notin pooled[m]
    BY <2>1, <2>3, <2>4, <2>5
  <2>6. CASE s \in pooled[m]
    <3>1. ASSUME s \notin returned PROVE ~In(s, q) /\ Cms!Holders(s)' = {}
      <4>1. ~In(s, q)
        BY <1>7, <2>1, <2>6, <3>1
      <4>2. PICK i \in 1..Len(calls) : Cms!Holders(s) = {i}
        BY <2>1, <2>6, <3>1, <4>1
      <4> QED
        BY <1>6, <1>7, <4>1, <4>2
    <3> DEFINE a == Append(q, s)
    <3>2. s \in 1..MaxSessions
      BY <1>1, <2>6 DEF Cms!TypeOK
    <3>3. /\ Len(a) = Len(q) + 1 /\ a[Len(q) + 1] = s /\ Len(q) \in Nat
          /\ \A i \in 1..Len(q) : a[i] = q[i]
      BY <2>2, <3>2, AppendProperties
    <3> HIDE DEF a
    <3>4. \A i \in 1..Len(a) : i \in 1..Len(q) \/ i = Len(q) + 1
      BY <3>3
    <3>5. s \notin returned => \A i \in 1..Len(q) : q[i] # s
      BY <3>1 DEF In
    <3>6. \A i, j \in 1..Len(a) : a[i] = a[j] => i = j \/ a[i] \in returned
      BY <2>1, <3>3, <3>4, <3>5
    <3>7. \A i \in 1..Len(a) : a[i] \in pooled[m]
      BY <2>1, <2>6, <3>3, <3>4
    <3>8. In(s, a) /\ \A x : x # s => (In(x, a) <=> In(x, q))
      <4>1. Len(q) + 1 \in 1..Len(a) /\ 1..Len(q) \subseteq 1..Len(a)
        BY <3>3
      <4> QED
        BY <3>3, <3>4, <4>1 DEF In
    <3>9. available'[m] = a
      BY <2>3, <2>6 DEF a
    <3>10. ASSUME NEW x \in pooled[m], x \notin returned
           PROVE  IF In(x, a) THEN Cms!Holders(x)' = {} ELSE \E i \in 1..Len(calls') : Cms!Holders(x)' = {i}
      <4>1. CASE x = s
        BY <3>1, <3>8, <3>10, <4>1
      <4>2. CASE x # s
        BY <2>4, <3>8, <3>10, <4>2
      <4> QED
        BY <4>1, <4>2
    <3> QED
      BY <2>1, <3>6, <3>7, <3>9, <3>10
  <2> QED
    BY <2>5, <2>6
<1>13. Cms!NothingStale'
  BY <1>1, <1>2, <1>3 DEF Cms!NothingStale, Cms!Named, Cms!settingVars
<1> QED
  BY <1>8, <1>9, <1>10, <1>11, <1>12, <1>13 DEF Held

\* A callback closes its session: that one is excepted from now on.
LEMMA CloseSessionKeeps ==
    ASSUME TemplateInv, Cms!CloseSession
    PROVE  Held'
<1>1. Cms!TypeOK /\ Stacked /\ Pooling /\ Owned /\ Living /\ Cms!NothingStale
  BY DEF TemplateInv, Held
<1> PICK s : s = Cms!Top.session
  OBVIOUS
<1>2. /\ Cms!Alive(s) /\ returned' = returned \cup {s}
      /\ available' = [m \in AckModes |-> IF s \in pooled[m] THEN Append(available[m], s) ELSE available[m]]
      /\ UNCHANGED <<initialized, connection, pools, pooled, cache, resolved, managed,
                     defaultDestination, Cms!settingVars, calls, created, handled, undefined>>
  BY DEF Cms!CloseSession, Cms!ReturnSession
<1>3. s \in AllPooled /\ s \in 1..MaxSessions
  BY <1>1, <1>2 DEF Cms!Alive, AllPooled, Cms!TypeOK
<1>4. \A m \in AckModes :
         /\ available[m] \in Seq(1..MaxSessions)
         /\ s \in pooled[m] =>
              /\ available'[m] \in Seq(1..MaxSessions)
              /\ Len(available[m]) \in Nat /\ Len(available'[m]) = Len(available[m]) + 1
              /\ \A i \in 1..Len(available[m]) : available'[m][i] = available[m][i]
              /\ available'[m][Len(available[m]) + 1] = s
         /\ s \notin pooled[m] => available'[m] = available[m]
  <2> SUFFICES ASSUME NEW m \in AckModes
      PROVE  /\ available[m] \in Seq(1..MaxSessions)
             /\ s \in pooled[m] =>
                  /\ available'[m] \in Seq(1..MaxSessions)
                  /\ Len(available[m]) \in Nat /\ Len(available'[m]) = Len(available[m]) + 1
                  /\ \A i \in 1..Len(available[m]) : available'[m][i] = available[m][i]
                  /\ available'[m][Len(available[m]) + 1] = s
             /\ s \notin pooled[m] => available'[m] = available[m]
    OBVIOUS
  <2>1. available[m] \in Seq(1..MaxSessions)
    BY <1>1 DEF Cms!TypeOK
  <2>2. available'[m] = IF s \in pooled[m] THEN Append(available[m], s) ELSE available[m]
    BY <1>2
  <2> DEFINE q == available[m]
  <2>3. /\ Append(q, s) \in Seq(1..MaxSessions)
        /\ Len(q) \in Nat /\ Len(Append(q, s)) = Len(q) + 1
        /\ \A i \in 1..Len(q) : Append(q, s)[i] = q[i]
        /\ Append(q, s)[Len(q) + 1] = s
    <3> HIDE DEF q
    <3>1. q \in Seq(1..MaxSessions) /\ s \in 1..MaxSessions
      BY <1>3, <2>1 DEF q
    <3> QED
      BY <3>1, AppendProperties
  <2> QED
    BY <2>1, <2>2, <2>3
<1>5. Cms!TypeOK'
  <2>1. available' \in [AckModes -> Seq(1..MaxSessions)]
    BY <1>2, <1>4
  <2>2. defaultDestinationName' \in Names \cup {Cms!None} /\ pubSubDomain' \in BOOLEAN /\ ackMode' \in AckModes
        /\ handled' \in BOOLEAN /\ undefined' \in BOOLEAN /\ initialized' \in BOOLEAN /\ pools' \in BOOLEAN
    BY <1>1, <1>2, Zenon DEF Cms!TypeOK, Cms!settingVars
  <2>3. /\ connection' = connection /\ pooled' = pooled /\ cache' = cache /\ resolved' = resolved
        /\ managed' = managed /\ defaultDestination' = defaultDestination /\ created' = created
        /\ calls' = calls
    BY <1>2
  <2>4. returned' \subseteq UNION {pooled[m] : m \in AckModes}
    BY <1>1, <1>2, <1>3 DEF Cms!TypeOK, AllPooled
  <2> QED
    BY <1>1, <2>1, <2>2, <2>3, <2>4 DEF Cms!TypeOK
<1>6. Stacked' /\ Pooling' /\ Living'
  BY <1>1, <1>2 DEF Stacked, Pooling, Living, Cms!Top, Cms!Alive, AllPooled
<1>7. Owned'
  <2>1. pooled' = pooled /\ calls' = calls /\ returned' = returned \cup {s}
    BY <1>2
  <2>2. \A x : Cms!Holders(x)' = Cms!Holders(x)
    BY <2>1 DEF Cms!Holders
  <2> SUFFICES ASSUME NEW m \in AckModes
      PROVE  /\ \A i, j \in 1..Len(available'[m]) :
                   available'[m][i] = available'[m][j] => i = j \/ available'[m][i] \in returned \cup {s}
             /\ \A i \in 1..Len(available'[m]) : available'[m][i] \in pooled[m]
             /\ \A x \in pooled[m] :
                   /\ x \notin returned \cup {s} =>
                         IF In(x, available'[m]) THEN Cms!Holders(x) = {}
                         ELSE \E i \in 1..Len(calls) : Cms!Holders(x) = {i}
                   /\ \A n \in AckModes \ {m} : x \notin pooled[n]
    BY <2>1, <2>2 DEF Owned, In
  <2> DEFINE q == available[m]
             a == available'[m]
  <2>3. /\ \A i, j \in 1..Len(q) : q[i] = q[j] => i = j \/ q[i] \in returned
        /\ \A i \in 1..Len(q) : q[i] \in pooled[m]
        /\ \A x \in pooled[m] :
              /\ x \notin returned =>
                    IF In(x, q) THEN Cms!Holders(x) = {} ELSE \E i \in 1..Len(calls) : Cms!Holders(x) = {i}
              /\ \A n \in AckModes \ {m} : x \notin pooled[n]
    BY <1>1 DEF Owned
  <2>4. \/ s \notin pooled[m] /\ a = q
        \/ /\ s \in pooled[m] /\ Len(q) \in Nat /\ Len(a) = Len(q) + 1 /\ a[Len(q) + 1] = s
           /\ \A i \in 1..Len(q) : a[i] = q[i]
    BY <1>4
  <2> HIDE DEF q, a
  <2>5. \A x : x # s => (In(x, a) <=> In(x, q))
    <3>1. CASE a = q
      BY <3>1
    <3>2. CASE Len(q) \in Nat /\ Len(a) = Len(q) + 1 /\ a[Len(q) + 1] = s
                 /\ \A i \in 1..Len(q) : a[i] = q[i]
      <4>1. \A i \in 1..Len(a) : i \in 1..Len(q) \/ i = Len(q) + 1
        BY <3>2
      <4>2. 1..Len(q) \subseteq 1..Len(a)
        BY <3>2
      <4> QED
        BY <3>2, <4>1, <4>2 DEF In
    <3> QED
      BY <2>4, <3>1, <3>2
  <2>6. \A i \in 1..Len(a) : a[i] = s \/ (i \in 1..Len(q) /\ a[i] = q[i])
    BY <2>4
  <2>7. \A i \in 1..Len(a) : a[i] \in pooled[m]
    BY <2>3, <2>4
  <2>8. \A i, j \in 1..Len(a) : a[i] = a[j] => i = j \/ a[i] \in returned \cup {s}
    BY <2>3, <2>6
  <2> QED
    BY <2>3, <2>5, <2>7, <2>8 DEF a
<1>8. Cms!NothingStale'
  BY <1>1, <1>2 DEF Cms!NothingStale, Cms!Named, Cms!settingVars
<1> QED
  BY <1>5, <1>6, <1>7, <1>8 DEF Held

\* Unless a failure has been handled, a step that would use something deleted
\* cannot be taken.
LEMMA UseDeletedKeeps ==
    ASSUME TemplateInv, Cms!UseDeleted
    PROVE  Held'
<1>1. Cms!TypeOK /\ Stacked /\ Pooling /\ Owned /\ Living /\ Cms!NothingStale
  BY DEF TemplateInv, Held
<1>2. undefined' = TRUE /\ UNCHANGED <<Cms!resourceVars, Cms!settingVars, calls, created, handled, returned>>
  BY DEF Cms!UseDeleted
<1>3. calls # <<>>
  BY DEF Cms!UseDeleted, Cms!TopAt
<1>4. Len(calls) \in 1..Len(calls) /\ Cms!Top = calls[Len(calls)]
  BY <1>1, <1>3, StackIs
<1>5. handled
  <2>1. CASE Cms!TopAt("taking") /\ ~pools
    BY <1>1, <1>4, <2>1 DEF Cms!TopAt, Stacked, Pooling
  <2>2. CASE Cms!TopAt("creating") /\ ~Cms!Alive(Cms!Top.session)
    BY <1>1, <1>4, <2>2 DEF Cms!TopAt, Stacked
  <2>3. CASE Cms!TopAt("callback") /\ ~Cms!Alive(Cms!Top.session)
    BY <1>1, <1>3, <1>4, <2>3 DEF Cms!TopAt, Living
  <2>4. CASE defaultDestination.by = "template" /\ defaultDestination.object \notin managed.destinations
    BY <1>1, <2>4 DEF Cms!NothingStale
  <2> QED
    BY <2>1, <2>2, <2>3, <2>4 DEF Cms!UseDeleted
<1>6. Cms!TypeOK'
  BY <1>1, <1>2 DEF Cms!TypeOK, Cms!resourceVars, Cms!settingVars
<1>7. Stacked' /\ Pooling' /\ Living'
  BY <1>1, <1>2 DEF Stacked, Pooling, Living, Cms!Top, Cms!Alive, AllPooled, Cms!resourceVars
<1>8. Owned'
  BY <1>1, <1>2, OwnedKept DEF Cms!resourceVars
<1>9. Cms!NothingStale'
  BY <1>1, <1>2, <1>5 DEF Cms!NothingStale, Cms!Named, Cms!resourceVars, Cms!settingVars
<1> QED
  BY <1>6, <1>7, <1>8, <1>9 DEF Held

\* A setting that names the default destination anew drops the old one.
LEMMA SettingsKeep ==
    ASSUME TemplateInv,
           UNCHANGED <<initialized, connection, pools, pooled, available, cache, resolved,
                       managed, calls, created, handled, returned, undefined>>,
           defaultDestinationName' \in Names \cup {Cms!None}, pubSubDomain' \in BOOLEAN,
           ackMode' \in AckModes,
           \/ defaultDestination' = Cms!NoDefault
           \/ defaultDestination' \in [by : {"application"}, dest : Objects]
           \/ UNCHANGED <<defaultDestination, defaultDestinationName, pubSubDomain>>
    PROVE  Held'
<1>1. Cms!TypeOK /\ Stacked /\ Pooling /\ Owned /\ Living /\ Cms!NothingStale
  BY DEF TemplateInv, Held
<1>2. Cms!TypeOK'
  <2>1. defaultDestination' \in {Cms!NoDefault} \cup [by : {"application"}, dest : Objects]
                                  \cup [by : {"template"}, object : Cms!Resolved]
    BY <1>1 DEF Cms!TypeOK
  <2>2. initialized' \in BOOLEAN /\ pools' \in BOOLEAN /\ handled' \in BOOLEAN /\ undefined' \in BOOLEAN
    BY <1>1, Zenon DEF Cms!TypeOK
  <2> QED
    BY <1>1, <2>1, <2>2 DEF Cms!TypeOK
<1>3. Stacked' /\ Pooling' /\ Living'
  BY <1>1 DEF Stacked, Pooling, Living, Cms!Top, Cms!Alive, AllPooled
<1>4. Owned'
  BY <1>1, OwnedKept
<1>5. Cms!NothingStale'
  <2>1. CASE defaultDestination' = Cms!NoDefault
    BY <1>1, <2>1 DEF Cms!NothingStale, Cms!NoDefault, Cms!None
  <2>2. CASE defaultDestination' \in [by : {"application"}, dest : Objects]
    <3>1. defaultDestination'.by # "template"
      BY <2>2
    <3> QED
      BY <1>1, <3>1 DEF Cms!NothingStale
  <2>3. CASE UNCHANGED <<defaultDestination, defaultDestinationName, pubSubDomain>>
    BY <1>1, <2>3 DEF Cms!NothingStale, Cms!Named
  <2> QED
    BY <2>1, <2>2, <2>3
<1> QED
  BY <1>2, <1>3, <1>4, <1>5 DEF Held

LEMMA SettersKeep ==
    ASSUME TemplateInv,
           \/ \E d \in Objects : Cms!SetDefaultDestination(d)
           \/ \E n \in Names \cup {Cms!None} : Cms!SetDefaultDestinationName(n)
           \/ Cms!SetPubSubDomain
           \/ \E m \in AckModes : Cms!SetSessionAcknowledgeMode(m)
    PROVE  Held'
<1>1. defaultDestinationName \in Names \cup {Cms!None} /\ pubSubDomain \in BOOLEAN /\ ackMode \in AckModes
  BY DEF TemplateInv, Held, Cms!TypeOK
<1>2. ASSUME NEW d \in Objects, Cms!SetDefaultDestination(d)
      PROVE  Held'
  <2>1. defaultDestination' \in [by : {"application"}, dest : Objects]
    BY <1>2 DEF Cms!SetDefaultDestination
  <2> QED
    BY <1>1, <1>2, <2>1, SettingsKeep DEF Cms!SetDefaultDestination, Cms!settingVars
<1>3. ASSUME NEW n \in Names \cup {Cms!None}, Cms!SetDefaultDestinationName(n)
      PROVE  Held'
  BY <1>1, <1>3, SettingsKeep DEF Cms!SetDefaultDestinationName
<1>4. CASE Cms!SetPubSubDomain
  <2>1. pubSubDomain' \in BOOLEAN
    BY <1>4, Zenon DEF Cms!SetPubSubDomain
  <2> QED
    BY <1>1, <1>4, <2>1, SettingsKeep DEF Cms!SetPubSubDomain
<1>5. ASSUME NEW m \in AckModes, Cms!SetSessionAcknowledgeMode(m)
      PROVE  Held'
  BY <1>1, <1>5, SettingsKeep DEF Cms!SetSessionAcknowledgeMode, Cms!resourceVars
<1> QED
  BY <1>2, <1>3, <1>4, <1>5

LEMMA TemplateStarts == Cms!BoundsAssumption /\ Cms!RequestsAssumption /\ Cms!Init => TemplateInv
<1> SUFFICES ASSUME Cms!BoundsAssumption, Cms!RequestsAssumption, Cms!Init PROVE TemplateInv
  OBVIOUS
<1>1. /\ initialized = FALSE /\ connection = 0 /\ pools = FALSE /\ calls = <<>>
      /\ pooled = [m \in AckModes |-> {}] /\ available = [m \in AckModes |-> <<>>]
      /\ cache = {} /\ resolved = {} /\ managed = [sessions |-> {}, destinations |-> {}]
      /\ defaultDestination = Cms!NoDefault /\ defaultDestinationName = Cms!None
      /\ pubSubDomain = FALSE /\ ackMode \in AckModes
      /\ created = [sessions |-> 0, connections |-> 0]
      /\ handled = FALSE /\ returned = {} /\ undefined = FALSE
  BY DEF Cms!Init
<1>2. \A m \in AckModes : pooled[m] = {} /\ available[m] = <<>>
  BY <1>1
<1>3. Cms!TypeOK
  <2>1. pooled \in [AckModes -> SUBSET (1..MaxSessions)] /\ available \in [AckModes -> Seq(1..MaxSessions)]
    BY <1>1, EmptySeq
  <2>2. 0 \in 0..MaxSessions /\ 0 \in 0..MaxConnections /\ 0 <= MaxDepth
    BY DEF Cms!BoundsAssumption
  <2>3. calls \in Seq(Cms!Frames) /\ Len(calls) <= MaxDepth
    BY <1>1, <2>2, EmptySeq
  <2>4. managed \in [sessions : SUBSET (1..MaxSessions), destinations : SUBSET Cms!Resolved]
    BY <1>1
  <2> QED
    BY <1>1, <2>1, <2>2, <2>3, <2>4 DEF Cms!TypeOK
<1>4. Stacked /\ Living
  BY <1>1, EmptySeq DEF Stacked, Living
<1>5. Pooling
  BY <1>1, <1>2 DEF Pooling, AllPooled
<1>6. Owned
  BY <1>2, EmptySeq DEF Owned
<1>7. Cms!NothingStale
  BY <1>1 DEF Cms!NothingStale, Cms!NoDefault, Cms!None
<1> QED
  BY <1>3, <1>4, <1>5, <1>6, <1>7 DEF TemplateInv, Held

LEMMA TemplateStep == TemplateInv /\ [Cms!Next]_(Cms!vars) => TemplateInv'
<1> SUFFICES ASSUME TemplateInv, [Cms!Next]_(Cms!vars) PROVE Held'
  BY DEF TemplateInv, Cms!BoundsAssumption, Cms!RequestsAssumption, Cms!Targets, Cms!None
<1>1. CASE Cms!ThrowInCall \/ Cms!StartThrows \/ Cms!PassOn
  BY <1>1, ThrowsKeep
<1>2. CASE Cms!Handle
  BY <1>2, HandleKeeps
<1>3. CASE \E request \in Requests : Cms!Execute(request)
  BY <1>3, ExecuteKeeps
<1>4. CASE Cms!HaveConnection
  BY <1>4, HaveConnectionKeeps
<1>5. CASE Cms!GetConnection
  BY <1>5, GetConnectionKeeps
<1>6. CASE Cms!TakeAvailable
  BY <1>6, TakeAvailableKeeps
<1>7. CASE Cms!TakeNew
  BY <1>7, TakeNewKeeps
<1>8. CASE Cms!CreateForObject
  BY <1>8, CreateForObjectKeeps
<1>9. CASE Cms!CreateForName
  BY <1>9, CreateForNameKeeps
<1>10. CASE Cms!CreateForDefaultName
  BY <1>10, CreateForDefaultNameKeeps
<1>11. CASE Cms!CreateForDefault
  BY <1>11, CreateForDefaultKeeps
<1>12. CASE Cms!Finish
  BY <1>12, FinishKeeps
<1>13. CASE Cms!UseDeleted
  BY <1>13, UseDeletedKeeps
<1>14. CASE \/ \E d \in Objects : Cms!SetDefaultDestination(d)
            \/ \E n \in Names \cup {Cms!None} : Cms!SetDefaultDestinationName(n)
            \/ Cms!SetPubSubDomain
            \/ \E m \in AckModes : Cms!SetSessionAcknowledgeMode(m)
  BY <1>14, SettersKeep
<1>15. CASE Cms!CloseSession
  BY <1>15, CloseSessionKeeps
<1>16. CASE UNCHANGED Cms!vars
  <2>1. /\ defaultDestinationName' \in Names \cup {Cms!None} /\ pubSubDomain' \in BOOLEAN
        /\ ackMode' \in AckModes
    BY <1>16, Zenon DEF TemplateInv, Held, Cms!TypeOK, Cms!vars, Cms!settingVars
  <2> QED
    BY <1>16, <2>1, SettingsKeep DEF Cms!vars, Cms!resourceVars, Cms!settingVars
<1> QED
  BY <1>1, <1>2, <1>3, <1>4, <1>5, <1>6, <1>7, <1>8, <1>9, <1>10, <1>11, <1>12,
     <1>13, <1>14, <1>15, <1>16 DEF Cms!Next

LEMMA TemplateInvariant == Cms!BoundsAssumption /\ Cms!RequestsAssumption /\ Cms!Spec => []TemplateInv
<1> QED
  BY TemplateStarts, TemplateStep, PTL DEF Cms!Spec

\* Whatever fails in whichever of the nested calls of a template, its pools,
\* its cache, its resolver and its calls keep their types, and a client is
\* cached only for a session that is pooled.
THEOREM TemplateTypeCorrect ==
    Cms!BoundsAssumption /\ Cms!RequestsAssumption /\ Cms!Spec => []Cms!TypeOK
<1>1. TemplateInv => Cms!TypeOK
  BY DEF TemplateInv, Held
<1> QED
  BY <1>1, TemplateInvariant, PTL

\* The instance's Cardinality is that of the theorems on finite sets.
LEMMA SameCardinality == \A S : Cms!Cardinality(S) = Cardinality(S)
  BY DEF Cms!Cardinality, Cardinality, Cms!IsFiniteSet, IsFiniteSet

\* However deep the calls of a template nest and wherever they fail, a pooled
\* session that no callback has closed itself is available once or has one
\* user, nothing deleted is used unless a callback of the calls in progress has
\* handled a failure, and the default destination the template keeps is live
\* and what its settings name.
THEOREM ResourcesStay ==
    Cms!BoundsAssumption /\ Cms!RequestsAssumption /\ Cms!Spec => []Cms!ResourcesHold
<1>1. TemplateInv => Cms!ResourcesHold
  <2> SUFFICES ASSUME TemplateInv PROVE Cms!ResourcesHold
    OBVIOUS
  <2>1. Owned /\ Cms!NothingStale
    BY DEF TemplateInv, Held
  <2>2. ASSUME NEW m \in AckModes, NEW s \in pooled[m], s \notin returned
        PROVE  Cms!Cardinality(Cms!Holders(s)) =
                  IF \E i \in 1..Len(available[m]) : available[m][i] = s THEN 0 ELSE 1
    <3>1. CASE In(s, available[m])
      <4>1. Cms!Holders(s) = {}
        BY <2>1, <2>2, <3>1 DEF Owned
      <4>2. Cms!Cardinality(Cms!Holders(s)) = 0
        BY <4>1, SameCardinality, FS_EmptySet
      <4> QED
        BY <3>1, <4>2 DEF In
    <3>2. CASE ~In(s, available[m])
      <4>1. PICK i \in 1..Len(calls) : Cms!Holders(s) = {i}
        BY <2>1, <2>2, <3>2 DEF Owned
      <4>2. Cms!Cardinality(Cms!Holders(s)) = 1
        BY <4>1, SameCardinality, FS_Singleton
      <4> QED
        BY <3>2, <4>2 DEF In
    <3> QED
      BY <3>1, <3>2
  <2>3. Cms!SessionOwnedOnce
    BY <2>1, <2>2 DEF Cms!SessionOwnedOnce, Owned
  <2> QED
    BY <2>1, <2>3 DEF Cms!ResourcesHold
<1> QED
  BY <1>1, TemplateInvariant, PTL
=============================================================================
