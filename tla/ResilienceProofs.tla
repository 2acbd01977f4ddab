-------------------------- MODULE ResilienceProofs --------------------------
(***************************************************************************)
(* Theorems about the two libraries that limit load: RateLimiter between   *)
(* the service and its clients, for any number of threads and clients, any *)
(* rate, burst and clean-up interval; and CircuitBreaker between the       *)
(* service and what it calls, for any number of threads, any threshold and *)
(* any timeout.                                                            *)
(***************************************************************************)
EXTENDS RateLimiter, CircuitBreaker, TLAPS

\* What a thread holds at each place in the code.
Placed(t) ==
    LET j == thread[t]
    IN  /\ j.pc = "idle" => j = Idle
        /\ j.pc # "idle" => j.client \in Clients
        /\ j.pc = "consume" => ~j.denied
        /\ j.pc = "register" => ~j.denied
        /\ j.pc \notin {"idle", "register"} => registry # None
        /\ j.pc \in {"bucket", "consume", "wait_time"} => j.limiter \in Limiters
        /\ j.pc \in {"idle", "register", "limiter"} => j.limiter = None
        /\ j.pc \in {"consume", "wait_time"} => j.bucket \in Buckets
        /\ j.pc \in {"idle", "register", "limiter", "bucket"} => j.bucket = None

PlaceInv == \A t \in Threads : Placed(t)

\* What a bucket would hold if it were refilled now.
Level(b) == Least(Burst, heap[b].tokens + heap[b].idle)

\* The bucket may still be used for a request of the client.
Serves(b, c) ==
    \/ \E l \in Limiters : tables[l][c] = b
    \/ \E t \in Threads : thread[t].bucket = b /\ thread[t].client = c

\* A dropped limiter is blank, a dropped bucket is full, and two clients share no bucket.
MemoryInv ==
    /\ \A l \in Limiters : l \notin Created(registry, thread) =>
         \A c \in Clients : tables[l][c] = None
    /\ \A b \in Buckets : b \notin InUse(registry, thread) => heap[b] = Full
    /\ \A b \in Buckets, c, d \in Clients : Serves(b, c) /\ Serves(b, d) => c = d

\* No bucket of a client holds less than the client's credit.
CreditInv ==
    \A b \in Buckets, c \in Clients : Serves(b, c) => credit[c] <= Level(b)

\* As long as nothing was abandoned, the bucket of a client holds just its credit.
ExactInv ==
    ~abandoned =>
        /\ ~excess
        /\ \A t \in Threads : thread[t].limiter \in {None, registry}
        /\ \A c \in Clients :
             IF registry # None /\ tables[registry][c] # None
               THEN Level(tables[registry][c]) = credit[c]
               ELSE credit[c] = Burst

-----------------------------------------------------------------------------
(***************************************************************************)
(* Types.                                                                  *)
(***************************************************************************)

\* Refilling gives a bucket, and what it would hold stays the same.
LEMMA RefilledOK ==
    ASSUME NEW b \in Bucket
    PROVE  /\ Refilled(b) \in Bucket
           /\ Least(Burst, b.tokens + b.idle) \in 0 .. Burst
           /\ Refilled(b).tokens = Least(Burst, b.tokens + b.idle)
           /\ Refilled(b).idle = 0
  BY LimiterAssumption DEF Bucket, Refilled, Least

LEMMA FullOK == Full \in Bucket /\ Idle \in Thread
  BY LimiterAssumption DEF Full, Bucket, Idle, Thread, PCs

\* Collecting garbage preserves the types of what it touches.
LEMMA CollectOK ==
    ASSUME TypeOK, NEW h \in [Buckets -> Bucket], Collect(h)
    PROVE  /\ tables' \in [Limiters -> [Clients -> Buckets \cup {None}]]
           /\ cleaned' \in [Limiters -> 0 .. CleanupInterval]
           /\ heap' \in [Buckets -> Bucket]
  BY LimiterAssumption, FullOK DEF Collect, TypeOK

LEMMA InitOK == Init => TypeOK /\ PlaceInv
<1> SUFFICES ASSUME Init PROVE TypeOK /\ PlaceInv
  OBVIOUS
<1>1. TypeOK
  <2>1. cleaned \in [Limiters -> 0 .. CleanupInterval] /\ credit \in [Clients -> 0 .. Burst]
    BY LimiterAssumption DEF Init
  <2>2. heap \in [Buckets -> Bucket] /\ thread \in [Threads -> Thread]
    BY FullOK DEF Init
  <2>3. tables \in [Limiters -> [Clients -> Buckets \cup {None}]]
    BY DEF Init
  <2> QED BY <2>1, <2>2, <2>3 DEF Init, TypeOK
<1>2. PlaceInv
  BY DEF Init, PlaceInv, Placed, Idle
<1> QED BY <1>1, <1>2

LEMMA RequestOK ==
    ASSUME TypeOK, PlaceInv, NEW t \in Threads, NEW client \in Clients, Request(t, client)
    PROVE  TypeOK' /\ PlaceInv'
  BY LimiterAssumption DEF Request, TypeOK, PlaceInv, Placed, Thread, PCs, Idle

LEMMA RegisterOK ==
    ASSUME TypeOK, PlaceInv, NEW t \in Threads, Register(t)
    PROVE  TypeOK' /\ PlaceInv'
<1>1. registry' \in Limiters
  BY DEF Register
<1>2. thread' \in [Threads -> Thread]
  BY DEF Register, TypeOK, Thread, PCs
<1>3. TypeOK'
  <2>1. heap \in [Buckets -> Bucket] /\ Collect(heap)
    BY DEF Register, TypeOK
  <2> QED BY <1>1, <1>2, <2>1, CollectOK DEF Register, TypeOK
<1>4. PlaceInv'
  BY <1>1, LimiterAssumption DEF Register, TypeOK, PlaceInv, Placed, Thread, PCs, Idle
<1> QED BY <1>3, <1>4

LEMMA GetLimiterOK ==
    ASSUME TypeOK, PlaceInv, NEW t \in Threads, GetLimiter(t)
    PROVE  TypeOK' /\ PlaceInv'
<1>1. registry \in Limiters
  BY DEF GetLimiter, TypeOK, PlaceInv, Placed
<1> QED BY <1>1, LimiterAssumption DEF GetLimiter, TypeOK, PlaceInv, Placed, Thread, PCs, Idle

\* What the sweep does to tables and buckets.
LEMMA SweptOK ==
    ASSUME TypeOK, NEW l \in Limiters
    PROVE  /\ Swept(l) \in [Buckets -> Bucket]
           /\ Kept(l) \in [Clients -> Buckets \cup {None}]
           /\ \A k \in Clients : Kept(l)[k] \in {None, tables[l][k]}
           /\ \A b \in Buckets :
                Least(Burst, Swept(l)[b].tokens + Swept(l)[b].idle) = Level(b)
<1>1. Swept(l) \in [Buckets -> Bucket]
  BY RefilledOK DEF Swept, TypeOK
<1>2. Kept(l) \in [Clients -> Buckets \cup {None}]
  BY DEF Kept, TypeOK
<1>3. \A k \in Clients : Kept(l)[k] \in {None, tables[l][k]}
  BY DEF Kept
<1>4. ASSUME NEW b \in Buckets
      PROVE  Least(Burst, Swept(l)[b].tokens + Swept(l)[b].idle) = Level(b)
  <2>1. heap[b] \in Bucket
    BY DEF TypeOK
  <2>2. Swept(l)[b] \in {heap[b], Refilled(heap[b])}
    BY DEF Swept
  <2>3. CASE Swept(l)[b] = heap[b]
    BY <2>3 DEF Level
  <2>4. CASE Swept(l)[b] = Refilled(heap[b])
    BY <2>1, <2>4, RefilledOK, LimiterAssumption DEF Level, Least, Bucket
  <2> QED BY <2>2, <2>3, <2>4
<1> QED BY <1>1, <1>2, <1>3, <1>4

\* The bucket that _get_bucket() returns: one that was kept, or a free one.
LEMMA PickedOK ==
    ASSUME TypeOK, NEW l \in Limiters, NEW c \in Clients,
           Buckets \ InUse(registry, thread) # {}
    PROVE  /\ Picked(l, c) \in Buckets
           /\ \/ Picked(l, c) = tables[l][c] /\ Kept(l)[c] = tables[l][c]
              \/ Picked(l, c) \notin InUse(registry, thread) /\ Kept(l)[c] = None
<1>1. CASE Kept(l)[c] # None
  BY <1>1, SweptOK DEF Picked
<1>2. CASE Kept(l)[c] = None
  BY <1>2 DEF Picked
<1> QED BY <1>1, <1>2

LEMMA GetBucketOK ==
    ASSUME TypeOK, PlaceInv, NEW t \in Threads, GetBucket(t)
    PROVE  TypeOK' /\ PlaceInv'
<1> DEFINE l == thread[t].limiter
           c == thread[t].client
<1>1. /\ l \in Limiters /\ c \in Clients
      /\ thread[t].pc = "bucket" /\ thread[t] \in Thread /\ registry # None
  BY DEF GetBucket, TypeOK, PlaceInv, Placed
<1>2. Picked(l, c) \in Buckets
  BY <1>1, PickedOK DEF GetBucket
<1> HIDE DEF l, c
<1>3. tables' \in [Limiters -> [Clients -> Buckets \cup {None}]]
  <2>1. [Kept(l) EXCEPT ![c] = Picked(l, c)] \in [Clients -> Buckets \cup {None}]
    BY <1>1, <1>2, SweptOK
  <2>2. tables' = [tables EXCEPT ![l] = [Kept(l) EXCEPT ![c] = Picked(l, c)]]
    BY DEF GetBucket, l, c
  <2> QED BY <1>1, <2>1, <2>2 DEF TypeOK
<1>4. heap' \in [Buckets -> Bucket]
  BY <1>1, SweptOK DEF GetBucket, l
<1>5. cleaned' \in [Limiters -> 0 .. CleanupInterval]
  <2>1. 0 \in 0 .. CleanupInterval
    BY LimiterAssumption
  <2> QED BY <1>1, <2>1 DEF GetBucket, TypeOK
<1>6. /\ thread' = [thread EXCEPT ![t].bucket = Picked(l, c),
                                  ![t].pc = IF thread[t].denied THEN "wait_time" ELSE "consume"]
      /\ UNCHANGED <<registry, credit, excess, abandoned>>
  BY DEF GetBucket, l, c
<1>7. thread' \in [Threads -> Thread]
  BY <1>1, <1>2, <1>6 DEF TypeOK, Thread, PCs
<1>8. PlaceInv'
  BY <1>1, <1>2, <1>6 DEF TypeOK, PlaceInv, Placed, Thread, l, c
<1>9. UNCHANGED <<registry, credit, excess, abandoned>>
  BY <1>6
<1> QED BY <1>3, <1>4, <1>5, <1>7, <1>8, <1>9 DEF TypeOK

LEMMA ConsumeOK ==
    ASSUME TypeOK, PlaceInv, NEW t \in Threads, Consume(t)
    PROVE  TypeOK' /\ PlaceInv'
<1> DEFINE b == thread[t].bucket
           c == thread[t].client
           now == Refilled(heap[b])
<1>1. b \in Buckets /\ c \in Clients /\ registry # None /\ thread[t].pc = "consume"
  BY DEF Consume, PlaceInv, Placed
<1>2. now \in Bucket
  BY <1>1, RefilledOK DEF TypeOK
<1>3. CASE Admitted(t)
  <2> DEFINE h == [heap EXCEPT ![b] = [now EXCEPT !.tokens = @ - Cost]]
  <2>1. /\ thread' = [thread EXCEPT ![t] = Idle]
        /\ credit' = [credit EXCEPT ![c] = IF @ >= Cost THEN @ - Cost ELSE 0]
        /\ excess' \in BOOLEAN /\ abandoned' \in BOOLEAN
        /\ registry' = registry /\ Collect(h)
    BY <1>3 DEF Consume, TypeOK
  <2>2. now.tokens - Cost \in 0 .. Burst
    BY <1>2, <1>3, LimiterAssumption DEF Admitted, Bucket
  <2>3. h \in [Buckets -> Bucket]
    BY <1>1, <1>2, <2>2 DEF TypeOK, Bucket
  <2>4. credit' \in [Clients -> 0 .. Burst]
    BY <1>1, <2>1, LimiterAssumption DEF TypeOK
  <2>5. thread' \in [Threads -> Thread]
    BY <2>1, FullOK DEF TypeOK
  <2>6. TypeOK'
    BY <2>1, <2>3, <2>4, <2>5, CollectOK DEF TypeOK
  <2>7. PlaceInv'
    BY <2>1 DEF TypeOK, PlaceInv, Placed, Idle
  <2> QED BY <2>6, <2>7
<1>4. CASE ~Admitted(t)
  <2> DEFINE h == [heap EXCEPT ![b] = now]
             j == [Idle EXCEPT !.pc = "limiter", !.client = c, !.denied = TRUE]
  <2>1. /\ thread' = [thread EXCEPT ![t] = j]
        /\ UNCHANGED <<registry, credit, excess, abandoned>> /\ Collect(h)
    BY <1>4 DEF Consume
  <2>2. h \in [Buckets -> Bucket]
    BY <1>1, <1>2 DEF TypeOK
  <2>3. j \in Thread
    BY <1>1 DEF Idle, Thread, PCs
  <2>4. TypeOK'
    BY <2>1, <2>2, <2>3, CollectOK DEF TypeOK
  <2>5. PlaceInv'
    BY <1>1, <2>1 DEF TypeOK, PlaceInv, Placed, Idle
  <2> QED BY <2>4, <2>5
<1> QED BY <1>3, <1>4

LEMMA WaitTimeOK ==
    ASSUME TypeOK, PlaceInv, NEW t \in Threads, WaitTime(t)
    PROVE  TypeOK' /\ PlaceInv'
<1> DEFINE h == [heap EXCEPT ![thread[t].bucket] = Refilled(@)]
<1>1. thread[t].bucket \in Buckets
  BY DEF WaitTime, PlaceInv, Placed
<1>2. h \in [Buckets -> Bucket]
  BY <1>1, RefilledOK DEF TypeOK
<1>3. /\ thread' = [thread EXCEPT ![t] = Idle]
      /\ UNCHANGED <<registry, credit, excess, abandoned>> /\ Collect(h)
  BY DEF WaitTime, Finish
<1>4. TypeOK'
  BY <1>2, <1>3, CollectOK, FullOK DEF TypeOK
<1>5. PlaceInv'
  BY <1>3 DEF TypeOK, PlaceInv, Placed, Idle
<1> QED BY <1>4, <1>5

LEMMA TickOK == TypeOK /\ PlaceInv /\ Tick => TypeOK' /\ PlaceInv'
<1> SUFFICES ASSUME TypeOK, PlaceInv, Tick PROVE TypeOK' /\ PlaceInv'
  OBVIOUS
<1>1. \A b \in Bucket : [b EXCEPT !.idle = Least(Burst, @ + 1)] \in Bucket
  BY LimiterAssumption DEF Bucket, Least
<1>2. heap' \in [Buckets -> Bucket]
  BY <1>1 DEF Tick, TypeOK
<1>3. cleaned' \in [Limiters -> 0 .. CleanupInterval] /\ credit' \in [Clients -> 0 .. Burst]
  BY LimiterAssumption DEF Tick, TypeOK, Least
<1>4. TypeOK'
  BY <1>2, <1>3 DEF Tick, TypeOK
<1>5. PlaceInv'
  BY DEF Tick, PlaceInv, Placed
<1> QED BY <1>4, <1>5

LEMMA NextTyped == TypeOK /\ PlaceInv /\ [Next]_vars => TypeOK' /\ PlaceInv'
<1> SUFFICES ASSUME TypeOK, PlaceInv, [Next]_vars PROVE TypeOK' /\ PlaceInv'
  OBVIOUS
<1>1. ASSUME NEW t \in Threads, Step(t) PROVE TypeOK' /\ PlaceInv'
  BY <1>1, RequestOK, RegisterOK, GetLimiterOK, GetBucketOK, ConsumeOK, WaitTimeOK DEF Step
<1>2. CASE UNCHANGED vars
  BY <1>2 DEF vars, TypeOK, PlaceInv, Placed
<1> QED BY <1>1, <1>2, TickOK DEF Next

\* The types of all variables hold in every reachable state.
THEOREM TypeCorrect == Spec => []TypeOK
<1>1. Spec => [](TypeOK /\ PlaceInv)
  BY InitOK, NextTyped, PTL DEF Spec
<1> QED BY <1>1, PTL

-----------------------------------------------------------------------------
(***************************************************************************)
(* Memory.                                                                 *)
(***************************************************************************)

Memory == TypeOK /\ PlaceInv /\ MemoryInv

\* A bucket is in use if it may serve somebody.
LEMMA ServingIsUse ==
    ASSUME Memory, NEW b \in Buckets, NEW c \in Clients, Serves(b, c)
    PROVE  b \in InUse(registry, thread)
<1>1. b # None
  BY LimiterAssumption
<1>2. CASE \E l \in Limiters : tables[l][c] = b
  BY <1>1, <1>2 DEF Memory, MemoryInv, InUse
<1>3. CASE \E t \in Threads : thread[t].bucket = b /\ thread[t].client = c
  BY <1>1, <1>3 DEF InUse
<1> QED BY <1>2, <1>3 DEF Serves

\* A step that collects garbage, after a thread has let go of its bucket.
LEMMA CollectStep ==
    ASSUME Memory, TypeOK', PlaceInv', NEW h, Collect(h), NEW t \in Threads,
           \A u \in Threads \ {t} : thread'[u] = thread[u],
           thread'[t].bucket = None
    PROVE  /\ MemoryInv'
           /\ \A b \in Buckets, c \in Clients : Serves(b, c)' => Serves(b, c) /\ heap'[b] = h[b]
           /\ \A l \in Limiters : l \in Created(registry', thread') => tables'[l] = tables[l]
<1>1. \A l \in Limiters :
        IF l \in Created(registry', thread') THEN tables'[l] = tables[l]
        ELSE \A c \in Clients : tables'[l][c] = None
  BY DEF Collect
<1>2. InUse(registry', thread') = InUse(registry, thread)'
  <2>1. Created(registry', thread') \subseteq Limiters
    BY DEF Created, TypeOK, Thread
  <2>2. Created(registry', thread') = Created(registry, thread)'
    BY DEF Created
  <2>3. \A l \in Created(registry', thread') : tables'[l] = tables[l]
    BY <1>1, <2>1
  <2> QED BY <2>2, <2>3 DEF InUse
<1>3. \A b \in Buckets :
        heap'[b] = IF b \in InUse(registry, thread)' THEN h[b] ELSE Full
  BY <1>2 DEF Collect
<1>4. ASSUME NEW b \in Buckets, NEW c \in Clients, Serves(b, c)'
      PROVE  Serves(b, c) /\ b \in InUse(registry, thread)'
  <2>1. b # None
    BY LimiterAssumption
  <2>2. CASE \E l \in Limiters : tables'[l][c] = b
    BY <1>1, <2>1, <2>2 DEF Serves, InUse
  <2>3. CASE \E u \in Threads : thread'[u].bucket = b /\ thread'[u].client = c
    BY <2>1, <2>3 DEF Serves, InUse
  <2> QED BY <1>4, <2>2, <2>3 DEF Serves
<1>5. MemoryInv'
  <2>1. \A l \in Limiters : l \notin Created(registry, thread)' =>
          \A c \in Clients : tables'[l][c] = None
    BY <1>1 DEF Created
  <2>2. \A b \in Buckets, c, d \in Clients : Serves(b, c)' /\ Serves(b, d)' => c = d
    BY <1>4 DEF Memory, MemoryInv
  <2> QED BY <1>3, <2>1, <2>2 DEF MemoryInv
<1> QED BY <1>1, <1>3, <1>4, <1>5

\* A step that leaves the memory alone and gives no thread a bucket.
LEMMA QuietStep ==
    ASSUME Memory, UNCHANGED <<tables, heap>>,
           Created(registry, thread)' = Created(registry, thread),
           \A u \in Threads : \/ thread'[u].bucket = thread[u].bucket
                                   /\ thread'[u].client = thread[u].client
                              \/ thread'[u].bucket = None /\ thread[u].bucket = None
    PROVE  /\ MemoryInv'
           /\ \A b \in Buckets, c \in Clients : Serves(b, c)' => Serves(b, c)
<1>1. \A b \in Buckets : b # None
  BY LimiterAssumption
<1>2. InUse(registry, thread)' = InUse(registry, thread)
  BY DEF InUse
<1>3. \A b \in Buckets, c \in Clients : Serves(b, c)' => Serves(b, c)
  BY <1>1 DEF Serves
<1> QED BY <1>2, <1>3 DEF Memory, MemoryInv

\* _get_bucket() gives away a bucket of the client, or one that serves nobody.
LEMMA GetBucketServes ==
    ASSUME Memory, TypeOK', PlaceInv', NEW t \in Threads, GetBucket(t),
           NEW l, l = thread[t].limiter, NEW c, c = thread[t].client
    PROVE  /\ l \in Limiters /\ c \in Clients /\ Picked(l, c) \in Buckets
           /\ Created(registry, thread)' = Created(registry, thread)
           /\ \A b \in Buckets, d \in Clients :
                Serves(b, d)' =>
                  \/ Serves(b, d)
                  \/ b = Picked(l, c) /\ d = c /\ b \notin InUse(registry, thread)
           /\ \A b \in InUse(registry, thread) :
                \/ b \in InUse(registry, thread)'
                \/ \E k \in Clients : tables[l][k] = b /\ Kept(l)[k] = None
<1>1. l \in Limiters /\ c \in Clients /\ thread[t] \in Thread /\ thread[t].bucket = None
  BY DEF GetBucket, Memory, TypeOK, PlaceInv, Placed
<1>2. /\ Picked(l, c) \in Buckets
      /\ \/ Picked(l, c) = tables[l][c] /\ Kept(l)[c] = tables[l][c]
         \/ Picked(l, c) \notin InUse(registry, thread) /\ Kept(l)[c] = None
  BY <1>1, PickedOK DEF GetBucket, Memory
<1>3. /\ \A m \in Limiters \ {l} : tables'[m] = tables[m]
      /\ \A k \in Clients \ {c} : tables'[l][k] = Kept(l)[k]
      /\ tables'[l][c] = Picked(l, c)
  BY <1>1, SweptOK DEF GetBucket, Memory, TypeOK
<1>4. /\ \A u \in Threads \ {t} : thread'[u] = thread[u]
      /\ thread'[t].bucket = Picked(l, c) /\ thread'[t].client = c /\ thread'[t].limiter = l
      /\ registry' = registry
  BY <1>1 DEF GetBucket, Memory, TypeOK, Thread
<1>5. Created(registry, thread)' = Created(registry, thread)
  BY <1>4 DEF Created
<1>6. \A k \in Clients : Kept(l)[k] \in {None, tables[l][k]}
  BY <1>1, SweptOK DEF Memory
<1>7. \A b \in Buckets : b # None
  BY LimiterAssumption
<1>8. ASSUME NEW b \in Buckets, NEW d \in Clients, Serves(b, d)'
      PROVE  \/ Serves(b, d)
             \/ b = Picked(l, c) /\ d = c /\ b \notin InUse(registry, thread)
  <2>1. CASE b = Picked(l, c) /\ d = c
    BY <1>1, <1>2, <2>1 DEF Serves
  <2>2. CASE ~(b = Picked(l, c) /\ d = c)
    <3>1. CASE \E m \in Limiters : tables'[m][d] = b
      BY <1>3, <1>6, <1>7, <2>2, <3>1 DEF Serves
    <3>2. CASE \E u \in Threads : thread'[u].bucket = b /\ thread'[u].client = d
      BY <1>4, <2>2, <3>2 DEF Serves
    <3> QED BY <1>8, <3>1, <3>2 DEF Serves
  <2> QED BY <2>1, <2>2
<1>9. ASSUME NEW b \in InUse(registry, thread), b \notin InUse(registry, thread)'
      PROVE  \E k \in Clients : tables[l][k] = b /\ Kept(l)[k] = None
  <2>0. b # None
    BY DEF InUse
  <2>1. ~ \E u \in Threads : thread[u].bucket = b
    BY <1>1, <1>4, <1>9, <2>0 DEF InUse
  <2>2. PICK m \in Created(registry, thread), k \in Clients : tables[m][k] = b
    BY <2>1 DEF InUse
  <2>3. m = l
    <3>1. m \in Limiters
      BY DEF Created, Memory, TypeOK, Thread
    <3>2. CASE m # l
      <4>1. tables'[m][k] = b /\ m \in Created(registry, thread)'
        BY <1>3, <1>5, <2>2, <3>1, <3>2
      <4> QED BY <1>9, <2>0, <4>1 DEF InUse
    <3> QED BY <3>2
  <2>4. tables'[l][k] # b
    BY <1>5, <1>9, <2>0, <2>2, <2>3 DEF InUse
  <2>5. Kept(l)[k] # b
    BY <1>2, <1>3, <2>0, <2>2, <2>3, <2>4
  <2> QED BY <1>6, <2>2, <2>3, <2>5
<1> QED BY <1>1, <1>2, <1>5, <1>8, <1>9

-----------------------------------------------------------------------------
(***************************************************************************)
(* Credit.                                                                 *)
(***************************************************************************)

Inv == Memory /\ CreditInv /\ ExactInv

LEMMA LevelOK ==
    ASSUME Memory, NEW b \in Buckets
    PROVE  heap[b] \in Bucket /\ Level(b) \in 0 .. Burst
  BY RefilledOK DEF Memory, TypeOK, Level

\* A bucket that the clean-up drops was full.
LEMMA DroppedFull ==
    ASSUME Memory, NEW l \in Limiters, NEW k \in Clients,
           tables[l][k] # None, Kept(l)[k] = None
    PROVE  Level(tables[l][k]) = Burst /\ Swept(l)[tables[l][k]] = Full
<1> DEFINE b == tables[l][k]
<1>1. b \in Buckets /\ Due(l) /\ Stale(Swept(l), b)
  BY DEF Memory, TypeOK, Kept
<1>2. Swept(l)[b] = Refilled(heap[b]) /\ heap[b] \in Bucket
  BY <1>1 DEF Swept, Memory, TypeOK
<1>3. Refilled(heap[b]).tokens = Burst /\ Level(b) = Burst
  BY <1>1, <1>2, RefilledOK, LimiterAssumption DEF Stale, Level
<1>4. Refilled(heap[b]) = Full
  BY <1>2, <1>3 DEF Refilled, Full
<1> QED BY <1>2, <1>3, <1>4

LEMMA InvInit == Init => Inv
<1> SUFFICES ASSUME Init PROVE Inv
  OBVIOUS
<1>1. TypeOK /\ PlaceInv
  BY InitOK
<1>2. \A b \in Buckets : b # None
  BY LimiterAssumption
<1>3. \A b \in Buckets, c \in Clients : ~ Serves(b, c)
  BY <1>2 DEF Init, Serves, Idle
<1>4. MemoryInv
  BY <1>3 DEF Init, MemoryInv
<1>5. CreditInv
  BY <1>3 DEF CreditInv
<1>6. ExactInv
  BY DEF Init, ExactInv, Idle
<1> QED BY <1>1, <1>4, <1>5, <1>6 DEF Inv, Memory

LEMMA InvRequest ==
    ASSUME Inv, NEW t \in Threads, NEW client \in Clients, Request(t, client)
    PROVE  Inv'
<1>1. TypeOK' /\ PlaceInv'
  BY RequestOK DEF Inv, Memory
<1>2. /\ thread[t] \in Thread /\ thread[t].limiter = None /\ thread[t].bucket = None
      /\ UNCHANGED <<registry, tables, cleaned, heap, credit, excess, abandoned>>
      /\ thread'[t].limiter = None /\ thread'[t].bucket = None
      /\ \A u \in Threads \ {t} : thread'[u] = thread[u]
  BY DEF Request, Inv, Memory, TypeOK, PlaceInv, Placed, Thread
<1>3. Created(registry, thread)' = Created(registry, thread)
  BY <1>2 DEF Created
<1>4. MemoryInv' /\ \A b \in Buckets, c \in Clients : Serves(b, c)' => Serves(b, c)
  BY <1>2, <1>3, QuietStep DEF Inv
<1>5. CreditInv'
  BY <1>2, <1>4 DEF Inv, CreditInv, Level
<1>6. ExactInv'
  BY <1>2 DEF Inv, ExactInv, Level
<1> QED BY <1>1, <1>4, <1>5, <1>6 DEF Inv, Memory

LEMMA InvRegister ==
    ASSUME Inv, NEW t \in Threads, Register(t)
    PROVE  Inv'
<1>1. TypeOK' /\ PlaceInv'
  BY RegisterOK DEF Inv, Memory
<1>2. /\ registry' \in Limiters /\ registry' \notin Created(registry, thread)
      /\ abandoned' = (abandoned \/ registry # None)
      /\ UNCHANGED <<credit, excess>> /\ Collect(heap)
  BY DEF Register
<1>3. /\ thread[t].limiter = None
      /\ thread'[t].bucket = None /\ thread'[t].limiter = None
      /\ \A u \in Threads \ {t} : thread'[u] = thread[u]
  BY DEF Register, Inv, Memory, TypeOK, PlaceInv, Placed, Thread
<1>4. /\ MemoryInv'
      /\ \A b \in Buckets, c \in Clients : Serves(b, c)' => Serves(b, c) /\ heap'[b] = heap[b]
      /\ tables'[registry'] = tables[registry']
  <2>1. registry' \in Created(registry', thread')
    BY <1>2, LimiterAssumption DEF Created
  <2> QED BY <1>1, <1>2, <1>3, <2>1, CollectStep DEF Inv
<1>5. CreditInv'
  BY <1>2, <1>4 DEF Inv, CreditInv, Level
<1>6. ExactInv'
  <2> SUFFICES ASSUME ~abandoned' PROVE ExactInv'
    BY DEF ExactInv
  <2>1. ~abandoned /\ registry = None
    BY <1>2
  <2>2. ~excess' /\ \A u \in Threads : thread'[u].limiter = None
    BY <1>2, <1>3, <2>1 DEF Inv, ExactInv
  <2>3. \A c \in Clients : tables'[registry'][c] = None
    BY <1>2, <1>4 DEF Inv, Memory, MemoryInv
  <2>4. \A c \in Clients : credit'[c] = Burst
    BY <1>2, <2>1 DEF Inv, ExactInv
  <2> QED BY <2>2, <2>3, <2>4 DEF ExactInv
<1> QED BY <1>1, <1>4, <1>5, <1>6 DEF Inv, Memory

LEMMA InvGetLimiter ==
    ASSUME Inv, NEW t \in Threads, GetLimiter(t)
    PROVE  Inv'
<1>1. TypeOK' /\ PlaceInv'
  BY GetLimiterOK DEF Inv, Memory
<1>2. /\ thread[t].limiter = None
      /\ UNCHANGED <<registry, tables, cleaned, heap, credit, excess, abandoned>>
      /\ thread'[t].limiter = registry
      /\ thread'[t].bucket = thread[t].bucket /\ thread'[t].client = thread[t].client
      /\ \A u \in Threads \ {t} : thread'[u] = thread[u]
  BY DEF GetLimiter, Inv, Memory, TypeOK, PlaceInv, Placed, Thread
<1>3. Created(registry, thread)' = Created(registry, thread)
  BY <1>2 DEF Created
<1>4. MemoryInv' /\ \A b \in Buckets, c \in Clients : Serves(b, c)' => Serves(b, c)
  BY <1>2, <1>3, QuietStep DEF Inv
<1>5. CreditInv'
  BY <1>2, <1>4 DEF Inv, CreditInv, Level
<1>6. ExactInv'
  BY <1>2 DEF Inv, ExactInv, Level
<1> QED BY <1>1, <1>4, <1>5, <1>6 DEF Inv, Memory

LEMMA InvTick == Inv /\ Tick => Inv'
<1> SUFFICES ASSUME Inv, Tick PROVE Inv'
  OBVIOUS
<1>1. TypeOK' /\ PlaceInv'
  BY TickOK DEF Inv, Memory
<1>2. /\ UNCHANGED <<registry, tables, thread, excess, abandoned>>
      /\ Created(registry, thread)' = Created(registry, thread)
      /\ InUse(registry, thread)' = InUse(registry, thread)
      /\ \A b \in Buckets, c \in Clients : Serves(b, c)' = Serves(b, c)
  BY DEF Tick, Created, InUse, Serves
<1>3. MemoryInv'
  <2>1. \A b \in Buckets : b \notin InUse(registry, thread) => heap'[b] = heap[b]
    BY DEF Tick, Inv, Memory, TypeOK
  <2> QED BY <1>2, <2>1 DEF Inv, Memory, MemoryInv
<1>4. ASSUME NEW b \in Buckets, b \in InUse(registry, thread)
      PROVE  Level(b)' = Least(Burst, Level(b) + 1)
  <2>1. heap[b] \in Bucket /\ heap'[b] = [heap[b] EXCEPT !.idle = Least(Burst, @ + 1)]
    BY <1>4, LevelOK DEF Tick, Inv
  <2>2. heap'[b].tokens = heap[b].tokens /\ heap'[b].idle = Least(Burst, heap[b].idle + 1)
    BY <2>1 DEF Bucket
  <2> QED BY <2>1, <2>2, LimiterAssumption DEF Level, Bucket, Least
<1>5. \A c \in Clients : /\ credit[c] \in 0 .. Burst
                         /\ credit'[c] = Least(Burst, credit[c] + 1)
  BY DEF Tick, Inv, Memory, TypeOK
<1>6. CreditInv'
  <2> SUFFICES ASSUME NEW b \in Buckets, NEW c \in Clients, Serves(b, c)
               PROVE  credit'[c] <= Level(b)'
    BY <1>2 DEF CreditInv
  <2>1. b \in InUse(registry, thread) /\ credit[c] <= Level(b) /\ Level(b) \in 0 .. Burst
    BY ServingIsUse, LevelOK DEF Inv, CreditInv
  <2> QED BY <1>4, <1>5, <2>1, LimiterAssumption DEF Least
<1>7. ExactInv'
  <2> SUFFICES ASSUME ~abandoned,
                      NEW c \in Clients
               PROVE  IF registry # None /\ tables[registry][c] # None
                        THEN Level(tables[registry][c])' = credit'[c]
                        ELSE credit'[c] = Burst
    BY <1>2 DEF Inv, ExactInv
  <2>1. CASE registry # None /\ tables[registry][c] # None
    <3>1. tables[registry][c] \in Buckets /\ tables[registry][c] \in InUse(registry, thread)
      BY <2>1 DEF Inv, Memory, TypeOK, InUse, Created
    <3>2. Level(tables[registry][c]) = credit[c]
      BY <2>1 DEF Inv, ExactInv
    <3>3. ASSUME NEW b \in Buckets, b \in InUse(registry, thread), Level(b) = credit[c]
          PROVE  Level(b)' = credit'[c]
      BY <1>4, <1>5, <3>3
    <3>4. Level(tables[registry][c])' = credit'[c]
      <4>1. PICK b \in Buckets : b = tables[registry][c]
        BY <3>1
      <4>2. Level(b)' = credit'[c]
        BY <3>1, <3>2, <3>3, <4>1
      <4> QED BY <1>2, <4>1, <4>2 DEF Level
    <3> QED BY <2>1, <3>4
  <2>2. CASE ~(registry # None /\ tables[registry][c] # None)
    BY <1>5, <2>2, LimiterAssumption DEF Inv, ExactInv, Least
  <2> QED BY <2>1, <2>2
<1> QED BY <1>1, <1>3, <1>6, <1>7 DEF Inv, Memory

LEMMA InvGetBucket ==
    ASSUME Inv, NEW t \in Threads, GetBucket(t)
    PROVE  Inv'
<1> DEFINE l == thread[t].limiter
           c == thread[t].client
<1>1. TypeOK' /\ PlaceInv'
  BY GetBucketOK DEF Inv, Memory
<1>2. /\ l \in Limiters /\ c \in Clients /\ Picked(l, c) \in Buckets
      /\ Created(registry, thread)' = Created(registry, thread)
      /\ \A b \in Buckets, d \in Clients :
           Serves(b, d)' => \/ Serves(b, d)
                            \/ b = Picked(l, c) /\ d = c /\ b \notin InUse(registry, thread)
      /\ \A b \in InUse(registry, thread) :
           \/ b \in InUse(registry, thread)'
           \/ \E k \in Clients : tables[l][k] = b /\ Kept(l)[k] = None
  BY <1>1, GetBucketServes DEF Inv
<1>3. /\ heap' = Swept(l)
      /\ tables' = [tables EXCEPT ![l] = [Kept(l) EXCEPT ![c] = Picked(l, c)]]
      /\ thread' = [thread EXCEPT ![t].bucket = Picked(l, c),
                                  ![t].pc = IF thread[t].denied THEN "wait_time" ELSE "consume"]
      /\ UNCHANGED <<registry, credit, excess, abandoned>>
      /\ Buckets \ InUse(registry, thread) # {}
  BY DEF GetBucket
<1>4. l \in Created(registry, thread)
  BY <1>2, LimiterAssumption DEF Created
<1> HIDE DEF l, c
<1>5. /\ \A m \in Limiters \ {l} : tables'[m] = tables[m]
      /\ \A k \in Clients \ {c} : tables'[l][k] = Kept(l)[k]
      /\ tables'[l][c] = Picked(l, c)
  BY <1>2, <1>3, SweptOK DEF Inv, Memory, TypeOK
<1>6. \A b \in Buckets : Level(b)' = Level(b)
  BY <1>2, <1>3, SweptOK DEF Inv, Memory, Level
<1>7. \A b \in Buckets : heap[b] = Full => Swept(l)[b] = Full
  <2>1. Refilled(Full) = Full
    BY LimiterAssumption DEF Full, Refilled, Least
  <2> QED BY <2>1 DEF Swept, Inv, Memory, TypeOK
<1>8. MemoryInv'
  <2>1. \A m \in Limiters : m \notin Created(registry, thread)' =>
          \A d \in Clients : tables'[m][d] = None
    BY <1>2, <1>4, <1>5 DEF Inv, Memory, MemoryInv
  <2>2. ASSUME NEW b \in Buckets, b \notin InUse(registry, thread)' PROVE heap'[b] = Full
    <3>1. CASE b \notin InUse(registry, thread)
      BY <1>3, <1>7, <3>1 DEF Inv, Memory, MemoryInv
    <3>2. CASE b \in InUse(registry, thread)
      <4>1. PICK k \in Clients : tables[l][k] = b /\ Kept(l)[k] = None
        BY <1>2, <2>2, <3>2
      <4>2. tables[l][k] # None
        BY <4>1, LimiterAssumption
      <4> QED BY <1>2, <1>3, <4>1, <4>2, DroppedFull DEF Inv
    <3> QED BY <3>1, <3>2
  <2>3. \A b \in Buckets, d, e \in Clients : Serves(b, d)' /\ Serves(b, e)' => d = e
    BY <1>2, ServingIsUse DEF Inv, Memory, MemoryInv
  <2> QED BY <2>1, <2>2, <2>3 DEF MemoryInv
<1>9. \A b \in Buckets : b \notin InUse(registry, thread) => Level(b) = Burst
  BY LimiterAssumption DEF Inv, Memory, MemoryInv, Level, Full, Least
<1>10. CreditInv'
  <2> SUFFICES ASSUME NEW b \in Buckets, NEW d \in Clients, Serves(b, d)'
               PROVE  credit[d] <= Level(b)
    BY <1>3, <1>6 DEF CreditInv
  <2>1. CASE Serves(b, d)
    BY <2>1 DEF Inv, CreditInv
  <2>2. CASE b \notin InUse(registry, thread)
    BY <1>9, <2>2, LimiterAssumption DEF Inv, Memory, TypeOK
  <2> QED BY <1>2, <2>1, <2>2
<1>11. ExactInv'
  <2> SUFFICES ASSUME ~abandoned PROVE ExactInv'
    BY <1>3 DEF ExactInv
  <2>1. ~excess /\ l = registry /\ registry # None
    BY <1>2, LimiterAssumption DEF Inv, ExactInv, l
  <2>2. \A u \in Threads : thread'[u].limiter \in {None, registry}
    BY <1>3 DEF Inv, Memory, TypeOK, ExactInv, Thread
  <2>3. \A d \in Clients : Kept(l)[d] = None => credit[d] = Burst
    BY <1>2, <2>1, DroppedFull DEF Inv, ExactInv
  <2>4. \A d \in Clients : Kept(l)[d] # None =>
          Kept(l)[d] = tables[registry][d] /\ Level(tables[registry][d]) = credit[d]
    BY <1>2, <2>1, SweptOK DEF Inv, Memory, ExactInv
  <2>5. Level(Picked(l, c)) = credit[c]
    <3>1. \/ Picked(l, c) = tables[l][c] /\ Kept(l)[c] = tables[l][c]
          \/ Picked(l, c) \notin InUse(registry, thread) /\ Kept(l)[c] = None
      BY <1>2, <1>3, PickedOK DEF Inv, Memory
    <3>2. Picked(l, c) # None
      BY <1>2, LimiterAssumption
    <3> QED BY <1>2, <1>9, <2>3, <2>4, <3>1, <3>2
  <2>6. ASSUME NEW d \in Clients
        PROVE  IF tables'[registry][d] # None
                 THEN Level(tables'[registry][d]) = credit[d]
                 ELSE credit[d] = Burst
    <3>1. CASE d = c
      BY <1>2, <1>5, <2>1, <2>5, <3>1, LimiterAssumption
    <3>2. CASE d # c
      BY <1>5, <2>1, <2>3, <2>4, <3>2
    <3> QED BY <3>1, <3>2
  <2>7. ASSUME NEW d \in Clients, tables'[registry][d] # None
        PROVE  Level(tables[registry][d])' = Level(tables'[registry][d])
    <3>1. PICK b \in Buckets : b = tables'[registry][d]
      BY <1>1, <1>2, <2>1, <2>7 DEF TypeOK
    <3>2. Level(b)' = Level(b)
      BY <1>6
    <3> QED BY <1>3, <3>1, <3>2 DEF Level
  <2> QED BY <1>3, <2>1, <2>2, <2>6, <2>7 DEF ExactInv
<1> QED BY <1>1, <1>8, <1>10, <1>11 DEF Inv, Memory

\* What a thread that is about to use a bucket knows.
LEMMA Using ==
    ASSUME Inv, NEW t \in Threads, thread[t].pc \in {"consume", "wait_time"},
           NEW b, b = thread[t].bucket, NEW c, c = thread[t].client
    PROVE  /\ b \in Buckets /\ c \in Clients /\ registry # None /\ registry \in Limiters
           /\ Serves(b, c) /\ credit[c] <= Level(b)
           /\ \A d \in Clients : Serves(b, d) => d = c
           /\ Refilled(heap[b]) \in Bucket
           /\ Refilled(heap[b]).tokens = Level(b) /\ Refilled(heap[b]).idle = 0
           /\ credit[c] \in 0 .. Burst /\ Level(b) \in 0 .. Burst
<1>1. b \in Buckets /\ c \in Clients /\ registry # None /\ registry \in Limiters
  BY DEF Inv, Memory, TypeOK, PlaceInv, Placed
<1>2. Serves(b, c)
  BY DEF Serves
<1>3. credit[c] <= Level(b) /\ \A d \in Clients : Serves(b, d) => d = c
  BY <1>1, <1>2 DEF Inv, Memory, MemoryInv, CreditInv
<1>4. heap[b] \in Bucket /\ credit[c] \in 0 .. Burst /\ Level(b) \in 0 .. Burst
  BY <1>1, LevelOK DEF Inv, Memory, TypeOK
<1> QED BY <1>1, <1>2, <1>3, <1>4, RefilledOK DEF Level

\* If only the level of one bucket and the credit of its client change, and alike, the
\* credit invariants are preserved.
LEMMA LevelStep ==
    ASSUME Inv, TypeOK', PlaceInv', NEW t \in Threads,
           NEW b \in Buckets, NEW c \in Clients, NEW n \in Bucket,
           n.idle = 0, \A d \in Clients : Serves(b, d) => d = c,
           registry' = registry, registry \in Limiters,
           Collect([heap EXCEPT ![b] = n]),
           \A u \in Threads \ {t} : thread'[u] = thread[u],
           thread'[t].bucket = None, thread'[t].limiter = None,
           \A d \in Clients \ {c} : credit'[d] = credit[d],
           Serves(b, c) => credit'[c] <= n.tokens, credit'[c] <= credit[c],
           ~abandoned' => /\ ~abandoned /\ ~excess'
                          /\ tables[registry][c] = b => n.tokens = credit'[c]
                          /\ tables[registry][c] # b => credit'[c] = credit[c]
    PROVE  Inv'
<1> DEFINE h == [heap EXCEPT ![b] = n]
<1>1. /\ MemoryInv'
      /\ \A x \in Buckets, d \in Clients : Serves(x, d)' => Serves(x, d) /\ heap'[x] = h[x]
      /\ \A l \in Limiters : l \in Created(registry', thread') => tables'[l] = tables[l]
  BY CollectStep DEF Inv
<1>2. heap \in [Buckets -> Bucket] /\ registry # None
  BY LimiterAssumption DEF Inv, Memory, TypeOK
<1>3. \A x \in Buckets \ {b}, d \in Clients : Serves(x, d)' => Level(x)' = Level(x)
  BY <1>1, <1>2 DEF Level
<1>4. \A d \in Clients : Serves(b, d)' => Level(b)' = n.tokens
  <2>1. n.tokens \in 0 .. Burst
    BY DEF Bucket
  <2>2. h[b] = n
    BY <1>2
  <2>3. \A d \in Clients : Serves(b, d)' => heap'[b] = n
    BY <1>1, <2>2
  <2>4. Least(Burst, n.tokens + n.idle) = n.tokens
    BY <2>1, LimiterAssumption DEF Least
  <2> QED BY <2>3, <2>4 DEF Level
<1>5. \A d \in Clients : credit[d] \in 0 .. Burst /\ credit'[d] \in 0 .. Burst
  BY DEF Inv, Memory, TypeOK
<1>6. CreditInv'
  <2> SUFFICES ASSUME NEW x \in Buckets, NEW d \in Clients, Serves(x, d)'
               PROVE  credit'[d] <= Level(x)'
    BY DEF CreditInv
  <2>1. Serves(x, d) /\ credit[d] <= Level(x) /\ Level(x) \in 0 .. Burst
    BY <1>1, LevelOK DEF Inv, CreditInv
  <2>2. CASE x = b
    BY <1>4, <2>1, <2>2
  <2>3. CASE x # b
    BY <1>3, <1>5, <2>1, <2>3, LimiterAssumption
  <2> QED BY <2>2, <2>3
<1>7. ExactInv'
  <2> SUFFICES ASSUME ~abandoned' PROVE ExactInv'
    BY DEF ExactInv
  <2>1. tables'[registry] = tables[registry]
    BY <1>1, <1>2 DEF Created
  <2>2. \A u \in Threads : thread'[u].limiter \in {None, registry'}
    BY DEF Inv, ExactInv
  <2>3. ASSUME NEW d \in Clients, tables[registry][d] = None
        PROVE  credit'[d] = Burst
    <3>1. credit[d] = Burst
      BY <2>3 DEF Inv, ExactInv
    <3>2. tables[registry][d] # b
      BY <2>3, LimiterAssumption
    <3> QED BY <3>1, <3>2
  <2>4. ASSUME NEW d \in Clients, NEW x \in Buckets, tables[registry][d] = x
        PROVE  Level(x)' = credit'[d]
    <3>1. Serves(x, d)' /\ Serves(x, d)
      BY <2>1, <2>4 DEF Serves
    <3>2. Level(x) = credit[d]
      BY <1>2, <2>4, LimiterAssumption DEF Inv, ExactInv
    <3>3. CASE x = b
      <4>1. d = c
        BY <3>1, <3>3
      <4> QED BY <1>4, <2>4, <3>1, <3>3, <4>1
    <3>4. CASE x # b
      BY <1>3, <2>4, <3>1, <3>2, <3>4
    <3> QED BY <3>3, <3>4
  <2>5. ASSUME NEW d \in Clients, tables[registry][d] # None
        PROVE  Level(tables[registry][d])' = credit'[d]
    <3>1. PICK x \in Buckets : x = tables[registry][d]
      BY <2>5 DEF Inv, Memory, TypeOK
    <3>2. Level(x)' = credit'[d] /\ x = tables'[registry'][d]
      BY <2>1, <2>4, <3>1
    <3> QED BY <3>2 DEF Level
  <2>6. \A d \in Clients :
          IF registry' # None /\ tables'[registry'][d] # None
            THEN Level(tables[registry][d])' = credit'[d]
            ELSE credit'[d] = Burst
    BY <1>2, <2>1, <2>3, <2>5
  <2> QED BY <2>2, <2>6 DEF ExactInv
<1> QED BY <1>1, <1>6, <1>7 DEF Inv, Memory

LEMMA InvConsume ==
    ASSUME Inv, NEW t \in Threads, Consume(t)
    PROVE  Inv'
<1> DEFINE b == thread[t].bucket
           c == thread[t].client
           now == Refilled(heap[b])
           spent == [now EXCEPT !.tokens = @ - Cost]
<1>1. TypeOK' /\ PlaceInv'
  BY ConsumeOK DEF Inv, Memory
<1>2. /\ b \in Buckets /\ c \in Clients /\ registry \in Limiters
      /\ Serves(b, c) /\ credit[c] <= Level(b)
      /\ \A d \in Clients : Serves(b, d) => d = c
      /\ now \in Bucket /\ now.tokens = Level(b) /\ now.idle = 0
      /\ credit[c] \in 0 .. Burst /\ Level(b) \in 0 .. Burst
  BY Using DEF Consume
<1>3. tables[registry][c] = b /\ ~abandoned => Level(b) = credit[c]
  BY <1>2, LimiterAssumption DEF Inv, ExactInv
<1>4. registry' = registry
  BY DEF Consume
<1>5. CASE Admitted(t)
  <2>1. /\ thread' = [thread EXCEPT ![t] = Idle]
        /\ credit' = [credit EXCEPT ![c] = IF @ >= Cost THEN @ - Cost ELSE 0]
        /\ excess' = (excess \/ credit[c] < Cost)
        /\ abandoned' = (abandoned \/ b # tables[registry][c])
        /\ Collect([heap EXCEPT ![b] = spent])
    BY <1>5 DEF Consume
  <2>2. Level(b) >= Cost
    BY <1>2, <1>5 DEF Admitted
  <2>3. spent \in Bucket /\ spent.tokens = Level(b) - Cost /\ spent.idle = 0
    BY <1>2, <2>2, LimiterAssumption DEF Bucket
  <2>4. /\ \A d \in Clients \ {c} : credit'[d] = credit[d]
        /\ credit'[c] = IF credit[c] >= Cost THEN credit[c] - Cost ELSE 0
    BY <1>2, <2>1 DEF Inv, Memory, TypeOK
  <2>5. credit'[c] <= spent.tokens /\ credit'[c] <= credit[c]
    BY <1>2, <2>2, <2>3, <2>4, LimiterAssumption
  <2>6. ASSUME ~abandoned'
        PROVE  /\ ~abandoned /\ ~excess' /\ tables[registry][c] = b
               /\ spent.tokens = credit'[c]
    <3>1. ~abandoned /\ tables[registry][c] = b /\ Level(b) = credit[c]
      BY <1>3, <2>1, <2>6
    <3>2. credit[c] >= Cost
      BY <2>2, <3>1
    <3>3. ~(credit[c] < Cost)
      BY <1>2, <3>2, LimiterAssumption
    <3>4. ~excess'
      BY <2>1, <3>1, <3>3 DEF Inv, ExactInv
    <3> QED BY <2>3, <2>4, <3>1, <3>2, <3>4
  <2>7. /\ \A u \in Threads \ {t} : thread'[u] = thread[u]
        /\ thread'[t].bucket = None /\ thread'[t].limiter = None
    BY <2>1 DEF Inv, Memory, TypeOK, Idle
  <2> HIDE DEF b, c, spent
  <2> QED BY <1>1, <1>2, <1>4, <2>1, <2>3, <2>4, <2>5, <2>6, <2>7, LevelStep
<1>6. CASE ~Admitted(t)
  <2>1. /\ thread' = [thread EXCEPT
               ![t] = [Idle EXCEPT !.pc = "limiter", !.client = c, !.denied = TRUE]]
        /\ Collect([heap EXCEPT ![b] = now])
        /\ UNCHANGED <<credit, excess, abandoned>>
    BY <1>6 DEF Consume
  <2>2. /\ \A u \in Threads \ {t} : thread'[u] = thread[u]
        /\ thread'[t].bucket = None /\ thread'[t].limiter = None
    BY <2>1 DEF Inv, Memory, TypeOK, Idle
  <2>3. ~abandoned' => /\ ~abandoned /\ ~excess'
                       /\ tables[registry][c] = b => now.tokens = credit'[c]
    BY <1>2, <1>3, <2>1 DEF Inv, ExactInv
  <2>4. \A d \in Clients : credit'[d] = credit[d] /\ credit[d] <= credit[d]
    BY <2>1 DEF Inv, Memory, TypeOK
  <2> HIDE DEF b, c, now
  <2> QED BY <1>1, <1>2, <1>4, <2>1, <2>2, <2>3, <2>4, LevelStep
<1> QED BY <1>5, <1>6

LEMMA InvWaitTime ==
    ASSUME Inv, NEW t \in Threads, WaitTime(t)
    PROVE  Inv'
<1> DEFINE b == thread[t].bucket
           c == thread[t].client
           now == Refilled(heap[b])
<1>1. TypeOK' /\ PlaceInv'
  BY WaitTimeOK DEF Inv, Memory
<1>2. /\ b \in Buckets /\ c \in Clients /\ registry \in Limiters
      /\ Serves(b, c) /\ credit[c] <= Level(b)
      /\ \A d \in Clients : Serves(b, d) => d = c
      /\ now \in Bucket /\ now.tokens = Level(b) /\ now.idle = 0
      /\ credit[c] \in 0 .. Burst
  BY Using DEF WaitTime
<1>3. tables[registry][c] = b /\ ~abandoned => Level(b) = credit[c]
  BY <1>2, LimiterAssumption DEF Inv, ExactInv
<1>4. /\ thread' = [thread EXCEPT ![t] = Idle]
      /\ UNCHANGED <<registry, credit, excess, abandoned>>
      /\ Collect([heap EXCEPT ![b] = now])
  BY DEF WaitTime, Finish
<1>5. /\ \A u \in Threads \ {t} : thread'[u] = thread[u]
      /\ thread'[t].bucket = None /\ thread'[t].limiter = None
  BY <1>4 DEF Inv, Memory, TypeOK, Idle
<1>6. ~abandoned' => /\ ~abandoned /\ ~excess'
                     /\ tables[registry][c] = b => now.tokens = credit'[c]
  BY <1>2, <1>3, <1>4 DEF Inv, ExactInv
<1>7. \A d \in Clients : credit'[d] = credit[d] /\ credit[d] <= credit[d]
  BY <1>4 DEF Inv, Memory, TypeOK
<1> HIDE DEF b, c, now
<1> QED BY <1>1, <1>2, <1>4, <1>5, <1>6, <1>7, LevelStep

LEMMA InvNext == Inv /\ [Next]_vars => Inv'
<1> SUFFICES ASSUME Inv, [Next]_vars PROVE Inv'
  OBVIOUS
<1>1. ASSUME NEW t \in Threads, Step(t) PROVE Inv'
  BY <1>1, InvRequest, InvRegister, InvGetLimiter, InvGetBucket, InvConsume, InvWaitTime DEF Step
<1>2. CASE UNCHANGED vars
  BY <1>2 DEF vars, Inv, Memory, TypeOK, PlaceInv, Placed, MemoryInv, Created, InUse, Serves,
              CreditInv, ExactInv, Level
<1> QED BY <1>1, <1>2, InvTick DEF Next

LEMMA Invariant == Spec => []Inv
  BY InvInit, InvNext, PTL DEF Spec

\* Nobody is admitted beyond the credit of a bucket that is never dropped, as long as no
\* thread uses a dropped bucket or replaces another's limiter (rate_limiter.py:90-116).
THEOREM AdmissionIsBounded == Spec => []AdmissionBound
<1>1. Inv => AdmissionBound
  BY DEF Inv, ExactInv, AdmissionBound
<1> QED BY <1>1, Invariant, PTL

\* Whoever is denied has spent the credit, whatever the threads do (rate_limiter.py:43-48).
THEOREM DenialsAreFair == Spec => DeniedOnlyWhenSpent
<1> DEFINE Fair == \A t \in Threads :
                     thread[t].pc = "consume" /\ thread'[t].denied =>
                       credit[thread[t].client] < Cost
<1>1. Inv /\ [Next]_vars => [Fair]_vars
  <2> SUFFICES ASSUME Inv, Next, NEW t \in Threads,
                      thread[t].pc = "consume", thread'[t].denied
               PROVE  credit[thread[t].client] < Cost
    OBVIOUS
  <2>1. thread \in [Threads -> Thread] /\ ~thread[t].denied
    BY DEF Inv, Memory, TypeOK, PlaceInv, Placed
  <2>2. thread'[t] # thread[t]
    BY <2>1
  <2>3. ~Tick
    BY <2>2 DEF Tick
  <2>4. ASSUME NEW u \in Threads, u # t, Step(u) PROVE FALSE
    BY <2>1, <2>2, <2>4
       DEF Step, Request, Register, GetLimiter, GetBucket, Consume, WaitTime, Finish
  <2>5. Step(t)
    BY <2>3, <2>4 DEF Next
  <2>6. Consume(t)
    BY <2>5 DEF Step, Request, Register, GetLimiter, GetBucket, WaitTime
  <2>7. ~Admitted(t)
    BY <2>1, <2>6 DEF Consume, Idle
  <2>8. LET b == thread[t].bucket
            c == thread[t].client
        IN  /\ credit[c] <= Level(b) /\ Refilled(heap[b]).tokens = Level(b)
            /\ credit[c] \in 0 .. Burst /\ Level(b) \in 0 .. Burst
    BY Using
  <2> QED BY <2>7, <2>8, LimiterAssumption DEF Admitted
<1> QED BY <1>1, Invariant, PTL DEF Spec, DeniedOnlyWhenSpent

-----------------------------------------------------------------------------
(***************************************************************************)
(* The circuit breaker.                                                    *)
(***************************************************************************)
\* HALF_OPEN comes only of OPEN, with a failure of recovery_timeout ago, and every
\* answer to a call leaves it.
BreakerInv ==
    /\ ClosedBelowThreshold
    /\ state = "half_open" => age = Recovery

LEMMA BreakerInitOK == BreakerInit => BreakerTypeOK /\ BreakerInv
  BY ConstantsAssumption DEF BreakerInit, BreakerTypeOK, BreakerInv, ClosedBelowThreshold,
         CircuitState

\* The retry wrapper never counts past max_retries.
LEMMA BreakerRetryOK ==
    ASSUME BreakerTypeOK, NEW c \in Callers, RetryOrRaise(c)
    PROVE  /\ pc' \in [Callers -> {"idle", "call", "running", "sleep"}]
           /\ attempt' \in [Callers -> 0 .. MaxRetries]
           /\ pc'[c] # "running"
           /\ \A d \in Callers : d # c => pc'[d] = pc[d]
<1>1. CASE attempt[c] < MaxRetries
  BY <1>1, ConstantsAssumption DEF RetryOrRaise, BreakerTypeOK
<1>2. CASE attempt[c] = MaxRetries
  BY <1>2 DEF RetryOrRaise, BreakerTypeOK
<1> QED BY <1>1, <1>2 DEF RetryOrRaise

\* What each access to the breaker does to it.
LEMMA BreakerObservedOK ==
    ASSUME BreakerTypeOK, BreakerInv, state' = Observed, UNCHANGED <<failures, age>>
    PROVE  state' \in CircuitState /\ BreakerInv'
  BY DEF BreakerTypeOK, Observed, CircuitState, BreakerInv, ClosedBelowThreshold

LEMMA BreakerOnSuccessOK ==
    ASSUME BreakerTypeOK, OnSuccess
    PROVE  state' \in CircuitState /\ failures' \in 0 .. Threshold /\ UNCHANGED age
           /\ BreakerInv'
  BY ConstantsAssumption DEF BreakerTypeOK, OnSuccess, CircuitState, BreakerInv,
         ClosedBelowThreshold

LEMMA BreakerOnFailureOK ==
    ASSUME BreakerTypeOK, BreakerInv, OnFailure
    PROVE  /\ state' \in CircuitState /\ failures' \in 0 .. Threshold
           /\ age' \in 0 .. Recovery
           /\ BreakerInv'
           /\ state = "half_open" => state' = "open"
<1>1. failures' \in 0 .. Threshold /\ age' \in 0 .. Recovery
  BY ConstantsAssumption DEF BreakerTypeOK, OnFailure
<1>2. CASE failures' = Threshold
  BY <1>1, <1>2, ConstantsAssumption
     DEF OnFailure, CircuitState, BreakerInv, ClosedBelowThreshold
<1>3. CASE failures' # Threshold
  <2>1. failures < Threshold /\ state = "closed" /\ state' = "closed"
    BY <1>3, ConstantsAssumption DEF BreakerTypeOK, OnFailure, BreakerInv, ClosedBelowThreshold
  <2>2. failures' < Threshold
    BY <1>1, <1>3, ConstantsAssumption
  <2> QED BY <1>1, <2>1, <2>2 DEF CircuitState, BreakerInv, ClosedBelowThreshold
<1> QED BY <1>2, <1>3, <1>1

\* One case per action.
LEMMA BreakerNextOK ==
    ASSUME BreakerTypeOK, BreakerInv, [BreakerNext]_breakerVars
    PROVE  BreakerTypeOK' /\ BreakerInv'
<1>1. ASSUME NEW c \in Callers, Call(c) PROVE BreakerTypeOK' /\ BreakerInv'
  BY <1>1, ConstantsAssumption
     DEF Call, breaker, BreakerTypeOK, BreakerInv, ClosedBelowThreshold
<1>2. ASSUME NEW c \in Callers, Admit(c) PROVE BreakerTypeOK' /\ BreakerInv'
  <2>1. state' \in CircuitState /\ BreakerInv'
    BY <1>2, BreakerObservedOK DEF Admit
  <2>2. state' \in {"closed", "half_open"}
    BY <1>2, <2>1 DEF Admit, CircuitState
  <2>3. pc' \in [Callers -> {"idle", "call", "running", "sleep"}]
        /\ seen' \in [Callers -> {"closed", "half_open"}]
    BY <1>2, <2>2 DEF Admit, BreakerTypeOK
  <2> QED BY <1>2, <2>1, <2>3 DEF Admit, BreakerTypeOK
<1>3. ASSUME NEW c \in Callers, Reject(c) PROVE BreakerTypeOK' /\ BreakerInv'
  <2>1. /\ pc' \in [Callers -> {"idle", "call", "running", "sleep"}]
        /\ attempt' \in [Callers -> 0 .. MaxRetries]
    BY <1>3, BreakerRetryOK DEF Reject, FallBack, BreakerTypeOK
  <2> QED BY <1>3, <2>1 DEF Reject, breaker, BreakerTypeOK, BreakerInv,
                 ClosedBelowThreshold
<1>4. ASSUME NEW c \in Callers, Succeed(c) PROVE BreakerTypeOK' /\ BreakerInv'
  <2>1. pc' \in [Callers -> {"idle", "call", "running", "sleep"}]
    BY <1>4 DEF Succeed, BreakerTypeOK
  <2> QED BY <1>4, <2>1, BreakerOnSuccessOK DEF Succeed, BreakerTypeOK
<1>5. ASSUME NEW c \in Callers, Fail(c) PROVE BreakerTypeOK' /\ BreakerInv'
  BY <1>5, BreakerOnFailureOK, BreakerRetryOK DEF Fail, BreakerTypeOK
<1>6. ASSUME NEW c \in Callers, Escape(c) \/ Wake(c) PROVE BreakerTypeOK' /\ BreakerInv'
  BY <1>6 DEF Escape, Wake, breaker, BreakerTypeOK, BreakerInv, ClosedBelowThreshold
<1>7. CASE Inspect
  BY <1>7, BreakerObservedOK DEF Inspect, BreakerTypeOK
<1>8. CASE Reset
  BY <1>8, ConstantsAssumption
     DEF Reset, BreakerTypeOK, CircuitState, BreakerInv,
            ClosedBelowThreshold
<1>9. CASE BreakerTick
  BY <1>9, ConstantsAssumption DEF BreakerTick, BreakerTypeOK, BreakerInv, ClosedBelowThreshold
<1>10. CASE Toggle \/ UNCHANGED breakerVars
  BY <1>10 DEF Toggle, breakerVars, breaker, BreakerTypeOK, BreakerInv, ClosedBelowThreshold
<1> QED BY <1>1, <1>2, <1>3, <1>4, <1>5, <1>6, <1>7, <1>8, <1>9, <1>10 DEF BreakerNext, BreakerStep

LEMMA BreakerInvariants == BreakerSpec => [](BreakerTypeOK /\ BreakerInv)
<1>1. BreakerTypeOK /\ BreakerInv /\ [BreakerNext]_breakerVars => (BreakerTypeOK /\ BreakerInv)'
  BY BreakerNextOK
<1> QED BY <1>1, BreakerInitOK, PTL DEF BreakerSpec

\* The breaker and the retry wrapper around it keep their types: the failures counted
\* stay within the threshold, the attempts within max_retries (resilience.py:165-184).
THEOREM BreakerTypeCorrect == BreakerSpec => []BreakerTypeOK
  BY BreakerInvariants, PTL

\* However the answers of concurrent calls are ordered, the breaker is CLOSED
\* exactly when the failures since the last success are fewer than the threshold
\* (resilience.py:85-98).
THEOREM ClosedExactly == BreakerSpec => []ClosedBelowThreshold
<1>1. BreakerInv => ClosedBelowThreshold
  BY DEF BreakerInv
<1> QED BY <1>1, BreakerInvariants, PTL

\* A failure in HALF_OPEN opens the breaker again, whoever's it is
\* (resilience.py:7 and 93-98).
THEOREM FailureReopens == BreakerSpec => HalfOpenFailureReopens
<1>1. BreakerTypeOK /\ BreakerInv /\ [BreakerNext]_breakerVars =>
         [\A c \in Callers : Fail(c) /\ state = "half_open" => state' = "open"]_breakerVars
  BY BreakerOnFailureOK DEF Fail
<1> QED BY <1>1, BreakerInvariants, PTL DEF BreakerSpec, HalfOpenFailureReopens

\* Only Admit moves a thread to the service, and it needs the breaker not OPEN.
LEMMA BreakerFastStep ==
    ASSUME BreakerTypeOK, BreakerInv, BreakerNext,
           NEW d \in Callers, pc[d] # "running", pc'[d] = "running"
    PROVE  failures < Threshold \/ age = Recovery
<1>1. ASSUME NEW c \in Callers, Admit(c) PROVE failures < Threshold \/ age = Recovery
  <2>1. CASE Observed = "closed"
    BY <2>1 DEF Observed, BreakerInv, ClosedBelowThreshold
  <2>2. CASE Observed # "closed"
    <3>1. Observed = "half_open"
      BY <1>1, <2>2 DEF Admit, Observed, BreakerTypeOK, CircuitState
    <3> QED BY <3>1 DEF Observed, BreakerInv
  <2> QED BY <2>1, <2>2
<1>2. ASSUME NEW c \in Callers, Reject(c) \/ Fail(c) PROVE FALSE
  <2>1. CASE RetryOrRaise(c)
    BY <2>1, BreakerRetryOK
  <2>2. CASE FallBack(c)
    BY <2>2 DEF FallBack, BreakerTypeOK
  <2> QED BY <1>2, <2>1, <2>2 DEF Reject, Fail
<1>3. ASSUME NEW c \in Callers, Call(c) \/ Succeed(c) \/ Escape(c) \/ Wake(c)
      PROVE FALSE
  BY <1>3 DEF Call, Succeed, Escape, Wake, BreakerTypeOK
<1>4. ~Inspect /\ ~Reset /\ ~BreakerTick /\ ~Toggle
  BY DEF Inspect, Reset, BreakerTick, Toggle
<1> QED BY <1>1, <1>2, <1>3, <1>4 DEF BreakerNext, BreakerStep

\* Nobody is let through to the service within recovery_timeout of the failure that
\* opened the breaker, unless another call succeeded or somebody reset it, at the
\* moment call() reads the state (resilience.py:60-65 and 73-77).
THEOREM OpenFailsFast == BreakerSpec => FailFast
<1>1. BreakerTypeOK /\ BreakerInv /\ [BreakerNext]_breakerVars =>
         [\A c \in Callers : pc[c] # "running" /\ pc'[c] = "running" =>
                                failures < Threshold \/ age = Recovery]_breakerVars
  BY BreakerFastStep
<1> QED BY <1>1, BreakerInvariants, PTL DEF BreakerSpec, FailFast

=============================================================================
