---------------------------- MODULE RateLimiter ----------------------------
(***************************************************************************)
(* core/rate_limiter.py and core/throttling.py: one token bucket per       *)
(* client, created on its first request and dropped by a clean-up that     *)
(* finds it full; one limiter per throttle scope, created on first use.    *)
(*                                                                         *)
(* A step is what happens under one lock (the limiter's in _get_bucket,    *)
(* the bucket's in consume and wait_time), or one access of the dictionary *)
(* of limiters, which has no lock.                                         *)
(*                                                                         *)
(* Tokens are counted in units of what one tick of the clock adds, so that *)
(* a request costs Cost units and a bucket may hold a part of a token.     *)
(***************************************************************************)
EXTENDS Integers, FiniteSets

CONSTANTS
    Threads, Clients,
    Cost,               \* units in a token: ticks it takes to refill one
    Burst,              \* units in a full bucket
    CleanupInterval,
    Limiters, Buckets,  \* memory: one limiter per thread, and one bucket per thread and
                        \* per client of a limiter, are enough
    None

ASSUME LimiterAssumption ==
    /\ {Cost, Burst, CleanupInterval} \subseteq Nat \ {0}
    /\ Cost <= Burst
    /\ None \notin Threads \cup Clients \cup Limiters \cup Buckets

VARIABLES
    registry,   \* _limiters[scope]
    tables,     \* _buckets of each limiter
    cleaned,    \* limiter -> time since its last clean-up
    heap,       \* what each bucket holds
    thread,     \* what each thread is doing
    credit,     \* client -> what a bucket that is never dropped would hold
    excess,     \* whether a request was admitted beyond that credit
    abandoned   \* whether a limiter was replaced, or a bucket used that no table holds any more

vars == <<registry, tables, cleaned, heap, thread, credit, excess, abandoned>>

Least(a, b) == IF a <= b THEN a ELSE b

\* Time and time differences matter only up to the point where they stop counting.
Bucket == [tokens : 0 .. Burst, idle : 0 .. Burst]

Full == [tokens |-> Burst, idle |-> 0]

PCs == {"idle", "register", "limiter", "bucket", "consume", "wait_time"}

Thread == [pc : PCs, client : Clients \cup {None}, limiter : Limiters \cup {None},
           bucket : Buckets \cup {None}, denied : BOOLEAN]

Idle == [pc |-> "idle", client |-> None, limiter |-> None, bucket |-> None, denied |-> FALSE]

\* What the program can still reach.
Created(reg, threads) == ({reg} \cup {threads[t].limiter : t \in Threads}) \ {None}

InUse(reg, threads) ==
    ({tables[l][c] : l \in Created(reg, threads), c \in Clients}
       \cup {threads[t].bucket : t \in Threads}) \ {None}

\* What nothing refers to any more is blank again.
Collect(h) ==
    /\ tables' = [l \in Limiters |-> IF l \in Created(registry', thread')
                                       THEN tables[l] ELSE [c \in Clients |-> None]]
    /\ cleaned' = [l \in Limiters |-> IF l \in Created(registry', thread') THEN cleaned[l] ELSE 0]
    /\ heap' = [b \in Buckets |-> IF b \in InUse(registry', thread') THEN h[b] ELSE Full]

Finish(t) == thread' = [thread EXCEPT ![t] = Idle]

\* MUTANT: no cap on what has been refilled.
RefilledUncapped(b) == [tokens |-> b.tokens + b.idle, idle |-> 0]

\* MUTANT: the time is noted, the tokens are not added.
RefilledNothing(b) == [tokens |-> b.tokens, idle |-> 0]

\* _refill()
Refilled(b) == [tokens |-> Least(Burst, b.tokens + b.idle), idle |-> 0]

-----------------------------------------------------------------------------
(***************************************************************************)
(* throttling.py                                                           *)
(***************************************************************************)

\* allow_request(), and the test in _get_limiter()
Request(t, client) ==
    /\ thread[t].pc = "idle"
    /\ thread' = [thread EXCEPT ![t].client = client,
                                ![t].pc = IF registry = None THEN "register" ELSE "limiter"]
    /\ UNCHANGED <<registry, tables, cleaned, heap, credit, excess, abandoned>>

\* _get_limiter() creates a limiter ...
Register(t) ==
    /\ thread[t].pc = "register"
    /\ Limiters \ Created(registry, thread) # {}
    /\ registry' = CHOOSE l \in Limiters : l \notin Created(registry, thread)
    /\ abandoned' = (abandoned \/ registry # None)
    /\ thread' = [thread EXCEPT ![t].pc = "limiter"]
    /\ Collect(heap)
    /\ UNCHANGED <<credit, excess>>

\* ... and returns the one that is registered by then.
GetLimiter(t) ==
    /\ thread[t].pc = "limiter"
    /\ thread' = [thread EXCEPT ![t].limiter = registry, ![t].pc = "bucket"]
    /\ UNCHANGED <<registry, tables, cleaned, heap, credit, excess, abandoned>>

-----------------------------------------------------------------------------
(***************************************************************************)
(* rate_limiter.py                                                         *)
(***************************************************************************)

\* MUTANT: the clean-up drops every bucket.
StaleAll(h, b) == TRUE

\* A client with a full bucket is idle.
Stale(h, b) == h[b].tokens >= Burst

\* _maybe_cleanup(): what it leaves of the buckets and of the table.
Due(l) == cleaned[l] >= CleanupInterval

Swept(l) ==
    IF Due(l)
      THEN [b \in Buckets |-> IF \E k \in Clients : tables[l][k] = b
                                THEN Refilled(heap[b]) ELSE heap[b]]
      ELSE heap

Kept(l) ==
    [k \in Clients |->
       IF Due(l) /\ tables[l][k] # None /\ Stale(Swept(l), tables[l][k])
         THEN None ELSE tables[l][k]]

\* _get_bucket()
Picked(l, c) ==
    IF Kept(l)[c] # None THEN Kept(l)[c]
    ELSE CHOOSE b \in Buckets : b \notin InUse(registry, thread)

GetBucket(t) ==
    /\ thread[t].pc = "bucket"
    /\ Buckets \ InUse(registry, thread) # {}
    /\ LET l == thread[t].limiter
           c == thread[t].client
       IN  /\ cleaned' = [cleaned EXCEPT ![l] = IF Due(l) THEN 0 ELSE @]
           /\ tables' = [tables EXCEPT ![l] = [Kept(l) EXCEPT ![c] = Picked(l, c)]]
           /\ heap' = Swept(l)
           /\ thread' = [thread EXCEPT
                ![t].bucket = Picked(l, c),
                ![t].pc = IF thread[t].denied THEN "wait_time" ELSE "consume"]
    /\ UNCHANGED <<registry, credit, excess, abandoned>>

Admitted(t) == Refilled(heap[thread[t].bucket]).tokens >= Cost

\* consume(): a request that is denied asks how long to wait.
Consume(t) ==
    /\ thread[t].pc = "consume"
    /\ UNCHANGED registry
    /\ LET b   == thread[t].bucket
           c   == thread[t].client
           now == Refilled(heap[b])
       IN  IF Admitted(t)
             THEN /\ thread' = [thread EXCEPT ![t] = Idle]
                  /\ credit' = [credit EXCEPT ![c] = IF @ >= Cost THEN @ - Cost ELSE 0]
                  /\ excess' = (excess \/ credit[c] < Cost)
                  /\ abandoned' = (abandoned \/ b # tables[registry][c])
                  /\ Collect([heap EXCEPT ![b] = [now EXCEPT !.tokens = @ - Cost]])
             ELSE /\ thread' = [thread EXCEPT
                       ![t] = [Idle EXCEPT !.pc = "limiter", !.client = c, !.denied = TRUE]]
                  /\ Collect([heap EXCEPT ![b] = now])
                  /\ UNCHANGED <<credit, excess, abandoned>>

\* wait_time()
WaitTime(t) ==
    /\ thread[t].pc = "wait_time"
    /\ Finish(t)
    /\ UNCHANGED <<registry, credit, excess, abandoned>>
    /\ Collect([heap EXCEPT ![thread[t].bucket] = Refilled(@)])

-----------------------------------------------------------------------------
Tick ==
    /\ heap' = [b \in Buckets |-> IF b \in InUse(registry, thread)
                                    THEN [heap[b] EXCEPT !.idle = Least(Burst, @ + 1)]
                                    ELSE heap[b]]
    /\ cleaned' = [l \in Limiters |-> IF l \in Created(registry, thread)
                                        THEN Least(CleanupInterval, cleaned[l] + 1)
                                        ELSE cleaned[l]]
    /\ credit' = [c \in Clients |-> Least(Burst, credit[c] + 1)]
    /\ UNCHANGED <<registry, tables, thread, excess, abandoned>>

Init ==
    /\ registry = None
    /\ tables = [l \in Limiters |-> [c \in Clients |-> None]]
    /\ cleaned = [l \in Limiters |-> 0]
    /\ heap = [b \in Buckets |-> Full]
    /\ thread = [t \in Threads |-> Idle]
    /\ credit = [c \in Clients |-> Burst]
    /\ excess = FALSE
    /\ abandoned = FALSE

Step(t) ==
    \/ \E client \in Clients : Request(t, client)
    \/ Register(t) \/ GetLimiter(t) \/ GetBucket(t) \/ Consume(t) \/ WaitTime(t)

Next == (\E t \in Threads : Step(t)) \/ Tick

Spec == Init /\ [][Next]_vars

-----------------------------------------------------------------------------
(***************************************************************************)
(* Properties.                                                             *)
(***************************************************************************)

\* Every variable has its type.
TypeOK ==
    /\ registry \in Limiters \cup {None}
    /\ tables \in [Limiters -> [Clients -> Buckets \cup {None}]]
    /\ cleaned \in [Limiters -> 0 .. CleanupInterval]
    /\ heap \in [Buckets -> Bucket]
    /\ thread \in [Threads -> Thread]
    /\ credit \in [Clients -> 0 .. Burst]
    /\ excess \in BOOLEAN /\ abandoned \in BOOLEAN

\* However often the buckets of idle clients are dropped and made anew, a client
\* is admitted no more often than one bucket that is never dropped would allow,
\* unless a thread took a token from a bucket that another thread had dropped, or
\* replaced the limiter of another thread (rate_limiter.py:90-116, throttling.py:16-19).
AdmissionBound == excess => abandoned

\* No interleaving makes the limiter stricter than it says: whoever is denied has
\* no token left in a bucket that is never dropped either.
DeniedOnlyWhenSpent ==
    [][\A t \in Threads :
         thread[t].pc = "consume" /\ thread'[t].denied => credit[thread[t].client] < Cost]_vars

=============================================================================
