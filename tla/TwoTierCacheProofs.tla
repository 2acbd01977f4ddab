------------------------- MODULE TwoTierCacheProofs -------------------------
(***************************************************************************)
(* Theorems about TwoTierCache, for any number of processes and query      *)
(* strings, any times to live and any timeout.                             *)
(***************************************************************************)
EXTENDS TwoTierCache, TLAPS

\* For how long a response has been out of date.
AgeOf(x) == IF x.age = Current THEN 0 ELSE x.age

\* A list that still has `left` to live in a tier entered it that much earlier.
RedisOK(e) == InRedis(e) => AgeOf(e) + e.left <= MaxRequest + L2TTL

L1OK(e) == InL1(e) => AgeOf(e) + e.left < 2 * MaxRequest + L2TTL + DefaultTTL

\* A process has had what it holds for `run` at most.
JobOK(j) ==
    /\ j.pc \in {"redis", "promote", "query", "fill_l1", "fill_redis"} => j.asked \in Queries
    /\ j.pc \in {"redis", "query"} => j.query = None /\ j.age = Current
    /\ j.pc \in {"fill_l1", "fill_redis"} => AgeOf(j) <= j.run
    /\ j.pc = "promote" => AgeOf(j) < MaxRequest + L2TTL + j.run
    /\ j.pc = "respond" => AgeOf(j) < 2 * MaxRequest + L2TTL + DefaultTTL + j.run

AgeInv ==
    /\ \A k \in Keys : RedisOK(redis[k])
    /\ \A p \in Processes, k \in Keys : L1OK(l1[p][k])
    /\ \A p \in Processes : JobOK(job[p])

LEMMA KeyInKeys == \A q \in Queries : KeyOf(q) \in Keys
  BY DEF Keys

LEMMA EmptyOK == /\ Gone \in Entry /\ RedisOK(Gone) /\ L1OK(Gone)
                 /\ Idle \in Job /\ JobOK(Idle)
  BY TTLAssumption
     DEF Gone, Idle, Entry, Job, Ages, Current, PCs, InRedis, InL1, RedisOK, L1OK, JobOK

LEMMA InitOK == Init => TypeOK /\ AgeInv
  BY EmptyOK DEF Init, TypeOK, AgeInv

\* What the operators on responses and entries do.
LEMMA OutdatedEntry ==
    ASSUME NEW e \in Entry
    PROVE  /\ Outdated(e) \in Entry
           /\ RedisOK(e) => RedisOK(Outdated(e))
           /\ L1OK(e) => L1OK(Outdated(e))
  BY DEF Entry, Outdated, AgeOf, Ages, Current, RedisOK, L1OK, InRedis, InL1

LEMMA OutdatedJob ==
    ASSUME NEW j \in Job
    PROVE  Outdated(j) \in Job /\ (JobOK(j) => JobOK(Outdated(j)))
<1>1. CASE Outdated(j) = j
  BY <1>1
<1>2. CASE Outdated(j) # j
  <2> DEFINE o == [j EXCEPT !.age = 0]
  <2>1. Outdated(j) = o /\ j.query # None /\ j.age = Current
    BY <1>2 DEF Outdated
  <2>2. o \in Job /\ o.pc = j.pc /\ o.run = j.run /\ o.asked = j.asked /\ o.age = 0
    BY DEF Job, Ages
  <2>3. AgeOf(o) = AgeOf(j)
    BY <2>1, <2>2 DEF AgeOf, Current
  <2> QED BY <2>1, <2>2, <2>3 DEF JobOK
<1> QED BY <1>1, <1>2

LEMMA ExpiringEntry ==
    ASSUME NEW e \in Entry
    PROVE  /\ Expiring(e) \in Entry
           /\ RedisOK(e) => RedisOK(Expiring(e))
           /\ L1OK(e) => L1OK(Expiring(e))
<1>1. CASE ~(e.left > 0)
  BY <1>1, EmptyOK DEF Expiring
<1>2. CASE e.left > 0
  <2>1. Older(e) \in Entry /\ Older(e).left = e.left /\ AgeOf(Older(e)) <= AgeOf(e) + 1
    BY DEF Older, Entry, Ages, Current, AgeOf
  <2> DEFINE o == [Older(e) EXCEPT !.left = e.left - 1]
  <2>2. Expiring(e) = o
    BY <1>2, <2>1 DEF Expiring, Entry
  <2>3. o \in Entry /\ o.left = e.left - 1 /\ o.age = Older(e).age
    BY <1>2, <2>1 DEF Entry
  <2>4. AgeOf(o) + o.left <= AgeOf(e) + e.left
    BY <2>1, <2>3 DEF AgeOf, Entry, Ages, Current
  <2>5. AgeOf(o) \in Int /\ AgeOf(e) \in Int /\ o.left \in Int /\ e.left \in Int
    BY <2>3 DEF AgeOf, Entry, Ages, Current
  <2> QED BY <1>2, <2>2, <2>3, <2>4, <2>5, TTLAssumption DEF RedisOK, L1OK, InRedis, InL1
<1> QED BY <1>1, <1>2 DEF Entry

Aged(j) == [Older(j) EXCEPT !.run = @ + 1]

LEMMA OlderJob ==
    ASSUME NEW j \in Job, j.run < MaxRequest
    PROVE  Aged(j) \in Job /\ (JobOK(j) => JobOK(Aged(j)))
<1>1. CASE j.age = Current
  BY <1>1, TTLAssumption DEF Job, Older, Aged, AgeOf, Ages, Current, JobOK
<1>2. CASE j.age # Current
  <2> DEFINE o == [[j EXCEPT !.age = j.age + 1] EXCEPT !.run = j.run + 1]
  <2>1. Aged(j) = o
    BY <1>2 DEF Aged, Older, Job
  <2>2. j.age \in Nat /\ j.run \in Nat
    BY <1>2, TTLAssumption DEF Job, Ages
  <2>3. j.age + 1 \in Ages /\ j.run + 1 \in 0 .. MaxRequest
    BY <2>2, TTLAssumption DEF Ages
  <2>4. /\ o \in Job /\ o.pc = j.pc /\ o.asked = j.asked /\ o.query = j.query
        /\ o.age = j.age + 1 /\ o.run = j.run + 1
    BY <2>3 DEF Job
  <2>5. AgeOf(o) = AgeOf(j) + 1 /\ AgeOf(j) = j.age
    BY <1>2, <2>2, <2>4 DEF AgeOf, Current
  <2> QED BY <1>2, <2>1, <2>2, <2>4, <2>5, TTLAssumption DEF JobOK
<1> QED BY <1>1, <1>2

\* A step of process p changes its job, and perhaps an entry of its L1 or of Redis.
LEMMA SetJob ==
    ASSUME TypeOK, AgeInv, NEW p \in Processes, NEW j \in Job, JobOK(j),
           job' = [job EXCEPT ![p] = j]
    PROVE  job' \in [Processes -> Job] /\ \A x \in Processes : JobOK(job'[x])
  BY DEF TypeOK, AgeInv

LEMMA SetL1 ==
    ASSUME TypeOK, AgeInv, NEW p \in Processes, NEW key \in Keys, NEW e \in Entry, L1OK(e),
           l1' = [l1 EXCEPT ![p][key] = e]
    PROVE  /\ l1' \in [Processes -> [Keys -> Entry]]
           /\ \A x \in Processes, k \in Keys : L1OK(l1'[x][k])
  BY DEF TypeOK, AgeInv

LEMMA ClearedL1 ==
    ASSUME TypeOK, AgeInv, NEW p \in Processes,
           l1' = [l1 EXCEPT ![p] = [k \in Keys |-> Gone]]
    PROVE  /\ l1' \in [Processes -> [Keys -> Entry]]
           /\ \A x \in Processes, k \in Keys : L1OK(l1'[x][k])
  BY EmptyOK DEF TypeOK, AgeInv

LEMMA SetRedis ==
    ASSUME TypeOK, AgeInv, NEW key \in Keys, NEW e \in Entry, RedisOK(e),
           redis' = [redis EXCEPT ![key] = e]
    PROVE  redis' \in [Keys -> Entry] /\ \A k \in Keys : RedisOK(redis'[k])
  BY DEF TypeOK, AgeInv

-----------------------------------------------------------------------------
(***************************************************************************)
(* One lemma per kind of step, one case per action.                        *)
(***************************************************************************)
LEMMA ListOK ==
    ASSUME TypeOK, AgeInv, NEW p \in Processes, NEW q \in Queries, List(p, q)
    PROVE  TypeOK' /\ AgeInv'
<1> DEFINE e == l1[p][KeyOf(q)]
           hit == [pc |-> "respond", asked |-> q, query |-> e.query, age |-> e.age, run |-> 0]
           miss == [Idle EXCEPT !.pc = "redis", !.asked = q]
<1>1. e \in Entry /\ L1OK(e)
  BY KeyInKeys DEF TypeOK, AgeInv
<1>2. hit \in Job /\ (InL1(e) => JobOK(hit))
  BY <1>1, TTLAssumption DEF L1OK, InL1, AgeOf, Entry, Job, JobOK, PCs, Ages, Current
<1>3. miss \in Job /\ JobOK(miss)
  <2>1. Idle \in Job /\ Idle.query = None /\ Idle.age = Current
    BY EmptyOK DEF Idle
  <2>2. /\ miss \in Job /\ miss.pc = "redis" /\ miss.asked = q
        /\ miss.query = None /\ miss.age = Current
    BY <2>1 DEF Job, PCs
  <2> QED BY <2>2 DEF JobOK
<1>4. job' = [job EXCEPT ![p] = IF InL1(e) THEN hit ELSE miss]
  BY DEF List
<1>5. job' \in [Processes -> Job] /\ \A x \in Processes : JobOK(job'[x])
  <2>1. CASE InL1(e)
    BY <1>2, <1>4, <2>1, SetJob
  <2>2. CASE ~InL1(e)
    BY <1>3, <1>4, <2>2, SetJob
  <2> QED BY <2>1, <2>2
<1> QED BY <1>5 DEF List, TypeOK, AgeInv

LEMMA ReaderOK ==
    ASSUME TypeOK, AgeInv, NEW p \in Processes,
           \/ LookupRedis(p) \/ Promote(p) \/ QueryDatabase(p)
           \/ FillL1(p) \/ FillRedis(p) \/ Respond(p) \/ RedisError(p)
    PROVE  TypeOK' /\ AgeInv'
<1> DEFINE j == job[p]
           key == KeyOf(j.asked)
<1>0. j \in Job /\ JobOK(j)
  BY DEF TypeOK, AgeInv
<1>2. CASE LookupRedis(p)
  <2> DEFINE e == redis[key]
             hit == [j EXCEPT !.pc = "promote", !.query = e.query, !.age = e.age]
             miss == [j EXCEPT !.pc = "query"]
  <2>1. key \in Keys /\ j.pc = "redis"
    BY <1>0, <1>2, KeyInKeys DEF LookupRedis, JobOK
  <2>2. e \in Entry /\ RedisOK(e)
    BY <2>1 DEF TypeOK, AgeInv
  <2>3. hit \in Job /\ (InRedis(e) => JobOK(hit))
    <3>1. /\ hit \in Job /\ hit.pc = "promote" /\ hit.asked = j.asked
          /\ hit.age = e.age /\ hit.run = j.run
      BY <1>0, <2>2 DEF Job, Entry, PCs
    <3>2. j.asked \in Queries /\ j.run \in Nat
      BY <1>0, <2>1, TTLAssumption DEF JobOK, Job
    <3>3. AgeOf(hit) = AgeOf(e) /\ AgeOf(e) \in Int /\ e.left \in Int
      BY <2>2, <3>1 DEF AgeOf, Entry, Ages, Current
    <3>4. InRedis(e) => AgeOf(hit) < MaxRequest + L2TTL + hit.run
      BY <2>2, <3>1, <3>2, <3>3, TTLAssumption DEF RedisOK, InRedis
    <3> QED BY <3>1, <3>2, <3>4 DEF JobOK
  <2>4. miss \in Job /\ JobOK(miss)
    BY <1>0, <2>1 DEF Job, JobOK, PCs
  <2>5. job' = [job EXCEPT ![p] = IF InRedis(e) THEN hit ELSE miss]
    BY <1>2 DEF LookupRedis, Goto, TypeOK
  <2>6. job' \in [Processes -> Job] /\ \A x \in Processes : JobOK(job'[x])
    <3>1. CASE InRedis(e)
      BY <2>3, <2>5, <3>1, SetJob
    <3>2. CASE ~InRedis(e)
      BY <2>4, <2>5, <3>2, SetJob
    <3> QED BY <3>1, <3>2
  <2> QED BY <1>2, <2>6 DEF LookupRedis, TypeOK, AgeInv
<1>3. CASE Promote(p)
  <2> DEFINE e == [query |-> j.query, age |-> j.age, left |-> DefaultTTL]
             next == [j EXCEPT !.pc = "respond"]
  <2>1. key \in Keys /\ j.pc = "promote"
    BY <1>0, <1>3, KeyInKeys DEF Promote, JobOK
  <2>2. e \in Entry /\ L1OK(e) /\ next \in Job /\ JobOK(next)
    BY <1>0, <2>1, TTLAssumption
       DEF L1OK, InL1, AgeOf, Entry, Job, JobOK, PCs, Ages, Current
  <2>3. l1' = [l1 EXCEPT ![p][key] = e] /\ job' = [job EXCEPT ![p] = next]
    BY <1>3 DEF Promote, PutL1, Goto, TypeOK
  <2>4. job' \in [Processes -> Job] /\ \A x \in Processes : JobOK(job'[x])
    BY <2>2, <2>3, SetJob
  <2>5. /\ l1' \in [Processes -> [Keys -> Entry]]
        /\ \A x \in Processes, k \in Keys : L1OK(l1'[x][k])
    BY <2>1, <2>2, <2>3, SetL1
  <2> QED BY <1>3, <2>4, <2>5 DEF Promote, TypeOK, AgeInv
<1>4. CASE QueryDatabase(p)
  <2> DEFINE next == [j EXCEPT !.pc = "fill_l1", !.query = j.asked]
  <2>1. j.pc = "query"
    BY <1>4 DEF QueryDatabase
  <2>2. next \in Job /\ JobOK(next)
    <3>1. j.asked \in Queries /\ j.age = Current /\ j.run \in Nat
      BY <1>0, <2>1, TTLAssumption DEF JobOK, Job
    <3>2. /\ next \in Job /\ next.pc = "fill_l1" /\ next.asked \in Queries
          /\ next.age = Current /\ next.run = j.run
      BY <1>0, <3>1 DEF Job, PCs
    <3> QED BY <3>1, <3>2 DEF AgeOf, JobOK
  <2>3. job' = [job EXCEPT ![p] = next]
    BY <1>4 DEF QueryDatabase, TypeOK
  <2>4. job' \in [Processes -> Job] /\ \A x \in Processes : JobOK(job'[x])
    BY <2>2, <2>3, SetJob
  <2> QED BY <1>4, <2>4 DEF QueryDatabase, TypeOK, AgeInv
<1>5. CASE FillL1(p)
  <2> DEFINE e == [query |-> j.query, age |-> j.age, left |-> L1TTL]
             next == [j EXCEPT !.pc = "fill_redis"]
  <2>1. key \in Keys /\ j.pc = "fill_l1"
    BY <1>0, <1>5, KeyInKeys DEF FillL1, JobOK
  <2>2. e \in Entry /\ L1OK(e) /\ next \in Job /\ JobOK(next)
    BY <1>0, <2>1, TTLAssumption
       DEF L1OK, InL1, AgeOf, Entry, Job, JobOK, PCs, Ages, Current
  <2>3. l1' = [l1 EXCEPT ![p][key] = e] /\ job' = [job EXCEPT ![p] = next]
    BY <1>5 DEF FillL1, PutL1, Goto, TypeOK
  <2>4. job' \in [Processes -> Job] /\ \A x \in Processes : JobOK(job'[x])
    BY <2>2, <2>3, SetJob
  <2>5. /\ l1' \in [Processes -> [Keys -> Entry]]
        /\ \A x \in Processes, k \in Keys : L1OK(l1'[x][k])
    BY <2>1, <2>2, <2>3, SetL1
  <2> QED BY <1>5, <2>4, <2>5 DEF FillL1, TypeOK, AgeInv
<1>6. CASE FillRedis(p)
  <2> DEFINE e == [query |-> j.query, age |-> j.age, left |-> L2TTL]
             next == [j EXCEPT !.pc = "respond"]
  <2>1. key \in Keys /\ j.pc = "fill_redis"
    BY <1>0, <1>6, KeyInKeys DEF FillRedis, JobOK
  <2>2. e \in Entry /\ RedisOK(e) /\ next \in Job /\ JobOK(next)
    BY <1>0, <2>1, TTLAssumption
       DEF RedisOK, InRedis, AgeOf, Entry, Job, JobOK, PCs, Ages, Current
  <2>3. redis' = [redis EXCEPT ![key] = e] /\ job' = [job EXCEPT ![p] = next]
    BY <1>6 DEF FillRedis, Goto, TypeOK
  <2>4. job' \in [Processes -> Job] /\ \A x \in Processes : JobOK(job'[x])
    BY <2>2, <2>3, SetJob
  <2>5. redis' \in [Keys -> Entry] /\ \A k \in Keys : RedisOK(redis'[k])
    BY <2>1, <2>2, <2>3, SetRedis
  <2> QED BY <1>6, <2>4, <2>5 DEF FillRedis, TypeOK, AgeInv
<1>7. CASE Respond(p) \/ RedisError(p)
  <2>1. job' = [job EXCEPT ![p] = Idle]
    BY <1>7 DEF Respond, RedisError, Finish
  <2>2. job' \in [Processes -> Job] /\ \A x \in Processes : JobOK(job'[x])
    BY <2>1, EmptyOK, SetJob
  <2> QED BY <1>7, <2>2 DEF Respond, RedisError, TypeOK, AgeInv
<1> QED BY <1>2, <1>3, <1>4, <1>5, <1>6, <1>7

LEMMA WriteOK ==
    ASSUME TypeOK, AgeInv, NEW p \in Processes, NEW next \in Job, JobOK(next),
           NEW cause \in SUBSET {"race", "uninvalidated"}, WriteBy(p, next, cause)
    PROVE  TypeOK' /\ AgeInv'
<1>1. /\ l1' \in [Processes -> [Keys -> Entry]]
      /\ \A x \in Processes, k \in Keys : L1OK(l1'[x][k])
  BY OutdatedEntry DEF WriteBy, TypeOK, AgeInv
<1>2. redis' \in [Keys -> Entry] /\ \A k \in Keys : RedisOK(redis'[k])
  BY OutdatedEntry DEF WriteBy, TypeOK, AgeInv
<1>3. job' \in [Processes -> Job] /\ \A x \in Processes : JobOK(job'[x])
  BY OutdatedJob DEF WriteBy, TypeOK, AgeInv
<1> QED BY <1>1, <1>2, <1>3 DEF WriteBy, TypeOK, AgeInv

LEMMA WriterOK ==
    ASSUME TypeOK, AgeInv, NEW p \in Processes,
           \/ Command(p) \/ WriteBook(p) \/ ClearL1(p) \/ DeletePattern(p)
           \/ ClearCache(p) \/ Flush(p)
    PROVE  TypeOK' /\ AgeInv'
<1> DEFINE clear == [Idle EXCEPT !.pc = "clear"]
<1>1. CASE Command(p)
  <2>1. clear \in Job /\ JobOK(clear)
    BY TTLAssumption DEF Idle, Job, JobOK, PCs, Ages, Current
  <2> QED BY <1>1, <2>1, WriteOK DEF Command
<1>2. CASE WriteBook(p)
  BY <1>2, EmptyOK, WriteOK DEF WriteBook
<1>3. CASE ClearL1(p)
  <2> DEFINE next == [job[p] EXCEPT !.pc = "delete"]
  <2>1. next \in Job /\ JobOK(next)
    BY DEF Job, JobOK, PCs, TypeOK
  <2>2. job' = [job EXCEPT ![p] = next]
    BY <1>3 DEF ClearL1, Goto, TypeOK
  <2>3. job' \in [Processes -> Job] /\ \A x \in Processes : JobOK(job'[x])
    BY <2>1, <2>2, SetJob
  <2> QED BY <1>3, <2>3, ClearedL1 DEF ClearL1, TypeOK, AgeInv
<1>4. CASE DeletePattern(p)
  <2>1. job' \in [Processes -> Job] /\ \A x \in Processes : JobOK(job'[x])
    BY <1>4, EmptyOK, SetJob DEF DeletePattern, Finish
  <2>2. redis' \in [Keys -> Entry] /\ \A k \in Keys : RedisOK(redis'[k])
    BY <1>4, EmptyOK DEF DeletePattern, TypeOK, AgeInv
  <2> QED BY <1>4, <2>1, <2>2 DEF DeletePattern, TypeOK, AgeInv
<1>5. CASE ClearCache(p)
  <2> DEFINE next == [job[p] EXCEPT !.pc = "flush"]
  <2>1. next \in Job /\ JobOK(next)
    BY DEF Job, JobOK, PCs, TypeOK
  <2>2. job' = [job EXCEPT ![p] = next]
    BY <1>5 DEF ClearCache, Goto, TypeOK
  <2>3. job' \in [Processes -> Job] /\ \A x \in Processes : JobOK(job'[x])
    BY <2>1, <2>2, SetJob
  <2> QED BY <1>5, <2>3, ClearedL1 DEF ClearCache, TypeOK, AgeInv
<1>6. CASE Flush(p)
  <2>1. job' \in [Processes -> Job] /\ \A x \in Processes : JobOK(job'[x])
    BY <1>6, EmptyOK, SetJob DEF Flush, Finish
  <2>2. redis' \in [Keys -> Entry] /\ \A k \in Keys : RedisOK(redis'[k])
    BY <1>6, EmptyOK DEF Flush, TypeOK, AgeInv
  <2> QED BY <1>6, <2>1, <2>2 DEF Flush, TypeOK, AgeInv
<1> QED BY <1>1, <1>2, <1>3, <1>4, <1>5, <1>6

LEMMA KillOK ==
    ASSUME TypeOK, AgeInv, NEW p \in Processes, Kill(p)
    PROVE  TypeOK' /\ AgeInv'
<1>1. job' \in [Processes -> Job] /\ \A x \in Processes : JobOK(job'[x])
  BY EmptyOK, SetJob DEF Kill, Finish
<1> QED BY <1>1, ClearedL1 DEF Kill, TypeOK, AgeInv

LEMMA EvictOK ==
    ASSUME TypeOK, AgeInv, NEW p \in Processes, NEW k \in Keys, Evict(p, k)
    PROVE  TypeOK' /\ AgeInv'
<1>1. /\ l1' \in [Processes -> [Keys -> Entry]]
      /\ \A x \in Processes, y \in Keys : L1OK(l1'[x][y])
  BY EmptyOK, SetL1 DEF Evict
<1> QED BY <1>1 DEF Evict, TypeOK, AgeInv

LEMMA TickOK ==
    ASSUME TypeOK, AgeInv, Tick
    PROVE  TypeOK' /\ AgeInv'
<1>1. /\ l1' \in [Processes -> [Keys -> Entry]]
      /\ \A x \in Processes, y \in Keys : L1OK(l1'[x][y])
  BY ExpiringEntry DEF Tick, TypeOK, AgeInv
<1>2. redis' \in [Keys -> Entry] /\ \A y \in Keys : RedisOK(redis'[y])
  BY ExpiringEntry DEF Tick, TypeOK, AgeInv
<1>3. job' = [x \in Processes |-> IF job[x].pc = "idle" THEN job[x] ELSE Aged(job[x])]
  BY DEF Tick, Aged
<1>4. \A x \in Processes : job[x].pc # "idle" => job[x].run < MaxRequest
  BY DEF Tick
<1>5. job' \in [Processes -> Job] /\ \A x \in Processes : JobOK(job'[x])
  BY <1>3, <1>4, OlderJob DEF TypeOK, AgeInv
<1> QED BY <1>1, <1>2, <1>5 DEF Tick, TypeOK, AgeInv

LEMMA NextOK == TypeOK /\ AgeInv /\ [Next]_vars => TypeOK' /\ AgeInv'
<1> SUFFICES ASSUME TypeOK, AgeInv, [Next]_vars PROVE TypeOK' /\ AgeInv'
  OBVIOUS
<1>1. CASE UNCHANGED vars
  BY <1>1 DEF vars, TypeOK, AgeInv
<1> QED BY <1>1, ListOK, ReaderOK, WriterOK, KillOK, EvictOK, TickOK DEF Next, Step

LEMMA Invariants == Spec => [](TypeOK /\ AgeInv)
  BY InitOK, NextOK, PTL DEF Spec

\* Every variable keeps its type; no request outlives the timeout.
THEOREM TypeCorrect == Spec => []TypeOK
  BY Invariants, PTL

\* Whatever fails and overlaps, no list that is sent has been wrong for longer than
\* three requests, one life in Redis and one in L1 (caching.py:23-49).
THEOREM StalenessIsBounded == Spec => []StalenessBounded
<1>1. TypeOK /\ AgeInv => StalenessBounded
  <2> SUFFICES ASSUME TypeOK, AgeInv, NEW p \in Processes, job[p].pc = "respond"
               PROVE  job[p].age < 3 * MaxRequest + L2TTL + DefaultTTL
    BY DEF StalenessBounded
  <2>1. job[p] \in Job /\ JobOK(job[p])
    BY DEF TypeOK, AgeInv
  <2> QED BY <2>1, TTLAssumption DEF JobOK, Job, AgeOf, Ages, Current
<1> QED BY <1>1, Invariants, PTL

-----------------------------------------------------------------------------
(***************************************************************************)
(* While nothing has happened that can leave an old list in Redis.         *)
(***************************************************************************)
FillsFresh == \A p \in Processes : Filling(p) => job[p].age = Current

\* An old list has been old for no longer than a command has been running that has
\* its invalidation still to do.
AwaitsDeletion(e) == \E p \in Processes : Invalidating(p) /\ e.age <= job[p].run

RedisFresh ==
    \A k \in Keys : InRedis(redis[k]) /\ redis[k].age # Current => AwaitsDeletion(redis[k])

Promotable(j) == j.pc = "promote" => AgeOf(j) <= MaxRequest + j.run

PromotesFresh == \A p \in Processes : Promotable(job[p])

\* A list came to L1 from Redis, at most two requests old, or fresh from the database.
Short(e) == InL1(e) => \/ AgeOf(e) + e.left <= 2 * MaxRequest + DefaultTTL
                       \/ AgeOf(e) + e.left <= L1TTL

L1Fresh == \A p \in Processes, k \in Keys : Short(l1[p][k])

FreshInv == FillsFresh /\ RedisFresh /\ PromotesFresh /\ L1Fresh

\* A process that goes on, ends or starts as j.
LEMMA FreshJob ==
    ASSUME TypeOK, FreshInv, NEW p \in Processes, NEW j, job' = [job EXCEPT ![p] = j],
           UNCHANGED redis,
           j.pc \in {"fill_l1", "fill_redis"} => j.age = Current,
           Promotable(j),
           Invalidating(p) => j.pc \in {"clear", "delete"} /\ j.run = job[p].run
    PROVE  FillsFresh' /\ RedisFresh' /\ PromotesFresh'
<1>1. job'[p] = j /\ \A x \in Processes : x # p => job'[x] = job[x]
  BY DEF TypeOK
<1>2. FillsFresh'
  BY <1>1 DEF FreshInv, FillsFresh, Filling
<1>3. PromotesFresh'
  BY <1>1 DEF FreshInv, PromotesFresh, Promotable, AgeOf
<1>4. RedisFresh'
  <2> SUFFICES ASSUME NEW k \in Keys, InRedis(redis[k]), redis[k].age # Current
               PROVE  AwaitsDeletion(redis[k])'
    BY DEF RedisFresh, InRedis
  <2>1. PICK x \in Processes : Invalidating(x) /\ redis[k].age <= job[x].run
    BY DEF FreshInv, RedisFresh, AwaitsDeletion
  <2>2. Invalidating(x)' /\ job'[x].run = job[x].run
    BY <1>1, <2>1 DEF Invalidating
  <2> QED BY <2>1, <2>2 DEF AwaitsDeletion
<1> QED BY <1>2, <1>3, <1>4

\* Redis is emptied, and the process ends.
LEMMA FreshEmptied ==
    ASSUME TypeOK, FreshInv, NEW p \in Processes, Finish(p),
           redis' = [k \in Keys |-> Gone]
    PROVE  FillsFresh' /\ RedisFresh' /\ PromotesFresh'
<1>1. job'[p] = Idle /\ \A x \in Processes : x # p => job'[x] = job[x]
  BY DEF Finish, TypeOK
<1>2. FillsFresh'
  BY <1>1 DEF FreshInv, FillsFresh, Filling, Idle
<1>3. PromotesFresh'
  BY <1>1 DEF FreshInv, PromotesFresh, Promotable, AgeOf, Idle
<1>4. RedisFresh'
  BY DEF RedisFresh, InRedis, Gone
<1> QED BY <1>2, <1>3, <1>4

LEMMA FreshL1 ==
    ASSUME TypeOK, FreshInv, NEW p \in Processes, NEW key \in Keys, NEW e \in Entry, Short(e),
           l1' = [l1 EXCEPT ![p][key] = e]
    PROVE  L1Fresh'
<1>1. \A x \in Processes, k \in Keys : l1'[x][k] = IF x = p /\ k = key THEN e ELSE l1[x][k]
  BY DEF TypeOK
<1>2. \A x \in Processes, k \in Keys : Short(l1'[x][k])
  BY <1>1 DEF FreshInv, L1Fresh
<1> QED BY <1>2 DEF L1Fresh, Short, InL1, AgeOf

LEMMA FreshCleared ==
    ASSUME TypeOK, FreshInv, NEW p \in Processes, l1' = [l1 EXCEPT ![p] = [k \in Keys |-> Gone]]
    PROVE  L1Fresh'
<1>1. \A x \in Processes, k \in Keys : l1'[x][k] = IF x = p THEN Gone ELSE l1[x][k]
  BY DEF TypeOK
<1>2. Short(Gone)
  BY DEF Short, InL1, Gone
<1>3. \A x \in Processes, k \in Keys : Short(l1'[x][k])
  BY <1>1, <1>2 DEF FreshInv, L1Fresh
<1> QED BY <1>3 DEF L1Fresh, Short, InL1, AgeOf

LEMMA FreshSame == FreshInv /\ UNCHANGED l1 => L1Fresh'
  BY DEF FreshInv, L1Fresh, Short, InL1, AgeOf

\* One lemma for the reader ...
LEMMA FreshReader ==
    ASSUME TypeOK, AgeInv, FreshInv, NEW p \in Processes,
           \/ \E q \in Queries : List(p, q)
           \/ LookupRedis(p) \/ Promote(p) \/ QueryDatabase(p)
           \/ FillL1(p) \/ FillRedis(p) \/ Respond(p) \/ RedisError(p)
    PROVE  FreshInv'
<1> DEFINE j == job[p]
           key == KeyOf(j.asked)
<1>0. j \in Job /\ JobOK(j) /\ Promotable(j) /\ j.run \in Nat
      /\ (Filling(p) => j.age = Current)
  BY TTLAssumption DEF TypeOK, AgeInv, FreshInv, FillsFresh, PromotesFresh, Job
<1>1. ASSUME NEW q \in Queries, List(p, q) PROVE FreshInv'
  <2> DEFINE e == l1[p][KeyOf(q)]
             k == IF InL1(e)
                    THEN [pc |-> "respond", asked |-> q, query |-> e.query,
                          age |-> e.age, run |-> 0]
                    ELSE [Idle EXCEPT !.pc = "redis", !.asked = q]
  <2>1. job' = [job EXCEPT ![p] = k] /\ UNCHANGED <<l1, redis>> /\ ~Invalidating(p)
    BY <1>1 DEF List, Invalidating
  <2>2. k.pc \in {"respond", "redis"}
    BY DEF Idle
  <2> HIDE DEF k
  <2>3. FillsFresh' /\ RedisFresh' /\ PromotesFresh'
    BY <2>1, <2>2, FreshJob DEF Promotable
  <2> QED BY <2>1, <2>3, FreshSame DEF FreshInv
<1>2. CASE LookupRedis(p)
  <2> DEFINE e == redis[key]
             hit == [j EXCEPT !.pc = "promote", !.query = e.query, !.age = e.age]
             miss == [j EXCEPT !.pc = "query"]
  <2>1. /\ job' = [job EXCEPT ![p] = IF InRedis(e) THEN hit ELSE miss]
        /\ UNCHANGED <<l1, redis>> /\ j.pc = "redis" /\ ~Invalidating(p)
    BY <1>2 DEF LookupRedis, Goto, TypeOK, Invalidating
  <2>2. key \in Keys /\ e \in Entry
    BY <1>0, <2>1, KeyInKeys DEF JobOK, TypeOK
  <2>3. InRedis(e) => AgeOf(e) <= MaxRequest
    <3>1. CASE e.age = Current
      BY <3>1, TTLAssumption DEF AgeOf
    <3>2. CASE e.age # Current /\ InRedis(e)
      <4>1. PICK x \in Processes : Invalidating(x) /\ e.age <= job[x].run
        BY <2>2, <3>2 DEF FreshInv, RedisFresh, AwaitsDeletion
      <4>2. job[x].run \in 0 .. MaxRequest /\ e.age \in Nat
        BY <2>2, <3>2 DEF TypeOK, Job, Entry, Ages
      <4> QED BY <3>2, <4>1, <4>2, TTLAssumption DEF AgeOf
    <3> QED BY <3>1, <3>2
  <2>4. InRedis(e) => Promotable(hit)
    <3>1. hit.age = e.age /\ hit.run = j.run /\ hit.pc = "promote"
      BY <1>0 DEF Job
    <3>2. AgeOf(hit) = AgeOf(e) /\ AgeOf(e) \in Int
      BY <2>2, <3>1 DEF AgeOf, Entry, Ages, Current
    <3> QED BY <1>0, <2>3, <3>1, <3>2, TTLAssumption DEF Promotable
  <2>5. hit.pc = "promote" /\ miss.pc = "query"
    BY <1>0 DEF Job
  <2>6. FillsFresh' /\ RedisFresh' /\ PromotesFresh'
    <3> HIDE DEF hit, miss
    <3>1. CASE InRedis(e)
      BY <2>1, <2>4, <2>5, <3>1, FreshJob
    <3>2. CASE ~InRedis(e)
      BY <2>1, <2>5, <3>2, FreshJob DEF Promotable
    <3> QED BY <3>1, <3>2
  <2> QED BY <2>1, <2>6, FreshSame DEF FreshInv
<1>3. CASE Promote(p) \/ FillL1(p)
  <2> DEFINE ttl == IF j.pc = "promote" THEN DefaultTTL ELSE L1TTL
             e == [query |-> j.query, age |-> j.age, left |-> ttl]
             next == [j EXCEPT !.pc = IF j.pc = "promote" THEN "respond" ELSE "fill_redis"]
  <2>1. /\ l1' = [l1 EXCEPT ![p][key] = e] /\ job' = [job EXCEPT ![p] = next]
        /\ UNCHANGED redis /\ j.pc \in {"promote", "fill_l1"} /\ ~Invalidating(p)
    BY <1>3 DEF Promote, FillL1, PutL1, Goto, TypeOK, Invalidating
  <2>2. key \in Keys /\ e \in Entry
    BY <1>0, <2>1, KeyInKeys, TTLAssumption DEF JobOK, Job, Entry
  <2>3. Short(e)
    <3>1. AgeOf(e) = AgeOf(j) /\ e.left = ttl /\ AgeOf(j) \in Int
      BY <1>0 DEF AgeOf, Job, Ages, Current
    <3>2. CASE j.pc = "promote"
      <4>1. AgeOf(j) <= 2 * MaxRequest
        BY <1>0, <3>1, <3>2, TTLAssumption DEF Promotable, Job
      <4> QED BY <3>1, <3>2, <4>1, TTLAssumption DEF Short
    <3>3. CASE j.pc = "fill_l1"
      <4>1. AgeOf(j) = 0
        BY <1>0, <3>3 DEF Filling, AgeOf
      <4> QED BY <3>1, <3>3, <4>1, TTLAssumption DEF Short
    <3> QED BY <2>1, <3>2, <3>3
  <2>4. L1Fresh'
    BY <2>1, <2>2, <2>3, FreshL1
  <2>5. /\ next.pc \in {"respond", "fill_redis"} /\ next.age = j.age
        /\ next.pc = "fill_redis" => Filling(p)
    BY <1>0, <2>1 DEF Job, Filling
  <2>6. FillsFresh' /\ RedisFresh' /\ PromotesFresh'
    <3> HIDE DEF next
    <3> QED BY <1>0, <2>1, <2>5, FreshJob DEF Promotable
  <2> QED BY <2>4, <2>6 DEF FreshInv
<1>4. CASE QueryDatabase(p)
  <2> DEFINE next == [j EXCEPT !.pc = "fill_l1", !.query = j.asked]
  <2>1. /\ job' = [job EXCEPT ![p] = next] /\ UNCHANGED <<l1, redis>>
        /\ j.pc = "query" /\ ~Invalidating(p)
    BY <1>4 DEF QueryDatabase, TypeOK, Invalidating
  <2>2. next.pc = "fill_l1" /\ next.age = Current
    BY <1>0, <2>1 DEF Job, JobOK
  <2> HIDE DEF next
  <2>3. FillsFresh' /\ RedisFresh' /\ PromotesFresh'
    BY <2>1, <2>2, FreshJob DEF Promotable
  <2> QED BY <2>1, <2>3, FreshSame DEF FreshInv
<1>5. CASE FillRedis(p)
  <2> DEFINE next == [j EXCEPT !.pc = "respond"]
             e == [query |-> j.query, age |-> j.age, left |-> L2TTL]
  <2>1. /\ redis' = [redis EXCEPT ![key] = e] /\ UNCHANGED l1
        /\ job' = [job EXCEPT ![p] = next] /\ j.pc = "fill_redis"
        /\ j.age = Current
    BY <1>0, <1>5 DEF FillRedis, Goto, TypeOK, Filling
  <2>2. next.pc = "respond"
    BY <1>0 DEF Job
  <2>3. job'[p].pc = "respond" /\ \A x \in Processes : x # p => job'[x] = job[x]
    BY <2>1, <2>2 DEF TypeOK
  <2>4. FillsFresh'
    BY <2>3 DEF FreshInv, FillsFresh, Filling
  <2>5. PromotesFresh'
    BY <2>3 DEF FreshInv, PromotesFresh, Promotable, AgeOf
  <2>6. RedisFresh'
    <3> SUFFICES ASSUME NEW k \in Keys, InRedis(redis'[k]), redis'[k].age # Current
                 PROVE  AwaitsDeletion(redis[k])'
      BY DEF RedisFresh, InRedis
    <3>1. redis'[k] = redis[k]
      BY <2>1 DEF TypeOK
    <3>2. PICK x \in Processes : Invalidating(x) /\ redis[k].age <= job[x].run
      BY <3>1 DEF FreshInv, RedisFresh, AwaitsDeletion
    <3>3. job'[x] = job[x]
      BY <2>1, <2>3, <3>2 DEF Invalidating
    <3> QED BY <3>1, <3>2, <3>3 DEF AwaitsDeletion, Invalidating
  <2> QED BY <2>1, <2>4, <2>5, <2>6, FreshSame DEF FreshInv
<1>6. CASE Respond(p) \/ RedisError(p)
  <2>1. job' = [job EXCEPT ![p] = Idle] /\ UNCHANGED <<l1, redis>> /\ ~Invalidating(p)
    BY <1>6 DEF Respond, RedisError, Finish, Invalidating
  <2>2. Idle.pc = "idle"
    BY DEF Idle
  <2>3. FillsFresh' /\ RedisFresh' /\ PromotesFresh'
    BY <2>1, <2>2, FreshJob DEF Promotable
  <2> QED BY <2>1, <2>3, FreshSame DEF FreshInv
<1> QED BY <1>1, <1>2, <1>3, <1>4, <1>5, <1>6

\* ... one for the writers ...
LEMMA OutdatedFields ==
    ASSUME NEW x, x \in Entry \/ x \in Job
    PROVE  /\ x \in Entry => Outdated(x).left = x.left
           /\ x \in Job => Outdated(x).pc = x.pc /\ Outdated(x).run = x.run
           /\ AgeOf(Outdated(x)) = AgeOf(x)
           /\ Outdated(x).age = x.age \/ (x.age = Current /\ Outdated(x).age = 0)
<1>1. CASE Outdated(x) = x
  BY <1>1
<1>2. CASE Outdated(x) = [x EXCEPT !.age = 0] /\ x.age = Current
  BY <1>2 DEF Entry, Job, AgeOf, Current
<1> QED BY <1>1, <1>2 DEF Outdated

LEMMA FreshCommand ==
    ASSUME TypeOK, FreshInv, NEW p \in Processes, Command(p), causes' = {}
    PROVE  FreshInv'
<1> DEFINE clear == [Idle EXCEPT !.pc = "clear"]
<1>1. /\ job[p].pc = "idle"
      /\ l1' = [x \in Processes |-> [k \in Keys |-> Outdated(l1[x][k])]]
      /\ redis' = [k \in Keys |-> Outdated(redis[k])]
      /\ job' = [x \in Processes |-> IF x = p THEN clear ELSE Outdated(job[x])]
      /\ \A x \in Processes : ~Filling(x)
  BY DEF Command, WriteBy
<1>2. clear.pc = "clear" /\ clear.run = 0
  BY DEF Idle
<1>3. \A x \in Processes : /\ job[x] \in Job
                           /\ x # p => job'[x] = Outdated(job[x])
                           /\ x = p => job'[x] = clear
  BY <1>1 DEF TypeOK
<1> HIDE DEF clear
<1>4. \A x \in Processes : x # p => /\ job'[x].pc = job[x].pc /\ job'[x].run = job[x].run
                                    /\ AgeOf(job[x])' = AgeOf(job[x])
  <2>1. ASSUME NEW x \in Processes, x # p
        PROVE  /\ job'[x].pc = job[x].pc /\ job'[x].run = job[x].run
               /\ AgeOf(job'[x]) = AgeOf(job[x])
    BY <1>3, <2>1, OutdatedFields
  <2> QED BY <2>1 DEF AgeOf
<1>5. FillsFresh'
  BY <1>1, <1>2, <1>3, <1>4 DEF FillsFresh, Filling
<1>6. PromotesFresh'
  BY <1>2, <1>3, <1>4 DEF FreshInv, PromotesFresh, Promotable
<1>7. RedisFresh'
  <2> SUFFICES ASSUME NEW k \in Keys, InRedis(redis'[k]), redis'[k].age # Current
               PROVE  AwaitsDeletion(redis[k])'
    BY DEF RedisFresh, InRedis
  <2>1. redis'[k] = Outdated(redis[k]) /\ redis[k] \in Entry
    BY <1>1 DEF TypeOK
  <2>2. /\ redis'[k].left = redis[k].left
        /\ redis'[k].age = redis[k].age \/ redis'[k].age = 0
    BY <2>1, OutdatedFields
  <2>3. CASE redis'[k].age = 0
    <3>1. Invalidating(p)' /\ redis'[k].age <= job'[p].run
      BY <1>2, <1>3, <2>3 DEF Invalidating
    <3> QED BY <3>1 DEF AwaitsDeletion
  <2>4. CASE redis'[k].age = redis[k].age
    <3>1. PICK x \in Processes : Invalidating(x) /\ redis[k].age <= job[x].run
      BY <2>2, <2>4 DEF FreshInv, RedisFresh, AwaitsDeletion, InRedis
    <3>2. x # p
      BY <1>1, <3>1 DEF Invalidating
    <3>3. Invalidating(x)' /\ redis'[k].age <= job'[x].run
      BY <1>4, <2>4, <3>1, <3>2 DEF Invalidating
    <3> QED BY <3>3 DEF AwaitsDeletion
  <2> QED BY <2>2, <2>3, <2>4
<1>8. L1Fresh'
  <2>1. ASSUME NEW x \in Processes, NEW k \in Keys PROVE Short(l1'[x][k])
    <3>1. l1'[x][k] = Outdated(l1[x][k]) /\ l1[x][k] \in Entry /\ Short(l1[x][k])
      BY <1>1 DEF TypeOK, FreshInv, L1Fresh
    <3>2. /\ l1'[x][k].left = l1[x][k].left
          /\ AgeOf(l1'[x][k]) = AgeOf(l1[x][k])
      BY <3>1, OutdatedFields
    <3> QED BY <3>1, <3>2 DEF Short, InL1
  <2> QED BY <2>1 DEF L1Fresh, Short, InL1, AgeOf
<1> QED BY <1>5, <1>6, <1>7, <1>8 DEF FreshInv

LEMMA FreshWriter ==
    ASSUME TypeOK, FreshInv, NEW p \in Processes, causes' = {},
           \/ Command(p) \/ WriteBook(p) \/ ClearL1(p) \/ DeletePattern(p)
           \/ ClearCache(p) \/ Flush(p) \/ Kill(p)
    PROVE  FreshInv'
<1>0. job[p] \in Job
  BY DEF TypeOK
<1>1. ~WriteBook(p)
  BY DEF WriteBook, WriteBy
<1>2. CASE ClearL1(p) \/ ClearCache(p)
  <2> DEFINE next == [job[p] EXCEPT !.pc = IF job[p].pc = "clear" THEN "delete" ELSE "flush"]
  <2>1. /\ job' = [job EXCEPT ![p] = next] /\ UNCHANGED redis
        /\ l1' = [l1 EXCEPT ![p] = [k \in Keys |-> Gone]]
        /\ job[p].pc \in {"clear", "idle"}
    BY <1>2 DEF ClearL1, ClearCache, Goto, TypeOK
  <2>2. /\ next.run = job[p].run /\ next.pc \in {"delete", "flush"}
        /\ job[p].pc = "clear" => next.pc = "delete"
    BY <1>0 DEF Job
  <2> HIDE DEF next
  <2>3. FillsFresh' /\ RedisFresh' /\ PromotesFresh'
    BY <2>1, <2>2, FreshJob DEF Promotable, Invalidating
  <2> QED BY <2>1, <2>3, FreshCleared DEF FreshInv
<1>3. CASE DeletePattern(p) \/ (Flush(p) /\ redis' = [k \in Keys |-> Gone])
  <2>1. redis' = [k \in Keys |-> Gone] /\ Finish(p) /\ UNCHANGED l1
    BY <1>3 DEF DeletePattern, Flush
  <2> QED BY <2>1, FreshEmptied, FreshSame DEF FreshInv
<1>4. CASE Kill(p) \/ (Flush(p) /\ UNCHANGED redis)
  <2>1. /\ job' = [job EXCEPT ![p] = Idle] /\ UNCHANGED redis /\ ~Invalidating(p)
        /\ Kill(p) \/ UNCHANGED l1
    BY <1>4 DEF Kill, Flush, Finish, Invalidating
  <2>2. Idle.pc = "idle"
    BY DEF Idle
  <2>3. FillsFresh' /\ RedisFresh' /\ PromotesFresh'
    BY <2>1, <2>2, FreshJob DEF Promotable
  <2> QED BY <2>1, <2>3, FreshSame, FreshCleared DEF FreshInv, Kill
<1>5. Flush(p) => redis' = [k \in Keys |-> Gone] \/ UNCHANGED redis
  BY DEF Flush
<1> QED BY <1>1, <1>2, <1>3, <1>4, <1>5, FreshCommand

\* ... and two for the environment.
LEMMA FreshEvict ==
    ASSUME TypeOK, FreshInv, NEW p \in Processes, NEW k \in Keys, Evict(p, k)
    PROVE  FreshInv'
<1>1. L1Fresh'
  <2>1. Short(Gone)
    BY DEF Short, InL1, Gone
  <2> QED BY <2>1, EmptyOK, FreshL1 DEF Evict
<1>2. FillsFresh' /\ RedisFresh' /\ PromotesFresh'
  BY DEF Evict, FreshInv, FillsFresh, RedisFresh, PromotesFresh, Promotable, AgeOf,
         InRedis, AwaitsDeletion, Invalidating, Filling
<1> QED BY <1>1, <1>2 DEF FreshInv

\* The age and the time left of an entry, a unit of time later.
LEMMA ExpiringFields ==
    ASSUME NEW e \in Entry
    PROVE  \/ Expiring(e) = Gone
           \/ /\ e.left > 0 /\ Expiring(e).left = e.left - 1
              /\ Expiring(e).age = IF e.age = Current THEN Current ELSE e.age + 1
              /\ AgeOf(Expiring(e)) + Expiring(e).left <= AgeOf(e) + e.left
<1>1. CASE ~(e.left > 0)
  BY <1>1 DEF Expiring
<1>2. CASE e.left > 0
  <2> DEFINE o == [Older(e) EXCEPT !.left = e.left - 1]
  <2>1. /\ Older(e) \in Entry /\ Older(e).left = e.left
        /\ Older(e).age = IF e.age = Current THEN Current ELSE e.age + 1
    BY DEF Older, Entry, Ages, Current
  <2>2. Expiring(e) = o /\ o.left = e.left - 1 /\ o.age = Older(e).age
    BY <1>2, <2>1 DEF Expiring, Entry
  <2>3. AgeOf(o) <= AgeOf(e) + 1 /\ AgeOf(o) \in Int /\ AgeOf(e) \in Int /\ e.left \in Int
    BY <2>1, <2>2 DEF AgeOf, Entry, Ages, Current
  <2> HIDE DEF o
  <2> QED BY <1>2, <2>1, <2>2, <2>3
<1> QED BY <1>1, <1>2 DEF Entry

LEMMA FreshTick ==
    ASSUME TypeOK, FreshInv, Tick
    PROVE  FreshInv'
<1>1. /\ l1' = [p \in Processes |-> [k \in Keys |-> Expiring(l1[p][k])]]
      /\ redis' = [k \in Keys |-> Expiring(redis[k])]
      /\ job' = [p \in Processes |-> IF job[p].pc = "idle" THEN job[p] ELSE Aged(job[p])]
  BY DEF Tick, Aged
<1>2. ASSUME NEW p \in Processes, job[p].pc # "idle"
      PROVE  /\ job'[p].pc = job[p].pc /\ job'[p].run = job[p].run + 1
             /\ job'[p].age = IF job[p].age = Current THEN Current ELSE job[p].age + 1
  <2>1. job'[p] = Aged(job[p]) /\ job[p] \in Job
    BY <1>1, <1>2 DEF TypeOK
  <2>2. PICK j \in Job : j = job[p]
    BY <2>1
  <2>3. /\ Older(j).pc = j.pc /\ Older(j).run = j.run
        /\ Older(j).age = IF j.age = Current THEN Current ELSE j.age + 1
        /\ Older(j) = [pc |-> Older(j).pc, asked |-> Older(j).asked, query |-> Older(j).query,
                       age |-> Older(j).age, run |-> Older(j).run]
    BY DEF Older, Job
  <2>4. /\ Aged(j).pc = j.pc /\ Aged(j).run = j.run + 1
        /\ Aged(j).age = IF j.age = Current THEN Current ELSE j.age + 1
    BY <2>3 DEF Aged
  <2> QED BY <2>1, <2>2, <2>4
<1>3. \A p \in Processes : job[p].pc = "idle" => job'[p] = job[p]
  BY <1>1
<1>4. \A p \in Processes : job'[p].pc = job[p].pc
  BY <1>2, <1>3
<1>5. FillsFresh'
  BY <1>2, <1>4 DEF FreshInv, FillsFresh, Filling
<1>6. PromotesFresh'
  <2> SUFFICES ASSUME NEW p \in Processes, job'[p].pc = "promote"
               PROVE  AgeOf(job[p])' <= MaxRequest + job'[p].run
    BY DEF PromotesFresh, Promotable
  <2>1. /\ AgeOf(job[p]) <= MaxRequest + job[p].run
        /\ job[p].run \in Nat /\ job[p].age \in Ages
    BY <1>4, TTLAssumption DEF FreshInv, PromotesFresh, Promotable, TypeOK, Job
  <2>2. /\ job'[p].run = job[p].run + 1
        /\ job'[p].age = IF job[p].age = Current THEN Current ELSE job[p].age + 1
    BY <1>2, <1>4
  <2> QED BY <2>1, <2>2, TTLAssumption DEF AgeOf, Ages, Current
<1>7. RedisFresh'
  <2> SUFFICES ASSUME NEW k \in Keys, InRedis(redis'[k]), redis'[k].age # Current
               PROVE  AwaitsDeletion(redis[k])'
    BY DEF RedisFresh, InRedis
  <2>1. redis'[k] = Expiring(redis[k]) /\ redis[k] \in Entry
    BY <1>1 DEF TypeOK
  <2>2. redis'[k] # Gone
    BY DEF InRedis, Gone
  <2>3. /\ redis[k].left > 0 /\ redis[k].age # Current
        /\ redis'[k].age = redis[k].age + 1 /\ redis[k].age \in Nat
    BY <2>1, <2>2, ExpiringFields DEF Entry, Ages
  <2>4. PICK x \in Processes : Invalidating(x) /\ redis[k].age <= job[x].run
    BY <2>3 DEF FreshInv, RedisFresh, AwaitsDeletion, InRedis
  <2>5. job'[x].run = job[x].run + 1 /\ job'[x].pc = job[x].pc /\ job[x].run \in Nat
    BY <1>2, <2>4, TTLAssumption DEF Invalidating, TypeOK, Job
  <2>6. Invalidating(x)' /\ redis'[k].age <= job'[x].run
    BY <2>3, <2>4, <2>5 DEF Invalidating
  <2> QED BY <2>6 DEF AwaitsDeletion
<1>8. L1Fresh'
  <2>1. ASSUME NEW x \in Processes, NEW k \in Keys PROVE Short(l1'[x][k])
    <3>1. PICK e \in Entry : e = l1[x][k]
      BY DEF TypeOK
    <3>2. l1'[x][k] = Expiring(e) /\ Short(e)
      BY <1>1, <3>1 DEF FreshInv, L1Fresh
    <3>3. CASE Expiring(e) = Gone
      BY <3>2, <3>3 DEF Short, InL1, Gone
    <3>4. CASE Expiring(e) # Gone
      <4>1. PICK o : o = Expiring(e)
        OBVIOUS
      <4>2. /\ e.left > 0 /\ o.left = e.left - 1
            /\ AgeOf(o) + o.left <= AgeOf(e) + e.left
            /\ o \in Entry
        BY <3>4, <4>1, ExpiringFields, ExpiringEntry
      <4>3. /\ AgeOf(o) \in Int /\ AgeOf(e) \in Int /\ o.left \in Int /\ e.left \in Int
        BY <4>2 DEF AgeOf, Entry, Ages, Current
      <4>4. InL1(e)
        BY <4>2, <4>3 DEF InL1
      <4>5. Short(o)
        BY <3>2, <4>2, <4>3, <4>4, TTLAssumption DEF Short
      <4> QED BY <3>2, <4>1, <4>5
    <3> QED BY <3>3, <3>4
  <2> QED BY <2>1 DEF L1Fresh, Short, InL1, AgeOf
<1> QED BY <1>5, <1>6, <1>7, <1>8 DEF FreshInv

\* What has happened is not forgotten.
LEMMA CausesGrow == ASSUME [Next]_vars PROVE causes \subseteq causes'
  BY DEF Next, Step, vars, List, LookupRedis, Promote, QueryDatabase, FillL1, FillRedis,
         Respond, RedisError, Command, WriteBook, WriteBy, ClearL1, DeletePattern,
         ClearCache, Flush, Kill, Evict, Tick

LEMMA FreshInit == Init => FreshInv
  BY DEF Init, FreshInv, FillsFresh, RedisFresh, PromotesFresh, L1Fresh, Promotable, Short,
         Filling, InRedis, InL1, Idle, Gone

LEMMA FreshNext ==
    ASSUME TypeOK, AgeInv, causes = {} => FreshInv, [Next]_vars
    PROVE  causes' = {} => FreshInv'
<1> SUFFICES ASSUME causes' = {} PROVE FreshInv'
  OBVIOUS
<1>1. FreshInv
  BY CausesGrow
<1>2. CASE UNCHANGED vars
  BY <1>1, <1>2, FreshSame
     DEF vars, FreshInv, FillsFresh, RedisFresh, PromotesFresh, Promotable, AgeOf,
         InRedis, AwaitsDeletion, Invalidating, Filling
<1>3. CASE Tick
  BY <1>1, <1>3, FreshTick
<1>4. ASSUME NEW p \in Processes, Step(p) PROVE FreshInv'
  BY <1>1, <1>4, FreshReader, FreshWriter, FreshEvict DEF Step
<1> QED BY <1>2, <1>3, <1>4 DEF Next

LEMMA StaysFresh == Spec => [](TypeOK /\ (causes = {} => FreshInv))
<1>1. Init => FreshInv
  BY FreshInit
<1>2. TypeOK /\ AgeInv /\ (causes = {} => FreshInv) /\ [Next]_vars =>
         (causes = {} => FreshInv)'
  BY FreshNext
<1> QED BY <1>1, <1>2, Invariants, PTL DEF Spec

\* Unless a fill overlapped a command, a route wrote a book without invalidating, Redis
\* failed or a process died, an old list is in Redis only while a command is running
\* that will delete it (caching.py:58-69, commands.py:56 and 136).
THEOREM RedisInvalidated == Spec => []RedisIsInvalidated
<1>1. TypeOK /\ (causes = {} => FreshInv) => RedisIsInvalidated
  BY DEF FreshInv, RedisFresh, AwaitsDeletion, RedisIsInvalidated
<1> QED BY <1>1, StaysFresh, PTL

\* Under the same conditions every L1 is rid of an old list one lifetime after the two
\* requests that can delay it (caching.py:33-39 and 64).
THEOREM OldListsDie == Spec => []OldListsExpire
<1>1. TypeOK /\ (causes = {} => FreshInv) => OldListsExpire
  <2> SUFFICES ASSUME TypeOK, FreshInv, NEW p \in Processes, NEW k \in Keys, InL1(l1[p][k])
               PROVE  \/ l1[p][k].age <= 2 * MaxRequest + DefaultTTL
                      \/ l1[p][k].age <= L1TTL
    BY DEF OldListsExpire
  <2>1. l1[p][k] \in Entry /\ Short(l1[p][k])
    BY DEF TypeOK, FreshInv, L1Fresh
  <2> QED BY <2>1, TTLAssumption DEF Short, InL1, AgeOf, Entry, Ages, Current
<1> QED BY <1>1, StaysFresh, PTL

=============================================================================
