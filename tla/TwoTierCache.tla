---------------------------- MODULE TwoTierCache ----------------------------
(***************************************************************************)
(* The cached book list: BookViewSet.list (apps/books/views.py) over the   *)
(* two tiers of core/caching.py, an LRU dictionary in the memory of each   *)
(* web process (L1) and Redis (L2), the writers that invalidate it, and    *)
(* the dashboard's clear_cache.                                            *)
(*                                                                         *)
(* A web process is a gunicorn worker of the default kind: it handles one  *)
(* request at a time, and is killed when a request takes longer than       *)
(* --timeout.  Processes interleave between any two calls of Redis or of   *)
(* the database.                                                           *)
(*                                                                         *)
(* Of a cached response the model keeps which request it answers and its   *)
(* age: how long ago the database ceased to say what the response says.    *)
(* Time is relative, so no clock and no version number grows, and the      *)
(* instance is finite without a bound.                                     *)
(***************************************************************************)
EXTENDS Integers

CONSTANTS
    Processes,
    Queries,       \* the query strings of GET /books/, as records
    L1TTL, L2TTL,  \* what list() passes to cache_set()
    DefaultTTL,    \* default_ttl of the L1 cache
    MaxRequest,    \* gunicorn's --timeout
    None

ASSUME TTLAssumption ==
    /\ {L1TTL, L2TTL, DefaultTTL} \subseteq Nat \ {0} /\ MaxRequest \in Nat
    /\ L1TTL <= L2TTL          \* 30 and 120 seconds, 60 and 300 in get_by_id()
    /\ None \notin Queries

VARIABLES
    l1,       \* process -> key -> entry
    redis,    \* key -> entry
    job,      \* process -> the request it is handling
    causes    \* what has happened that can leave an old response in Redis

vars == <<l1, redis, job, causes>>

\* make_cache_key("books", "list", genre, page, search)
KeyOf(q) == <<q.genre, q.page, q.search>>

Keys == {KeyOf(q) : q \in Queries}

Current == -1           \* the age of a response that is up to date

Ages == {Current} \cup Nat

\* An entry, with the time it has left.  An L1 entry is served up to and
\* including the instant its time ends, a Redis entry until just before.
Entry == [query : Queries \cup {None}, age : Ages, left : {-1} \cup Nat]

Gone == [query |-> None, age |-> Current, left |-> -1]

InL1(e)    == e.left >= 0
InRedis(e) == e.left > 0

PCs == {"idle", "redis", "promote", "query", "fill_l1", "fill_redis", "respond",
        "clear", "delete", "flush"}

Job == [pc : PCs, asked : Queries \cup {None}, query : Queries \cup {None},
        age : Ages, run : 0 .. MaxRequest]

Idle == [pc |-> "idle", asked |-> None, query |-> None, age |-> Current, run |-> 0]

\* A write to the database puts what was up to date out of date ...
Outdated(x) == IF x.query # None /\ x.age = Current THEN [x EXCEPT !.age = 0] ELSE x

\* ... and time passes.
Older(x) == IF x.age = Current THEN x ELSE [x EXCEPT !.age = @ + 1]

Expiring(e) == IF e.left > 0 THEN [Older(e) EXCEPT !.left = @ - 1] ELSE Gone

Filling(p) == job[p].pc \in {"fill_l1", "fill_redis"}

Invalidating(p) == job[p].pc \in {"clear", "delete"}

Goto(p, pc) == job' = [job EXCEPT ![p].pc = pc]

Finish(p) == job' = [job EXCEPT ![p] = Idle]

\* LRUCache.put() in process p, of the response that it holds.
PutL1(p, ttl) ==
    l1' = [l1 EXCEPT ![p][KeyOf(job[p].asked)] =
             [query |-> job[p].query, age |-> job[p].age, left |-> ttl]]

-----------------------------------------------------------------------------
(***************************************************************************)
(* GET /books/.                                                            *)
(***************************************************************************)

\* cache_get(): L1 first.
List(p, q) ==
    /\ job[p].pc = "idle"
    /\ LET e == l1[p][KeyOf(q)]
           next == IF InL1(e)
                     THEN [pc |-> "respond", asked |-> q, query |-> e.query,
                           age |-> e.age, run |-> 0]
                     ELSE [Idle EXCEPT !.pc = "redis", !.asked = q]
       IN  job' = [job EXCEPT ![p] = next]
    /\ UNCHANGED <<l1, redis, causes>>

\* cache_get(): then Redis.
LookupRedis(p) ==
    /\ job[p].pc = "redis"
    /\ LET e == redis[KeyOf(job[p].asked)]
       IN  IF InRedis(e)
             THEN job' = [job EXCEPT ![p].pc = "promote", ![p].query = e.query,
                                     ![p].age = e.age]
             ELSE Goto(p, "query")
    /\ UNCHANGED <<l1, redis, causes>>

\* MUTANT: a Redis hit is stored in both tiers again.
PromoteBoth(p) ==
    /\ job[p].pc = "promote"
    /\ PutL1(p, DefaultTTL)
    /\ redis' = [redis EXCEPT ![KeyOf(job[p].asked)].left = L2TTL,
                             ![KeyOf(job[p].asked)].query = job[p].query,
                             ![KeyOf(job[p].asked)].age = job[p].age]
    /\ Goto(p, "respond")
    /\ UNCHANGED causes

\* MUTANT: a Redis hit goes to L1 with the TTL of Redis.
PromoteLong(p) ==
    /\ job[p].pc = "promote"
    /\ PutL1(p, L2TTL)
    /\ Goto(p, "respond")
    /\ UNCHANGED <<redis, causes>>

\* A Redis hit goes to L1, with the default TTL of L1.
Promote(p) ==
    /\ job[p].pc = "promote"
    /\ PutL1(p, DefaultTTL)
    /\ Goto(p, "respond")
    /\ UNCHANGED <<redis, causes>>

\* super().list() reads the database.
QueryDatabase(p) ==
    /\ job[p].pc = "query"
    /\ job' = [job EXCEPT ![p].pc = "fill_l1", ![p].query = job[p].asked]
    /\ UNCHANGED <<l1, redis, causes>>

\* cache_set(): L1, then Redis.
FillL1(p) ==
    /\ job[p].pc = "fill_l1"
    /\ PutL1(p, L1TTL)
    /\ Goto(p, "fill_redis")
    /\ UNCHANGED <<redis, causes>>

FillRedis(p) ==
    /\ job[p].pc = "fill_redis"
    /\ redis' = [redis EXCEPT ![KeyOf(job[p].asked)] =
                   [query |-> job[p].query, age |-> job[p].age, left |-> L2TTL]]
    /\ Goto(p, "respond")
    /\ UNCHANGED <<l1, causes>>

Respond(p) ==
    /\ job[p].pc = "respond"
    /\ Finish(p)
    /\ UNCHANGED <<l1, redis, causes>>

\* Redis raises: cache_get() and cache_set() do not catch it.
RedisError(p) ==
    /\ job[p].pc \in {"redis", "fill_redis"}
    /\ Finish(p)
    /\ UNCHANGED <<l1, redis, causes>>

-----------------------------------------------------------------------------
(***************************************************************************)
(* Writers.                                                                *)
(***************************************************************************)

\* The database changes: every response there is says what used to be so.
WriteBy(p, next, cause) ==
    /\ job[p].pc = "idle"
    /\ l1' = [x \in Processes |-> [k \in Keys |-> Outdated(l1[x][k])]]
    /\ redis' = [k \in Keys |-> Outdated(redis[k])]
    /\ job' = [x \in Processes |-> IF x = p THEN next ELSE Outdated(job[x])]
    /\ causes' = causes \cup cause

\* Reserve, return and rating change a book, then call
\* cache_invalidate_pattern("books").
Command(p) ==
    WriteBy(p, [Idle EXCEPT !.pc = "clear"],
            IF \E x \in Processes : Filling(x) THEN {"race"} ELSE {})

\* POST, PATCH and DELETE of a book invalidate nothing.
WriteBook(p) == WriteBy(p, Idle, {"uninvalidated"})

\* cache_invalidate_pattern(): the L1 of this process ...
ClearL1(p) ==
    /\ job[p].pc = "clear"
    /\ l1' = [l1 EXCEPT ![p] = [k \in Keys |-> Gone]]
    /\ Goto(p, "delete")
    /\ UNCHANGED <<redis, causes>>

\* MUTANT: the pattern matches no key.
DeleteNothing(p) ==
    /\ job[p].pc = "delete"
    /\ Finish(p)
    /\ UNCHANGED <<l1, redis, causes>>

\* ... and Redis, whose errors are swallowed.
DeletePattern(p) ==
    /\ job[p].pc = "delete"
    /\ \/ redis' = [k \in Keys |-> Gone] /\ UNCHANGED causes
       \/ causes' = causes \cup {"redis"} /\ UNCHANGED redis
    /\ Finish(p)
    /\ UNCHANGED l1

\* POST of clear_cache in apps/dashboard/views.py: the L1 of the process that gets it ...
ClearCache(p) ==
    /\ job[p].pc = "idle"
    /\ l1' = [l1 EXCEPT ![p] = [k \in Keys |-> Gone]]
    /\ Goto(p, "flush")
    /\ UNCHANGED <<redis, causes>>

\* ... and all of Redis, whose errors are swallowed.
Flush(p) ==
    /\ job[p].pc = "flush"
    /\ redis' = [k \in Keys |-> Gone] \/ UNCHANGED redis
    /\ Finish(p)
    /\ UNCHANGED <<l1, causes>>

-----------------------------------------------------------------------------
(***************************************************************************)
(* The environment.                                                        *)
(***************************************************************************)

\* A process dies, or gunicorn kills it after --timeout, and gunicorn starts another with an empty L1.
Kill(p) ==
    /\ Finish(p)
    /\ l1' = [l1 EXCEPT ![p] = [k \in Keys |-> Gone]]
    /\ causes' = causes \cup IF Invalidating(p) THEN {"crash"} ELSE {}
    /\ UNCHANGED redis

\* L1 is at its capacity and needs the room.
Evict(p, k) ==
    /\ InL1(l1[p][k])
    /\ l1' = [l1 EXCEPT ![p][k] = Gone]
    /\ UNCHANGED <<redis, job, causes>>

\* MUTANT: no worker timeout.
TickOn ==
    /\ l1' = [p \in Processes |-> [k \in Keys |-> Expiring(l1[p][k])]]
    /\ redis' = [k \in Keys |-> Expiring(redis[k])]
    /\ job' = [p \in Processes |->
                 IF job[p].pc = "idle" THEN job[p]
                 ELSE [Older(job[p]) EXCEPT !.run = @ + 1]]
    /\ UNCHANGED causes

\* No request runs longer than MaxRequest: Respond, an error or Kill comes first.
Tick ==
    /\ \A p \in Processes : job[p].pc # "idle" => job[p].run < MaxRequest
    /\ l1' = [p \in Processes |-> [k \in Keys |-> Expiring(l1[p][k])]]
    /\ redis' = [k \in Keys |-> Expiring(redis[k])]
    /\ job' = [p \in Processes |->
                 IF job[p].pc = "idle" THEN job[p]
                 ELSE [Older(job[p]) EXCEPT !.run = @ + 1]]
    /\ UNCHANGED causes

Init ==
    /\ l1 = [p \in Processes |-> [k \in Keys |-> Gone]]
    /\ redis = [k \in Keys |-> Gone]
    /\ job = [p \in Processes |-> Idle]
    /\ causes = {}

Step(p) ==
    \/ \E q \in Queries : List(p, q)
    \/ LookupRedis(p) \/ Promote(p) \/ QueryDatabase(p) \/ FillL1(p) \/ FillRedis(p)
    \/ Respond(p) \/ RedisError(p)
    \/ Command(p) \/ WriteBook(p) \/ ClearL1(p) \/ DeletePattern(p)
    \/ ClearCache(p) \/ Flush(p)
    \/ Kill(p)
    \/ \E k \in Keys : Evict(p, k)

Next == (\E p \in Processes : Step(p)) \/ Tick

Spec == Init /\ [][Next]_vars

-----------------------------------------------------------------------------
(***************************************************************************)
(* Properties.                                                             *)
(***************************************************************************)

\* Every variable has its type.
TypeOK ==
    /\ l1 \in [Processes -> [Keys -> Entry]]
    /\ redis \in [Keys -> Entry]
    /\ job \in [Processes -> Job]
    /\ causes \subseteq {"race", "uninvalidated", "redis", "crash"}

\* How long a list can have been wrong when it is sent, whatever fails: a fill
\* that hangs, a life in Redis, a promotion that hangs, a life in L1, a response
\* that hangs (caching.py:23-49, views.py:46-53).
StalenessBounded ==
    \A p \in Processes :
        job[p].pc = "respond" => job[p].age < 3 * MaxRequest + L2TTL + DefaultTTL

\* An old list stays in Redis only while the command that changed the book has
\* its invalidation still to do, unless a fill overlapped a command, a
\* book was written by a route that does not invalidate, Redis failed, or
\* the process died (caching.py:58-69).
RedisIsInvalidated ==
    causes = {} =>
        \A k \in Keys : InRedis(redis[k]) /\ redis[k].age # Current =>
            \E p \in Processes : Invalidating(p)

\* If none of that has happened, an old list lives in the L1 of the other
\* processes, and no longer than one L1 lifetime after the two requests that
\* can delay it, the command and a promotion (caching.py:33-39 and 64).
OldListsExpire ==
    causes = {} =>
        \A p \in Processes, k \in Keys :
            InL1(l1[p][k]) =>
                \/ l1[p][k].age <= 2 * MaxRequest + DefaultTTL
                \/ l1[p][k].age <= L1TTL

=============================================================================
