------------------------------ MODULE LRUCache ------------------------------
(***************************************************************************)
(* core/cache.py: a dictionary of nodes that are linked in a list between  *)
(* two sentinels, the most recently used node at the head.  Every method   *)
(* runs under the cache's lock and is one step; put() reads the clock      *)
(* before it takes the lock, so it is two.                                 *)
(*                                                                         *)
(* An expiry date is the time left until then, -1 once it has passed.  A   *)
(* node that is no longer in the dictionary is garbage and is blank again. *)
(***************************************************************************)
EXTENDS Integers, FiniteSets

CONSTANTS
    Keys, Values,
    Threads,
    Capacity,
    TTLs,             \* times to live of put(); None is "never"
    Nodes,            \* memory: one node more than the capacity is enough
    Head, Tail,       \* the sentinels
    None

ASSUME CacheAssumption ==
    /\ Capacity \in Nat \ {0}
    /\ TTLs \subseteq Nat \cup {None}
    /\ IsFiniteSet(Nodes) /\ Cardinality(Nodes) > Capacity
    /\ Head \notin Nodes /\ Tail \notin Nodes /\ Head # Tail
    /\ None \notin Keys \cup Values \cup Nodes \cup {Head, Tail} \cup Int

VARIABLES
    dict,     \* _cache: key -> node
    heap,     \* what each node holds
    answer,   \* what the last method returned
    putting   \* thread -> the arguments of a put() that waits for the lock

vars == <<dict, heap, answer, putting>>

Lifetime == {None} \cup (-1 .. 0) \cup Nat

Node == [key : Keys \cup {None}, value : Values \cup {None}, left : Lifetime,
         prev : Nodes \cup {Head, Tail, None}, next : Nodes \cup {Head, Tail, None}]

Blank == [key |-> None, value |-> None, left |-> None, prev |-> None, next |-> None]

Used == {dict[k] : k \in DOMAIN dict}

Expired(n) == heap[n].left = -1

-----------------------------------------------------------------------------
(***************************************************************************)
(* The private methods, as functions of the heap.                          *)
(***************************************************************************)

\* MUTANT: the link back is not repaired.
RemoveForward(h, n) == [h EXCEPT ![h[n].prev].next = h[n].next]

\* _remove_node()
RemoveNode(h, n) ==
    LET unlinked == [h EXCEPT ![h[n].prev].next = h[n].next]
    IN  [unlinked EXCEPT ![h[n].next].prev = h[n].prev]

\* _add_to_head()
AddToHead(h, n) ==
    LET first  == h[Head].next
        node   == [h EXCEPT ![n].prev = Head, ![n].next = first]
        linked == [node EXCEPT ![first].prev = n]
    IN  [linked EXCEPT ![Head].next = n]

\* MUTANT: an access leaves the node where it is.
StayPut(h, n) == h

\* _move_to_head()
MoveToHead(h, n) == AddToHead(RemoveNode(h, n), n)

\* A node that nothing refers to any more.
Free(h, n) == [h EXCEPT ![n] = Blank]

Forget(key) == [k \in DOMAIN dict \ {key} |-> dict[k]]

-----------------------------------------------------------------------------
(***************************************************************************)
(* The methods.                                                            *)
(***************************************************************************)

\* get()
Get(key) ==
    /\ \/ /\ key \notin DOMAIN dict
          /\ answer' = None
          /\ UNCHANGED <<dict, heap>>
       \/ /\ key \in DOMAIN dict /\ Expired(dict[key])
          /\ heap' = Free(RemoveNode(heap, dict[key]), dict[key])
          /\ dict' = Forget(key)
          /\ answer' = None
       \/ /\ key \in DOMAIN dict /\ ~Expired(dict[key])
          /\ heap' = MoveToHead(heap, dict[key])
          /\ answer' = heap[dict[key]].value
          /\ UNCHANGED dict
    /\ UNCHANGED putting

\* put() until it has computed expires_at.
CallPut(t, key, value, ttl) ==
    /\ putting[t] = None
    /\ putting' = [putting EXCEPT ![t] = [key |-> key, value |-> value, left |-> ttl]]
    /\ UNCHANGED <<dict, heap, answer>>

\* MUTANT: the evicted node stays in the dictionary.
EvictLeaking(h, d) ==
    heap' = RemoveNode(h, h[Tail].prev) /\ dict' = d

\* _evict_tail(), and the key of the node it returns goes too.
EvictTail(h, d) ==
    LET last == h[Tail].prev
    IN  IF last = Head
          THEN heap' = h /\ dict' = d
          ELSE /\ heap' = Free(RemoveNode(h, last), last)
               /\ dict' = [k \in DOMAIN d \ {h[last].key} |-> d[k]]

\* The rest of put() for a key that is not in the dictionary ...
Insert(p) ==
    LET node   == CHOOSE n \in Nodes : n \notin Used
        filled == [heap EXCEPT ![node].key = p.key, ![node].value = p.value,
                               ![node].left = p.left]
        added  == AddToHead(filled, node)
        all    == [k \in DOMAIN dict \cup {p.key} |-> IF k = p.key THEN node ELSE dict[k]]
    IN  IF Cardinality(DOMAIN all) > Capacity
          THEN EvictTail(added, all)
          ELSE heap' = added /\ dict' = all

\* ... and for one that is.
Update(p) ==
    LET node   == dict[p.key]
        filled == [heap EXCEPT ![node].value = p.value, ![node].left = p.left]
    IN  heap' = MoveToHead(filled, node) /\ UNCHANGED dict

\* put() under the lock.
Put(t) ==
    /\ putting[t] # None
    /\ IF putting[t].key \in DOMAIN dict THEN Update(putting[t]) ELSE Insert(putting[t])
    /\ putting' = [putting EXCEPT ![t] = None]
    /\ answer' = None

\* delete()
Delete(key) ==
    /\ \/ /\ key \notin DOMAIN dict
          /\ answer' = FALSE
          /\ UNCHANGED <<dict, heap>>
       \/ /\ key \in DOMAIN dict
          /\ heap' = Free(RemoveNode(heap, dict[key]), dict[key])
          /\ dict' = Forget(key)
          /\ answer' = TRUE
    /\ UNCHANGED putting

Empty == [n \in Nodes \cup {Head, Tail} |->
            CASE n = Head -> [Blank EXCEPT !.next = Tail]
              [] n = Tail -> [Blank EXCEPT !.prev = Head]
              [] OTHER    -> Blank]

\* clear()
Clear ==
    /\ dict' = [k \in {} |-> None]
    /\ heap' = Empty
    /\ answer' = None
    /\ UNCHANGED putting

Later(x) == IF x.left \in {None, -1} THEN x ELSE [x EXCEPT !.left = @ - 1]

Tick ==
    /\ heap' = [n \in DOMAIN heap |-> Later(heap[n])]
    /\ putting' = [t \in Threads |-> IF putting[t] = None THEN None ELSE Later(putting[t])]
    /\ UNCHANGED <<dict, answer>>

Init ==
    /\ dict = [k \in {} |-> None]
    /\ heap = Empty
    /\ answer = None
    /\ putting = [t \in Threads |-> None]

Next ==
    \/ \E key \in Keys : Get(key) \/ Delete(key)
    \/ \E t \in Threads :
         \/ \E key \in Keys, value \in Values, ttl \in TTLs : CallPut(t, key, value, ttl)
         \/ Put(t)
    \/ Clear \/ Tick

Spec == Init /\ [][Next]_vars

-----------------------------------------------------------------------------
(***************************************************************************)
(* Properties.                                                             *)
(***************************************************************************)

\* Every variable has its type; the dictionary never outgrows the capacity, and
\* refers to the node that holds its key.
TypeOK ==
    /\ DOMAIN dict \subseteq Keys /\ dict \in [DOMAIN dict -> Nodes]
    /\ Cardinality(DOMAIN dict) <= Capacity
    /\ \A k \in DOMAIN dict : heap[dict[k]].key = k
    /\ heap \in [Nodes \cup {Head, Tail} -> Node]
    /\ answer \in Values \cup {None} \cup BOOLEAN
    /\ putting \in [Threads -> {None} \cup [key : Keys, value : Values, left : Lifetime]]

\* Every node of the dictionary and both sentinels are linked both ways, and to one
\* another only (cache.py:43-66).
WellLinked ==
    LET inner == Used \cup {Head}
    IN  /\ \A n \in inner : heap[n].next \in Used \cup {Tail} /\ heap[heap[n].next].prev = n
        /\ \A n \in Used \cup {Tail} :
             heap[n].prev \in inner /\ heap[heap[n].prev].next = n

=============================================================================
