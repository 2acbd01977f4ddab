--------------------------- MODULE LRUCacheProofs ---------------------------
(***************************************************************************)
(* The list of the LRU cache is never torn, and read from head to tail it  *)
(* is the list of RecencyCache, for any capacity, any keys and any number  *)
(* of threads that are between the two steps of put().  The lemmas are     *)
(* about the private methods and any list of nodes.                        *)
(***************************************************************************)
EXTENDS LRURecency, FiniteSetTheorems, TLAPS

USE CacheAssumption

Places == Nodes \cup {Head, Tail}

\* The nodes of U, and no others, are linked both ways between the sentinels.
Linked(U, h) ==
    /\ \A n \in U \cup {Head} : h[n].next \in U \cup {Tail} /\ h[h[n].next].prev = n
    /\ \A n \in U \cup {Tail} : h[n].prev \in U \cup {Head} /\ h[h[n].prev].next = n

\* What two heaps have in common when only links differ.
SameContents(h, g) ==
    \A n \in Places : g[n].key = h[n].key /\ g[n].value = h[n].value /\ g[n].left = h[n].left

SameLinks(U, h, g) ==
    \A n \in U \cup {Head, Tail} : g[n].prev = h[n].prev /\ g[n].next = h[n].next

\* Whatever else changes in the heap, the list is the same when its links are.
LEMMA LinksMatter ==
    ASSUME NEW U, NEW h, NEW g, Linked(U, h), SameLinks(U, h, g)
    PROVE  Linked(U, g)
  BY DEF Linked, SameLinks

\* _remove_node(), link by link.
LEMMA UnlinkByLink ==
    ASSUME NEW h \in [Places -> Node], NEW n \in Places,
           h[n].prev \in Places, h[n].next \in Places, h[n].prev # n
    PROVE  LET g == RemoveNode(h, n)
           IN  /\ g \in [Places -> Node] /\ SameContents(h, g)
               /\ \A x \in Places :
                    /\ g[x].next = IF x = h[n].prev THEN h[n].next ELSE h[x].next
                    /\ g[x].prev = IF x = h[n].next THEN h[n].prev ELSE h[x].prev
<1> DEFINE p == h[n].prev
           q == h[n].next
           u == [h EXCEPT ![p].next = q]
           g == [u EXCEPT ![q].prev = p]
<1>1. /\ u \in [Places -> Node]
      /\ \A x \in Places : u[x] = IF x = p THEN [h[x] EXCEPT !.next = q] ELSE h[x]
  BY DEF Places, Node
<1> HIDE DEF u
<1>2. /\ g \in [Places -> Node]
      /\ \A x \in Places : g[x] = IF x = q THEN [u[x] EXCEPT !.prev = p] ELSE u[x]
  BY <1>1 DEF Places, Node
<1> HIDE DEF g
<1>3. \A x \in Places :
        /\ g[x].key = h[x].key /\ g[x].value = h[x].value /\ g[x].left = h[x].left
        /\ g[x].next = IF x = p THEN q ELSE h[x].next
        /\ g[x].prev = IF x = q THEN p ELSE h[x].prev
  BY <1>1, <1>2 DEF Node
<1>4. RemoveNode(h, n) = g
  <2>1. u[n] = h[n]
    BY <1>1
  <2> QED
    BY <2>1 DEF RemoveNode, u, g
<1> QED
  BY <1>2, <1>3, <1>4 DEF SameContents

\* _remove_node() takes a node out of the list and changes links only.
LEMMA Unlinks ==
    ASSUME NEW U \in SUBSET Nodes, NEW h \in [Places -> Node], Linked(U, h), NEW n \in U
    PROVE  /\ RemoveNode(h, n) \in [Places -> Node]
           /\ SameContents(h, RemoveNode(h, n))
           /\ Linked(U \ {n}, RemoveNode(h, n))
<1> DEFINE p == h[n].prev
           q == h[n].next
           g == RemoveNode(h, n)
<1>1. /\ p \in U \cup {Head} /\ q \in U \cup {Tail} /\ p \in Places /\ q \in Places
      /\ h[p].next = n /\ h[q].prev = n /\ n \in Places
  BY DEF Linked, Places
<1>2. CASE p = n
  <2>1. q = n
    BY <1>1, <1>2
  <2>2. g = [h EXCEPT ![n].next = n, ![n].prev = n]
    BY <1>1, <1>2, <2>1 DEF RemoveNode, Node
  <2> QED
    BY <1>1, <1>2, <2>1, <2>2 DEF Linked, SameContents, Places, Node
<1>3. CASE p # n
  <2>1. /\ g \in [Places -> Node] /\ SameContents(h, g)
        /\ \A x \in Places : /\ g[x].next = IF x = p THEN q ELSE h[x].next
                             /\ g[x].prev = IF x = q THEN p ELSE h[x].prev
    BY <1>1, <1>3, UnlinkByLink
  <2> HIDE DEF g
  <2>2. ASSUME NEW x \in (U \ {n}) \cup {Head}
        PROVE  g[x].next \in (U \ {n}) \cup {Tail} /\ g[g[x].next].prev = x
    BY <1>1, <2>1, <2>2 DEF Linked, Places
  <2>3. ASSUME NEW x \in (U \ {n}) \cup {Tail}
        PROVE  g[x].prev \in (U \ {n}) \cup {Head} /\ g[g[x].prev].next = x
    BY <1>1, <2>1, <2>3 DEF Linked, Places
  <2> QED
    BY <2>1, <2>2, <2>3 DEF Linked, g
<1> QED
  BY <1>2, <1>3

\* _add_to_head(), link by link.
LEMMA LinkByLink ==
    ASSUME NEW h \in [Places -> Node], NEW n \in Nodes, h[Head].next \in Places
    PROVE  LET g == AddToHead(h, n)
               first == h[Head].next
           IN  /\ g \in [Places -> Node] /\ SameContents(h, g)
               /\ \A x \in Places :
                    /\ g[x].next = IF x = Head THEN n ELSE IF x = n THEN first ELSE h[x].next
                    /\ g[x].prev = IF x = first THEN n ELSE IF x = n THEN Head ELSE h[x].prev
<1> DEFINE first == h[Head].next
           back == [h EXCEPT ![n].prev = Head]
           a == [back EXCEPT ![n].next = first]
           b == [a EXCEPT ![first].prev = n]
           g == [b EXCEPT ![Head].next = n]
<1>1. first \in Places /\ Head \in Places /\ n \in Places
  BY DEF Places
<1>2. /\ back \in [Places -> Node]
      /\ \A x \in Places : back[x] = IF x = n THEN [h[x] EXCEPT !.prev = Head] ELSE h[x]
  BY <1>1 DEF Places, Node
<1> HIDE DEF back
<1>3. /\ a \in [Places -> Node]
      /\ \A x \in Places : a[x] = IF x = n THEN [back[x] EXCEPT !.next = first] ELSE back[x]
  BY <1>1, <1>2 DEF Places, Node
<1> HIDE DEF a
<1>4. /\ b \in [Places -> Node]
      /\ \A x \in Places : b[x] = IF x = first THEN [a[x] EXCEPT !.prev = n] ELSE a[x]
  BY <1>1, <1>3 DEF Places, Node
<1> HIDE DEF b
<1>5. /\ g \in [Places -> Node]
      /\ \A x \in Places : g[x] = IF x = Head THEN [b[x] EXCEPT !.next = n] ELSE b[x]
  BY <1>1, <1>4 DEF Places, Node
<1> HIDE DEF g
<1> HIDE DEF first
<1>6. ASSUME NEW x \in Places
      PROVE  /\ g[x].key = h[x].key /\ g[x].value = h[x].value /\ g[x].left = h[x].left
             /\ g[x].next = IF x = Head THEN n ELSE IF x = n THEN first ELSE h[x].next
             /\ g[x].prev = IF x = first THEN n ELSE IF x = n THEN Head ELSE h[x].prev
  <2>1. h[x] \in Node /\ back[x] \in Node /\ a[x] \in Node /\ b[x] \in Node
    BY <1>2, <1>3, <1>4
  <2>2. /\ back[x].key = h[x].key /\ back[x].value = h[x].value /\ back[x].left = h[x].left
        /\ back[x].next = h[x].next /\ back[x].prev = IF x = n THEN Head ELSE h[x].prev
    BY <1>2, <2>1 DEF Node
  <2>3. /\ a[x].key = back[x].key /\ a[x].value = back[x].value /\ a[x].left = back[x].left
        /\ a[x].next = (IF x = n THEN first ELSE back[x].next) /\ a[x].prev = back[x].prev
    BY <1>3, <2>1 DEF Node
  <2>4. /\ b[x].key = a[x].key /\ b[x].value = a[x].value /\ b[x].left = a[x].left
        /\ b[x].next = a[x].next /\ b[x].prev = IF x = first THEN n ELSE a[x].prev
    BY <1>4, <2>1 DEF Node
  <2>5. /\ g[x].key = b[x].key /\ g[x].value = b[x].value /\ g[x].left = b[x].left
        /\ g[x].next = (IF x = Head THEN n ELSE b[x].next) /\ g[x].prev = b[x].prev
    BY <1>5, <2>1 DEF Node
  <2> QED
    BY <2>2, <2>3, <2>4, <2>5
<1>7. AddToHead(h, n) = g
  BY DEF AddToHead, first, back, a, b, g
<1> QED
  BY <1>5, <1>6, <1>7 DEF SameContents, first

\* _add_to_head() puts a node that is not in the list at its head.
LEMMA Links ==
    ASSUME NEW U \in SUBSET Nodes, NEW h \in [Places -> Node], Linked(U, h), NEW n \in Nodes \ U
    PROVE  /\ AddToHead(h, n) \in [Places -> Node]
           /\ SameContents(h, AddToHead(h, n))
           /\ Linked(U \cup {n}, AddToHead(h, n))
<1> DEFINE first == h[Head].next
           g == AddToHead(h, n)
<1>1. first \in U \cup {Tail} /\ first \in Places /\ Head \in Places /\ n \in Places
  BY DEF Linked, Places
<1>2. /\ g \in [Places -> Node] /\ SameContents(h, g)
      /\ \A x \in Places :
           /\ g[x].next = IF x = Head THEN n ELSE IF x = n THEN first ELSE h[x].next
           /\ g[x].prev = IF x = first THEN n ELSE IF x = n THEN Head ELSE h[x].prev
  BY <1>1, LinkByLink
<1> HIDE DEF g
<1>3. ASSUME NEW x \in U \cup {n, Head}
      PROVE  g[x].next \in U \cup {n, Tail} /\ g[g[x].next].prev = x
  BY <1>1, <1>2, <1>3 DEF Linked, Places
<1>4. ASSUME NEW x \in U \cup {n, Tail}
      PROVE  g[x].prev \in U \cup {n, Head} /\ g[g[x].prev].next = x
  BY <1>1, <1>2, <1>4 DEF Linked, Places
<1>5. Linked(U \cup {n}, g)
  BY <1>3, <1>4 DEF Linked
<1> QED
  BY <1>2, <1>5 DEF g

\* _move_to_head() changes the order of the list only.
LEMMA Moves ==
    ASSUME NEW U \in SUBSET Nodes, NEW h \in [Places -> Node], Linked(U, h), NEW n \in U
    PROVE  /\ MoveToHead(h, n) \in [Places -> Node]
           /\ SameContents(h, MoveToHead(h, n))
           /\ Linked(U, MoveToHead(h, n))
<1> DEFINE g == RemoveNode(h, n)
<1>1. g \in [Places -> Node] /\ SameContents(h, g) /\ Linked(U \ {n}, g)
  BY Unlinks
<1>2. n \in Nodes \ (U \ {n}) /\ U \ {n} \in SUBSET Nodes /\ (U \ {n}) \cup {n} = U
  OBVIOUS
<1> HIDE DEF g
<1>3. /\ AddToHead(g, n) \in [Places -> Node] /\ SameContents(g, AddToHead(g, n))
      /\ Linked(U, AddToHead(g, n))
  BY <1>1, <1>2, Links
<1> QED
  BY <1>1, <1>3 DEF MoveToHead, g, SameContents

\* A node outside the list can be freed.
LEMMA Frees ==
    ASSUME NEW U \in SUBSET Nodes, NEW h \in [Places -> Node], Linked(U, h), NEW n \in Nodes \ U
    PROVE  /\ Free(h, n) \in [Places -> Node] /\ Linked(U, Free(h, n))
           /\ \A x \in Places \ {n} : Free(h, n)[x] = h[x]
<1>1. Blank \in Node
  BY DEF Blank, Node, Lifetime
<1>2. Free(h, n) \in [Places -> Node] /\ \A x \in Places \ {n} : Free(h, n)[x] = h[x]
  BY <1>1 DEF Free, Places
<1> QED
  BY <1>2, LinksMatter DEF SameLinks, Places

-----------------------------------------------------------------------------
\* A dictionary refers to the node that holds its key.
Dictionary(d, h) ==
    /\ d \in [DOMAIN d -> Nodes] /\ DOMAIN d \subseteq Keys /\ IsFiniteSet(DOMAIN d)
    /\ \A k \in DOMAIN d : h[d[k]].key = k

NodesOf(d) == {d[k] : k \in DOMAIN d}

\* Dictionary and list, together and with the types of the heap.
Consistent(d, h) == Dictionary(d, h) /\ h \in [Places -> Node] /\ Linked(NodesOf(d), h)

Less(d, key) == [k \in DOMAIN d \ {key} |-> d[k]]

\* To take a key and its node away is one entry less, and the others stay linked.
LEMMA Takes ==
    ASSUME NEW d, NEW h, Consistent(d, h), NEW key \in DOMAIN d
    PROVE  LET e == Less(d, key)
           IN  /\ Consistent(e, Free(RemoveNode(h, d[key]), d[key]))
               /\ DOMAIN e \subseteq DOMAIN d
               /\ Cardinality(DOMAIN e) \in Nat
               /\ Cardinality(DOMAIN e) = Cardinality(DOMAIN d) - 1
<1> DEFINE e == [k \in DOMAIN d \ {key} |-> d[k]]
           n == d[key]
           u == RemoveNode(h, n)
           g == Free(u, n)
<1>1. NodesOf(d) \in SUBSET Nodes /\ n \in NodesOf(d) /\ n \in Nodes
  BY DEF Consistent, Dictionary, NodesOf
<1>2. u \in [Places -> Node] /\ SameContents(h, u) /\ Linked(NodesOf(d) \ {n}, u)
  BY <1>1, Unlinks DEF Consistent
<1> HIDE DEF u
<1>3. NodesOf(e) = NodesOf(d) \ {n}
  BY DEF NodesOf, Consistent, Dictionary
<1>4. /\ g \in [Places -> Node] /\ Linked(NodesOf(d) \ {n}, g)
      /\ \A x \in Places \ {n} : g[x] = u[x]
  BY <1>1, <1>2, Frees
<1> HIDE DEF g
<1>5. IsFiniteSet(DOMAIN d \ {key}) /\ Cardinality(DOMAIN d \ {key}) = Cardinality(DOMAIN d) - 1
  BY FS_RemoveElement DEF Consistent, Dictionary
<1>6. ASSUME NEW k \in DOMAIN d \ {key} PROVE e[k] \in Nodes /\ g[e[k]].key = k
  <2>1. d[k] \in Places \ {n} /\ h[d[k]].key = k
    BY DEF Consistent, Dictionary, Places
  <2> QED
    BY <1>2, <1>4, <2>1 DEF SameContents, Consistent, Dictionary
<1>7. Dictionary(e, g)
  BY <1>5, <1>6 DEF Consistent, Dictionary
<1> QED
  BY <1>3, <1>4, <1>5, <1>7, FS_CardinalityType DEF Consistent, g, u, Less

\* To move the node of a key changes neither.
LEMMA MovesNode ==
    ASSUME NEW d, NEW h, Consistent(d, h), NEW key \in DOMAIN d
    PROVE  Consistent(d, MoveToHead(h, d[key]))
<1> DEFINE g == MoveToHead(h, d[key])
<1>1. NodesOf(d) \in SUBSET Nodes /\ d[key] \in NodesOf(d)
  BY DEF Consistent, Dictionary, NodesOf
<1>2. g \in [Places -> Node] /\ SameContents(h, g) /\ Linked(NodesOf(d), g)
  BY <1>1, Moves DEF Consistent
<1> QED
  BY <1>2 DEF Consistent, Dictionary, SameContents, Places

\* When there is a new node at the head, _evict_tail() takes away the key of the last.
LastGoes(d, h, key) ==
    /\ d[key] = h[Tail].prev
    /\ heap' = Free(RemoveNode(h, d[key]), d[key])
    /\ dict' = Less(d, key)

LEMMA EvictsLast ==
    ASSUME NEW d, NEW h, Consistent(d, h), h[Head].next # Tail, EvictTail(h, d)
    PROVE  \E key \in DOMAIN d : LastGoes(d, h, key)
<1> DEFINE last == h[Tail].prev
<1>1. last \in NodesOf(d)
  BY DEF Consistent, Linked
<1>2. last # Head
  BY <1>1 DEF Consistent, Dictionary, NodesOf
<1>3. PICK key \in DOMAIN d : d[key] = last
  BY <1>1 DEF NodesOf
<1>4. h[last].key = key
  BY <1>3 DEF Consistent, Dictionary
<1>5. LastGoes(d, h, key)
  BY <1>2, <1>3, <1>4 DEF EvictTail, LastGoes, Less
<1> QED
  BY <1>5

\* So it makes room.
LEMMA Evicts ==
    ASSUME NEW d, NEW h, Consistent(d, h), h[Head].next # Tail, EvictTail(h, d)
    PROVE  /\ Consistent(dict', heap')
           /\ Cardinality(DOMAIN dict') = Cardinality(DOMAIN d) - 1
<1>1. PICK key \in DOMAIN d : LastGoes(d, h, key)
  BY EvictsLast
<1> QED
  BY <1>1, Takes DEF LastGoes

\* There is always a node that is not used: there is one more than the capacity.
LEMMA NodeLeft ==
    ASSUME NEW d, NEW h, Consistent(d, h), Cardinality(DOMAIN d) <= Capacity
    PROVE  \E n \in Nodes : n \notin NodesOf(d)
<1> SUFFICES ASSUME Nodes \subseteq NodesOf(d) PROVE FALSE
  OBVIOUS
<1>1. d \in Surjection(DOMAIN d, Nodes) /\ IsFiniteSet(DOMAIN d)
  BY DEF Consistent, Dictionary, NodesOf, Surjection
<1>2. Cardinality(Nodes) <= Cardinality(DOMAIN d)
  BY <1>1, FS_Surjection
<1>3. Cardinality(Nodes) \in Nat /\ Cardinality(DOMAIN d) \in Nat
  BY <1>1, FS_CardinalityType
<1> QED
  BY <1>2, <1>3

-----------------------------------------------------------------------------
\* What no method breaks.
CacheInv ==
    /\ Consistent(dict, heap) /\ Cardinality(DOMAIN dict) <= Capacity
    /\ answer \in Values \cup {None} \cup BOOLEAN
    /\ putting \in [Threads -> {None} \cup [key : Keys, value : Values, left : Lifetime]]

\* CacheInv is TypeOK and WellLinked, said of a dictionary and a memory.
LEMMA InvImplies == CacheInv => TypeOK /\ WellLinked
<1>1. Used = NodesOf(dict)
  BY DEF Used, NodesOf
<1> QED
  BY <1>1 DEF CacheInv, TypeOK, WellLinked, Consistent, Dictionary, Linked, Places

\* The empty cache, at the start and after clear().
LEMMA EmptyConsistent ==
    ASSUME NEW d, d = [k \in {} |-> None]
    PROVE  Consistent(d, Empty) /\ Cardinality(DOMAIN d) <= Capacity
<1>1. Empty \in [Places -> Node]
  BY DEF Empty, Blank, Node, Lifetime, Places
<1>2. Empty[Head].next = Tail /\ Empty[Tail].prev = Head
  BY DEF Empty, Blank
<1>3. DOMAIN d = {} /\ NodesOf(d) = {}
  BY DEF NodesOf
<1>4. IsFiniteSet(DOMAIN d) /\ Cardinality(DOMAIN d) = 0
  BY <1>3, FS_EmptySet
<1> QED
  BY <1>1, <1>2, <1>3, <1>4 DEF Consistent, Dictionary, Linked

\* An expired or deleted entry goes with its node; the others stay.
LEMMA ForgetKeepsInv ==
    ASSUME CacheInv, NEW key \in DOMAIN dict,
           heap' = Free(RemoveNode(heap, dict[key]), dict[key]), dict' = Forget(key)
    PROVE  Consistent(dict', heap') /\ Cardinality(DOMAIN dict') <= Capacity
<1>1. /\ Consistent(dict', heap')
      /\ Cardinality(DOMAIN dict') = Cardinality(DOMAIN dict) - 1
  BY Takes DEF CacheInv, Forget, Less
<1>2. Cardinality(DOMAIN dict) \in Nat
  BY FS_CardinalityType DEF CacheInv, Consistent, Dictionary
<1> QED
  BY <1>1, <1>2 DEF CacheInv

\* get() forgets an expired entry, and moves any other to the front.
LEMMA GetKeepsInv ==
    ASSUME CacheInv, NEW key \in Keys, Get(key)
    PROVE  CacheInv'
<1>1. CASE key \notin DOMAIN dict
  BY <1>1 DEF Get, CacheInv
<1>2. CASE key \in DOMAIN dict /\ Expired(dict[key])
  BY <1>2, ForgetKeepsInv DEF Get, CacheInv
<1>3. CASE key \in DOMAIN dict /\ ~Expired(dict[key])
  <2>1. Consistent(dict, MoveToHead(heap, dict[key]))
    BY <1>3, MovesNode DEF CacheInv
  <2>2. heap[dict[key]].value \in Values \cup {None}
    BY <1>3 DEF CacheInv, Consistent, Dictionary, Places, Node
  <2> QED
    BY <1>3, <2>1, <2>2 DEF Get, CacheInv
<1> QED
  BY <1>1, <1>2, <1>3

\* delete() forgets an entry that is there.
LEMMA DeleteKeepsInv ==
    ASSUME CacheInv, NEW key \in Keys, Delete(key)
    PROVE  CacheInv'
<1>1. CASE key \notin DOMAIN dict
  BY <1>1 DEF Delete, CacheInv
<1>2. CASE key \in DOMAIN dict
  BY <1>2, ForgetKeepsInv DEF Delete, CacheInv
<1> QED
  BY <1>1, <1>2

\* What put() does to a node whose key it has.
Filled(h, n, p) == [h EXCEPT ![n].value = p.value, ![n].left = p.left]

\* New contents of a node leave its key and all links as they are.
LEMMA Fills ==
    ASSUME NEW h \in [Places -> Node], NEW n \in Nodes,
           NEW p \in [key : Keys, value : Values, left : Lifetime]
    PROVE  LET g == Filled(h, n, p)
           IN  /\ g \in [Places -> Node]
               /\ \A x \in Places : /\ g[x].key = h[x].key
                                    /\ g[x].prev = h[x].prev /\ g[x].next = h[x].next
               /\ \A x \in Places \ {n} : g[x] = h[x]
               /\ g[n].value = p.value /\ g[n].left = p.left
<1> DEFINE f == [h EXCEPT ![n].value = p.value]
           g == [f EXCEPT ![n].left = p.left]
<1>1. /\ f \in [Places -> Node]
      /\ \A x \in Places : f[x] = IF x = n THEN [h[x] EXCEPT !.value = p.value] ELSE h[x]
  BY DEF Places, Node
<1> HIDE DEF f
<1>2. /\ g \in [Places -> Node]
      /\ \A x \in Places : g[x] = IF x = n THEN [f[x] EXCEPT !.left = p.left] ELSE f[x]
  BY <1>1 DEF Places, Node
<1> HIDE DEF g
<1>3. /\ \A x \in Places : /\ g[x].key = h[x].key
                           /\ g[x].prev = h[x].prev /\ g[x].next = h[x].next
      /\ \A x \in Places \ {n} : g[x] = h[x]
  BY <1>1, <1>2 DEF Node
<1>4. g[n].value = p.value /\ g[n].left = p.left
  <2>1. h[n] \in Node /\ f[n] \in Node
    BY <1>1 DEF Places
  <2>2. f[n].value = p.value
    BY <1>1, <2>1 DEF Places, Node
  <2> QED
    BY <1>2, <2>1, <2>2 DEF Places, Node
<1> QED
  BY <1>2, <1>3, <1>4 DEF Filled, f, g

\* put() of a key that is there: new contents, and the node goes to the head.
LEMMA UpdateKeepsInv ==
    ASSUME CacheInv, NEW p \in [key : Keys, value : Values, left : Lifetime],
           p.key \in DOMAIN dict, Update(p)
    PROVE  Consistent(dict', heap') /\ Cardinality(DOMAIN dict') <= Capacity
<1> DEFINE node == dict[p.key]
           filled == Filled(heap, node, p)
<1>1. node \in Nodes
  BY DEF CacheInv, Consistent, Dictionary
<1>2. /\ filled \in [Places -> Node]
      /\ \A x \in Places : /\ filled[x].key = heap[x].key /\ filled[x].prev = heap[x].prev
                           /\ filled[x].next = heap[x].next
  BY <1>1, Fills DEF CacheInv, Consistent
<1>3. heap' = MoveToHead(filled, node) /\ dict' = dict
  BY DEF Update, Filled
<1> HIDE DEF filled
<1>4. Dictionary(dict, filled)
  BY <1>2 DEF CacheInv, Consistent, Dictionary, Places
<1>5. NodesOf(dict) \subseteq Places
  BY DEF CacheInv, Consistent, Dictionary, NodesOf, Places
<1>6. Linked(NodesOf(dict), filled)
  BY <1>2, <1>5, LinksMatter DEF CacheInv, Consistent, SameLinks, Places
<1>7. Consistent(dict, filled)
  BY <1>2, <1>4, <1>6 DEF Consistent
<1> QED
  BY <1>3, <1>7, MovesNode DEF CacheInv

\* put() of a new key: a node that was free is filled and linked, for the dictionary all,
\* and the last one makes room.
Added(p, node, filled, all) ==
    LET added == AddToHead(filled, node)
    IN  /\ node \in Nodes \ NodesOf(dict)
        /\ filled \in [Places -> Node] /\ Linked(NodesOf(dict), filled)
        /\ filled[node].key = p.key /\ filled[node].value = p.value /\ filled[node].left = p.left
        /\ \A x \in Places \ {node} : filled[x] = heap[x]
        /\ NodesOf(all) = NodesOf(dict) \cup {node}
        /\ Cardinality(DOMAIN dict) \in Nat
        /\ Cardinality(DOMAIN all) = Cardinality(DOMAIN dict) + 1
        /\ Consistent(all, added) /\ added[Head].next = node
        /\ IF Cardinality(DOMAIN all) > Capacity THEN EvictTail(added, all)
           ELSE heap' = added /\ dict' = all

\* What Insert() does, in these words.
LEMMA Adds ==
    ASSUME CacheInv, NEW p \in [key : Keys, value : Values, left : Lifetime],
           p.key \notin DOMAIN dict, Insert(p)
    PROVE  \E node, filled, all : Added(p, node, filled, all)
<1> DEFINE node   == CHOOSE n \in Nodes : n \notin Used
           keyed  == [heap EXCEPT ![node].key = p.key]
           filled == Filled(keyed, node, p)
           added  == AddToHead(filled, node)
           all    == [k \in DOMAIN dict \cup {p.key} |-> IF k = p.key THEN node ELSE dict[k]]
<1>1. IF Cardinality(DOMAIN all) > Capacity THEN EvictTail(added, all)
      ELSE heap' = added /\ dict' = all
  BY DEF Insert, Filled
<1>2. node \in Nodes /\ node \notin NodesOf(dict)
  BY NodeLeft DEF CacheInv, Used, NodesOf
<1> HIDE DEF node
<1>3. /\ keyed \in [Places -> Node] /\ keyed[node].key = p.key
      /\ \A x \in Places : keyed[x].prev = heap[x].prev /\ keyed[x].next = heap[x].next
      /\ \A x \in Places \ {node} : keyed[x] = heap[x]
  BY <1>2 DEF CacheInv, Consistent, Places, Node
<1> HIDE DEF keyed
<1>4. /\ filled \in [Places -> Node]
      /\ \A x \in Places : /\ filled[x].key = keyed[x].key /\ filled[x].prev = keyed[x].prev
                           /\ filled[x].next = keyed[x].next
      /\ \A x \in Places \ {node} : filled[x] = keyed[x]
      /\ filled[node].value = p.value /\ filled[node].left = p.left
  BY <1>2, <1>3, Fills
<1> HIDE DEF filled
<1>5. /\ DOMAIN all = DOMAIN dict \cup {p.key} /\ all[p.key] = node
      /\ \A k \in DOMAIN dict : all[k] = dict[k]
  OBVIOUS
<1> HIDE DEF all
<1>6. /\ filled[node].key = p.key
      /\ \A x \in Places : filled[x].prev = heap[x].prev /\ filled[x].next = heap[x].next
      /\ \A x \in Places \ {node} : filled[x] = heap[x]
  BY <1>2, <1>3, <1>4 DEF Places
<1>7. /\ NodesOf(dict) \in SUBSET Nodes /\ NodesOf(all) = NodesOf(dict) \cup {node}
      /\ node \in Nodes \ NodesOf(dict)
  <2>1. NodesOf(dict) \in SUBSET Nodes
    BY DEF CacheInv, Consistent, Dictionary, NodesOf
  <2>2. NodesOf(all) = NodesOf(dict) \cup {node}
    BY <1>5 DEF NodesOf
  <2> QED
    BY <1>2, <2>1, <2>2
<1>8. Linked(NodesOf(dict), filled)
  BY <1>6, <1>7, LinksMatter DEF CacheInv, Consistent, SameLinks, Places
<1>9. /\ added \in [Places -> Node] /\ SameContents(filled, added)
      /\ Linked(NodesOf(all), added) /\ added[Head].next = node
  <2> DEFINE U == NodesOf(dict)
  <2>1. /\ U \in SUBSET Nodes /\ node \in Nodes \ U
        /\ filled \in [Places -> Node] /\ Linked(U, filled)
    BY <1>4, <1>7, <1>8
  <2> HIDE DEF U
  <2>2. added \in [Places -> Node] /\ SameContents(filled, added)
    BY <2>1, Links
  <2>3. Linked(U \cup {node}, added)
    BY <2>1, Links
  <2>4. added[Head].next = node
    <3>1. Head \in Places /\ filled[Head].next \in Places
      BY <2>1 DEF Linked, Places
    <3> QED
      BY <1>2, <2>1, <3>1, LinkByLink
  <2> QED
    BY <1>7, <2>2, <2>3, <2>4 DEF U
<1> HIDE DEF added
<1>10. /\ IsFiniteSet(DOMAIN all) /\ Cardinality(DOMAIN dict) \in Nat
       /\ Cardinality(DOMAIN all) = Cardinality(DOMAIN dict) + 1
  <2>1. DOMAIN all = DOMAIN dict \cup {p.key} /\ IsFiniteSet(DOMAIN dict)
    BY <1>5 DEF CacheInv, Consistent, Dictionary
  <2> QED
    BY <2>1, FS_AddElement, FS_CardinalityType
<1>11. ASSUME NEW k \in DOMAIN all PROVE all[k] \in Nodes /\ added[all[k]].key = k
  <2>1. CASE k = p.key
    BY <1>2, <1>5, <1>6, <1>9, <2>1 DEF SameContents, Places
  <2>2. CASE k # p.key
    <3>1. k \in DOMAIN dict /\ all[k] = dict[k] /\ dict[k] \in Nodes \ {node}
      BY <1>2, <1>5, <2>2 DEF CacheInv, Consistent, Dictionary, NodesOf
    <3> QED
      BY <1>6, <1>9, <3>1 DEF SameContents, Places, CacheInv, Consistent, Dictionary
  <2> QED
    BY <2>1, <2>2
<1>12. all \in [DOMAIN all -> Nodes] /\ DOMAIN all \subseteq Keys
  <2>1. all = [k \in DOMAIN all |-> all[k]]
    BY DEF all
  <2> QED
    BY <1>5, <1>11, <2>1 DEF CacheInv, Consistent, Dictionary
<1>13. Consistent(all, added)
  BY <1>9, <1>10, <1>11, <1>12 DEF Consistent, Dictionary
<1> QED
  BY <1>1, <1>4, <1>6, <1>7, <1>8, <1>9, <1>10, <1>13 DEF Added, added

\* put() of a new key.
LEMMA InsertKeepsInv ==
    ASSUME CacheInv, NEW p \in [key : Keys, value : Values, left : Lifetime],
           p.key \notin DOMAIN dict, Insert(p)
    PROVE  Consistent(dict', heap') /\ Cardinality(DOMAIN dict') <= Capacity
<1>1. PICK node, filled, all : Added(p, node, filled, all)
  BY Adds
<1> DEFINE added == AddToHead(filled, node)
<1>2. /\ Cardinality(DOMAIN dict) \in Nat
      /\ Cardinality(DOMAIN all) = Cardinality(DOMAIN dict) + 1
      /\ Consistent(all, added) /\ added[Head].next # Tail
      /\ IF Cardinality(DOMAIN all) > Capacity THEN EvictTail(added, all)
         ELSE heap' = added /\ dict' = all
  BY <1>1 DEF Added
<1> HIDE DEF added
<1>3. CASE Cardinality(DOMAIN all) > Capacity
  BY <1>2, <1>3, Evicts DEF CacheInv
<1>4. CASE Cardinality(DOMAIN all) <= Capacity
  BY <1>2, <1>4
<1> QED
  BY <1>2, <1>3, <1>4

\* put() updates a node, or adds one and evicts the last.
LEMMA PutKeepsInv ==
    ASSUME CacheInv, NEW t \in Threads, Put(t)
    PROVE  CacheInv'
<1>1. putting[t] \in [key : Keys, value : Values, left : Lifetime]
  BY DEF Put, CacheInv
<1>2. Consistent(dict', heap') /\ Cardinality(DOMAIN dict') <= Capacity
  BY <1>1, UpdateKeepsInv, InsertKeepsInv DEF Put
<1> QED
  BY <1>2 DEF Put, CacheInv

\* Time changes no key and no link.
LEMMA TickKeepsInv ==
    ASSUME CacheInv, Tick
    PROVE  CacheInv'
<1>1. /\ heap' \in [Places -> Node]
      /\ \A x \in Places : /\ heap'[x].key = heap[x].key /\ heap'[x].prev = heap[x].prev
                           /\ heap'[x].next = heap[x].next
  <2>1. heap \in [Places -> Node] /\ heap' = [n \in Places |-> Later(heap[n])]
    BY DEF Tick, CacheInv, Consistent
  <2>2. ASSUME NEW x \in Node
        PROVE  /\ Later(x) \in Node /\ Later(x).key = x.key
               /\ Later(x).prev = x.prev /\ Later(x).next = x.next
    <3>1. x.left \notin {None, -1} => x.left - 1 \in Lifetime
      BY DEF Node, Lifetime
    <3> QED
      BY <3>1 DEF Later, Node
  <2> QED
    BY <2>1, <2>2
<1>2. dict' = dict /\ NodesOf(dict) \subseteq Places
  BY DEF Tick, CacheInv, Consistent, Dictionary, NodesOf, Places
<1>3. Linked(NodesOf(dict), heap')
  BY <1>1, <1>2, LinksMatter DEF CacheInv, Consistent, SameLinks, Places
<1>4. Dictionary(dict, heap')
  BY <1>1 DEF CacheInv, Consistent, Dictionary, Places
<1>5. putting' \in [Threads -> {None} \cup [key : Keys, value : Values, left : Lifetime]]
  BY DEF Tick, Later, CacheInv, Lifetime
<1> QED
  BY <1>1, <1>2, <1>3, <1>4, <1>5 DEF Tick, CacheInv, Consistent

\* The invariant holds of the empty cache and is kept by every method.
LEMMA CacheInductive == Spec => []CacheInv
<1>1. Init => CacheInv
  BY EmptyConsistent DEF Init, CacheInv
<1>2. CacheInv /\ [Next]_vars => CacheInv'
  <2> SUFFICES ASSUME CacheInv, [Next]_vars PROVE CacheInv'
    OBVIOUS
  <2>1. CASE \E key \in Keys : Get(key) \/ Delete(key)
    BY <2>1, GetKeepsInv, DeleteKeepsInv
  <2>2. CASE \E t \in Threads, key \in Keys, value \in Values, ttl \in TTLs :
               CallPut(t, key, value, ttl)
    BY <2>2 DEF CallPut, CacheInv, Lifetime
  <2>3. CASE \E t \in Threads : Put(t)
    BY <2>3, PutKeepsInv
  <2>4. CASE Clear
    BY <2>4, EmptyConsistent DEF Clear, CacheInv
  <2>5. CASE Tick
    BY <2>5, TickKeepsInv
  <2>6. CASE UNCHANGED vars
    BY <2>6 DEF vars, CacheInv
  <2> QED
    BY <2>1, <2>2, <2>3, <2>4, <2>5, <2>6 DEF Next
<1> QED
  BY <1>1, <1>2, PTL DEF Spec

\* The types, a dictionary within the capacity, and every key at its own node.
THEOREM CacheTyped == Spec => []TypeOK
  BY CacheInductive, InvImplies, PTL

\* Every node of the dictionary and both sentinels are linked both ways, after every
\* method: an eviction or an expiry never tears the list.
THEOREM ListHolds == Spec => []WellLinked
  BY CacheInductive, InvImplies, PTL

-----------------------------------------------------------------------------
(***************************************************************************)
(* The order of the list, and what RecencyCache does to its entries.       *)
(***************************************************************************)

Entries == [key : Keys \cup {None}, value : Values \cup {None}, left : Lifetime]

\* A sequence of length n without its k-th element, and one with an element in front.
Drop(s, n, k) == [i \in 1 .. n - 1 |-> IF i < k THEN s[i] ELSE s[i + 1]]
Push(e, s, n) == [i \in 1 .. n + 1 |-> IF i = 1 THEN e ELSE s[i - 1]]

\* In the words of RecencyCache: all elements but one, one more in front, all but the last.
LEMMA RestDrops ==
    ASSUME NEW n \in Nat, NEW s \in [1 .. n -> Entries], NEW k \in 1 .. n
    PROVE  R!Without(s, k) = Drop(s, n, k)
<1>1. s \in R!Seq(Entries) /\ R!Len(s) = n
  OBVIOUS
<1> QED
  BY <1>1 DEF Drop, R!Without

LEMMA FrontPushes ==
    ASSUME NEW n \in Nat, NEW s \in [1 .. n -> Entries], NEW e \in Entries
    PROVE  R!InFront(e, s) = Push(e, s, n)
<1>1. s \in R!Seq(Entries) /\ R!Len(s) = n
  OBVIOUS
<1> QED
  BY <1>1 DEF Push, R!InFront

LEMMA CutDrops ==
    ASSUME NEW n \in Nat, NEW s \in [1 .. n + 1 -> Entries]
    PROVE  R!SubSeq(s, 1, n) = Drop(s, n + 1, n + 1)
<1>1. s \in R!Seq(Entries) /\ R!Len(s) = n + 1
  OBVIOUS
<1> QED
  BY <1>1 DEF Drop

\* A set of numbers has a least one (from the library's theorems about well-founded
\* relations: its induction theorems take an operator, which the provers cannot instantiate).
LEMMA LeastNumber ==
    ASSUME NEW S, S \subseteq Nat, S # {}
    PROVE  \E x \in S : \A y \in S : x <= y
<1> DEFINE Lt == OpToRel(<, Nat)
<1>1. IsWellFoundedOn(Lt, Nat)
  BY NatLessThanWellFounded
<1>2. \E x \in S : \A y \in S : ~ (<<y, x>> \in Lt)
  <2> HIDE DEF Lt
  <2> QED BY <1>1, WFMin
<1>3. \A x, y \in Nat : y < x => <<y, x>> \in Lt
  BY DEF OpToRel
<1> HIDE DEF Lt
<1>4. PICK x \in S : \A y \in S : ~ (<<y, x>> \in Lt)
  BY <1>2
<1>5. \A y \in S : ~ (y < x)
  BY <1>3, <1>4
<1>6. ASSUME NEW y \in S PROVE x <= y
  <2>1. x \in Nat /\ y \in Nat /\ ~ (y < x)
    BY <1>5
  <2> QED BY <2>1
<1> QED BY <1>6

\* A path of n nodes from the head to the tail, without the k-th node of it, and with
\* another node in front.
Skip(o, n, k) == [i \in 0 .. n |-> IF i < k THEN o[i] ELSE o[i + 1]]
Lead(x, o, n) == [i \in 0 .. n + 2 |-> IF i = 0 THEN Head ELSE IF i = 1 THEN x ELSE o[i - 1]]

\* In the heap, o leads from the head over the n nodes of U, each once, to the tail.
Path(o, n, U, h) ==
    /\ o \in [0 .. n + 1 -> U \cup {Head, Tail}] /\ o[0] = Head /\ o[n + 1] = Tail
    /\ \A i \in 1 .. n : o[i] \in U
    /\ \A i, j \in 1 .. n : o[i] = o[j] => i = j
    /\ \A x \in U : \E i \in 1 .. n : o[i] = x
    /\ \A i \in 0 .. n : h[o[i]].next = o[i + 1]

\* And every link back leads to what comes before on the path.
PathBack(o, n, h) == \A i \in 1 .. n + 1 : h[o[i]].prev = o[i - 1]

\* So it is in a list that is linked both ways.
LEMMA Before ==
    ASSUME NEW U \in SUBSET Nodes, NEW h \in [Places -> Node], Linked(U, h),
           NEW n \in Nat, NEW o, Path(o, n, U, h)
    PROVE  PathBack(o, n, h)
<1> SUFFICES ASSUME NEW k \in 1 .. n + 1 PROVE h[o[k]].prev = o[k - 1]
  BY DEF PathBack
<1>1. k - 1 \in 0 .. n /\ k - 1 + 1 = k
  OBVIOUS
<1>2. o[k - 1] \in U \cup {Head}
  BY <1>1 DEF Path
<1>3. h[o[k - 1]].next = o[k]
  BY <1>1 DEF Path
<1> QED
  BY <1>2, <1>3 DEF Linked

\* _remove_node() takes the node out of the path.
LEMMA SkipsNode ==
    ASSUME NEW U \in SUBSET Nodes, NEW h \in [Places -> Node], Linked(U, h),
           NEW n \in Nat, NEW o, Path(o, n, U, h), NEW k \in 1 .. n
    PROVE  Path(Skip(o, n, k), n - 1, U \ {o[k]}, RemoveNode(h, o[k]))
<1> DEFINE x == o[k]
           g == RemoveNode(h, x)
           r == Skip(o, n, k)
           p == o[k - 1]
<1>1. k - 1 \in 0 .. n /\ k - 1 + 1 = k /\ k \in 0 .. n /\ k \in 1 .. n + 1
  OBVIOUS
<1>2. /\ \A i \in 0 .. n + 1 : o[i] \in Places
      /\ \A i \in 0 .. n : h[o[i]].next = o[i + 1]
      /\ \A i, j \in 0 .. n : o[i] = o[j] => i = j
  <2>1. \A i \in 0 .. n + 1 : o[i] \in Places
    BY DEF Path, Places
  <2>2. \A i \in 0 .. n : h[o[i]].next = o[i + 1]
    BY DEF Path
  <2>3. ASSUME NEW i \in 0 .. n, NEW j \in 0 .. n, o[i] = o[j] PROVE i = j
    <3>3. o[0] = Head /\ \A l \in 1 .. n : o[l] \in U
      BY DEF Path
    <3>1. \A l \in 1 .. n : o[l] # o[0]
      BY <3>3
    <3>2. (i = 0 \/ i \in 1 .. n) /\ (j = 0 \/ j \in 1 .. n)
      OBVIOUS
    <3> QED
      BY <2>3, <3>1, <3>2 DEF Path
  <2> QED
    BY <2>1, <2>2, <2>3
<1>3. x \in U /\ x \in Places /\ p \in Places /\ p # x /\ o[k + 1] \in Places
  <2>1. k \in 0 .. n + 1 /\ k - 1 \in 0 .. n + 1 /\ k + 1 \in 0 .. n + 1 /\ k - 1 # k
    OBVIOUS
  <2>2. x \in U
    BY DEF Path
  <2> QED
    BY <1>1, <1>2, <2>1, <2>2
<1>4. h[x].prev = p /\ h[x].next = o[k + 1]
  <2>1. PathBack(o, n, h)
    BY Before
  <2> QED
    BY <1>1, <1>2, <2>1 DEF PathBack
<1>5. \A y \in Places : g[y].next = IF y = p THEN o[k + 1] ELSE h[y].next
  BY <1>3, <1>4, UnlinkByLink
<1> HIDE DEF g
<1>6. /\ r = [i \in 0 .. n |-> r[i]]
      /\ \A i \in 0 .. n : r[i] = IF i < k THEN o[i] ELSE o[i + 1]
  BY DEF Skip
<1> HIDE DEF r
<1>7. \A i \in 1 .. n - 1 : r[i] \in U \ {x}
  <2> TAKE i \in 1 .. n - 1
  <2>1. i \in 0 .. n /\ i \in 1 .. n /\ i + 1 \in 1 .. n
    OBVIOUS
  <2> QED
    BY <1>1, <1>6, <2>1 DEF Path
<1>8. r[0] = Head /\ r[n] = Tail
  <2>1. 0 \in 0 .. n /\ n \in 0 .. n /\ 0 < k /\ ~(n < k)
    OBVIOUS
  <2> QED
    BY <1>6, <2>1 DEF Path
<1>9. r \in [0 .. n -> (U \ {x}) \cup {Head, Tail}]
  <2>1. \A i \in 0 .. n : i = 0 \/ i = n \/ i \in 1 .. n - 1
    OBVIOUS
  <2>2. \A i \in 0 .. n : r[i] \in (U \ {x}) \cup {Head, Tail}
    BY <1>7, <1>8, <2>1
  <2> QED
    BY <1>6, <2>2
<1>10. \A i, j \in 1 .. n - 1 : r[i] = r[j] => i = j
  <2> TAKE i, j \in 1 .. n - 1
  <2>1. /\ i \in 0 .. n /\ i \in 1 .. n /\ i + 1 \in 1 .. n
        /\ j \in 0 .. n /\ j \in 1 .. n /\ j + 1 \in 1 .. n
    OBVIOUS
  <2> DEFINE a == IF i < k THEN i ELSE i + 1
             b == IF j < k THEN j ELSE j + 1
  <2>2. a \in 1 .. n /\ b \in 1 .. n /\ r[i] = o[a] /\ r[j] = o[b]
    BY <1>6, <2>1
  <2>3. a = b => i = j
    OBVIOUS
  <2> HIDE DEF a, b
  <2> QED
    BY <2>2, <2>3 DEF Path
<1>11. ASSUME NEW y \in U \ {x} PROVE \E i \in 1 .. n - 1 : r[i] = y
  <2>1. PICK i \in 1 .. n : o[i] = y /\ i # k
    BY DEF Path
  <2>2. CASE i < k
    <3>1. i \in 1 .. n - 1 /\ i \in 0 .. n
      BY <2>2
    <3> QED
      BY <1>6, <2>1, <2>2, <3>1
  <2>3. CASE i > k
    <3>1. i - 1 \in 1 .. n - 1 /\ i - 1 \in 0 .. n /\ ~(i - 1 < k) /\ i - 1 + 1 = i
      BY <2>3
    <3> QED
      BY <1>6, <2>1, <3>1
  <2> QED
    BY <2>1, <2>2, <2>3
<1>12. ASSUME NEW i \in 0 .. n - 1 PROVE g[r[i]].next = r[i + 1]
  <2>1. i \in 0 .. n /\ i + 1 \in 0 .. n /\ i + 1 \in 0 .. n + 1
    OBVIOUS
  <2>2. CASE i < k - 1
    <3>1. i < k /\ i + 1 < k /\ i # k - 1
      BY <2>2
    <3>2. r[i] = o[i] /\ r[i + 1] = o[i + 1]
      BY <1>6, <2>1, <3>1
    <3>3. o[i] \in Places /\ o[i] # p /\ h[o[i]].next = o[i + 1]
      BY <1>1, <1>2, <2>1, <3>1
    <3> QED
      BY <1>5, <3>2, <3>3
  <2>3. CASE i = k - 1
    <3>1. i < k /\ ~(i + 1 < k) /\ i + 1 + 1 = k + 1
      BY <2>3
    <3>2. r[i] = p /\ r[i + 1] = o[k + 1]
      BY <1>6, <2>1, <2>3, <3>1
    <3> QED
      BY <1>3, <1>5, <3>2
  <2>4. CASE i > k - 1
    <3>1. ~(i < k) /\ ~(i + 1 < k) /\ i + 1 # k - 1
      BY <2>4
    <3>2. r[i] = o[i + 1] /\ r[i + 1] = o[i + 1 + 1]
      BY <1>6, <2>1, <3>1
    <3>3. o[i + 1] \in Places /\ o[i + 1] # p /\ h[o[i + 1]].next = o[i + 1 + 1]
      BY <1>1, <1>2, <2>1, <3>1
    <3> QED
      BY <1>5, <3>2, <3>3
  <2> QED
    BY <2>2, <2>3, <2>4
<1>13. n - 1 + 1 = n
  OBVIOUS
<1> QED
  BY <1>7, <1>8, <1>9, <1>10, <1>11, <1>12, <1>13 DEF Path, g, r

\* _add_to_head() puts the node at the front of the path.
LEMMA LeadsNode ==
    ASSUME NEW U \in SUBSET Nodes, NEW h \in [Places -> Node], Linked(U, h),
           NEW n \in Nat, NEW o, Path(o, n, U, h), NEW x \in Nodes \ U
    PROVE  Path(Lead(x, o, n), n + 1, U \cup {x}, AddToHead(h, x))
<1> DEFINE g == AddToHead(h, x)
           r == Lead(x, o, n)
<1>1. /\ \A i \in 0 .. n + 1 : o[i] \in Places
      /\ \A i \in 0 .. n : h[o[i]].next = o[i + 1] /\ o[i] # x
      /\ \A i \in 1 .. n : o[i] # Head
  <2>1. \A i \in 0 .. n + 1 : o[i] \in Places
    BY DEF Path, Places
  <2>2. \A i \in 0 .. n : h[o[i]].next = o[i + 1]
    BY DEF Path
  <2>5. o[0] = Head /\ \A i \in 1 .. n : o[i] \in U
    BY DEF Path
  <2>3. \A i \in 1 .. n : o[i] # x /\ o[i] # Head
    BY <2>5
  <2>4. o[0] = Head /\ x # Head /\ \A i \in 0 .. n : i = 0 \/ i \in 1 .. n
    BY <2>5
  <2> QED
    BY <2>1, <2>2, <2>3, <2>4
<1>2. h[Head].next = o[1] /\ o[1] \in Places /\ Head \in Places /\ x \in Places /\ x # Head
  <2>1. 0 \in 0 .. n /\ 0 + 1 = 1 /\ 1 \in 0 .. n + 1
    OBVIOUS
  <2> QED
    BY <1>1, <2>1 DEF Path, Places
<1>3. \A y \in Places : g[y].next = IF y = Head THEN x ELSE IF y = x THEN o[1] ELSE h[y].next
  BY <1>2, LinkByLink
<1> HIDE DEF g
<1>4. /\ r = [i \in 0 .. n + 2 |-> r[i]]
      /\ \A i \in 0 .. n + 2 : r[i] = IF i = 0 THEN Head ELSE IF i = 1 THEN x ELSE o[i - 1]
  BY DEF Lead
<1> HIDE DEF r
<1>5. \A i \in 1 .. n + 1 : r[i] \in U \cup {x}
  <2> TAKE i \in 1 .. n + 1
  <2>1. i \in 0 .. n + 2 /\ i # 0 /\ (i # 1 => i - 1 \in 1 .. n)
    OBVIOUS
  <2> QED
    BY <1>4, <2>1 DEF Path
<1>6. r[0] = Head /\ r[n + 2] = Tail
  <2>1. 0 \in 0 .. n + 2 /\ n + 2 \in 0 .. n + 2 /\ n + 2 # 0 /\ n + 2 # 1 /\ n + 2 - 1 = n + 1
    OBVIOUS
  <2> QED
    BY <1>4, <2>1 DEF Path
<1>7. r \in [0 .. n + 2 -> (U \cup {x}) \cup {Head, Tail}]
  <2>1. \A i \in 0 .. n + 2 : i = 0 \/ i = n + 2 \/ i \in 1 .. n + 1
    OBVIOUS
  <2>2. \A i \in 0 .. n + 2 : r[i] \in (U \cup {x}) \cup {Head, Tail}
    BY <1>5, <1>6, <2>1
  <2> QED
    BY <1>4, <2>2
<1>8. \A i, j \in 1 .. n + 1 : r[i] = r[j] => i = j
  <2> TAKE i, j \in 1 .. n + 1
  <2>1. /\ i \in 0 .. n + 2 /\ i # 0 /\ (i # 1 => i - 1 \in 1 .. n)
        /\ j \in 0 .. n + 2 /\ j # 0 /\ (j # 1 => j - 1 \in 1 .. n)
        /\ (i - 1 = j - 1 => i = j)
    OBVIOUS
  <2>2. /\ r[i] = IF i = 1 THEN x ELSE o[i - 1]
        /\ r[j] = IF j = 1 THEN x ELSE o[j - 1]
    BY <1>4, <2>1
  <2> QED
    BY <2>1, <2>2 DEF Path
<1>9. ASSUME NEW y \in U \cup {x} PROVE \E i \in 1 .. n + 1 : r[i] = y
  <2>1. CASE y = x
    <3>1. 1 \in 1 .. n + 1 /\ 1 \in 0 .. n + 2
      OBVIOUS
    <3>2. r[1] = y
      BY <1>4, <2>1, <3>1
    <3> QED
      BY <3>1, <3>2
  <2>2. CASE y # x
    <3>1. PICK i \in 1 .. n : o[i] = y
      BY <2>2 DEF Path
    <3>2. /\ i + 1 \in 1 .. n + 1 /\ i + 1 \in 0 .. n + 2
          /\ i + 1 # 0 /\ i + 1 # 1 /\ i + 1 - 1 = i
      OBVIOUS
    <3> QED
      BY <1>4, <3>1, <3>2
  <2> QED
    BY <2>1, <2>2
<1>10. ASSUME NEW i \in 0 .. n + 1 PROVE g[r[i]].next = r[i + 1]
  <2>1. i \in 0 .. n + 2 /\ i + 1 \in 0 .. n + 2 /\ i + 1 # 0 /\ i + 1 - 1 = i
    OBVIOUS
  <2>2. CASE i = 0
    <3>1. r[i] = Head /\ r[i + 1] = x
      BY <1>4, <2>1, <2>2
    <3> QED
      BY <1>2, <1>3, <3>1
  <2>3. CASE i = 1
    <3>1. r[i] = x /\ r[i + 1] = o[1]
      BY <1>4, <2>1, <2>3
    <3> QED
      BY <1>2, <1>3, <3>1
  <2>4. CASE i > 1
    <3>1. i # 0 /\ i # 1 /\ i + 1 # 1 /\ i - 1 \in 1 .. n /\ i - 1 \in 0 .. n
          /\ i - 1 \in 0 .. n + 1 /\ i - 1 + 1 = i
      BY <2>4
    <3>2. r[i] = o[i - 1] /\ r[i + 1] = o[i]
      BY <1>4, <2>1, <3>1
    <3>3. o[i - 1] \in Places /\ o[i - 1] # Head /\ o[i - 1] # x /\ h[o[i - 1]].next = o[i]
      BY <1>1, <3>1
    <3> QED
      BY <1>3, <3>2, <3>3
  <2> QED
    BY <2>2, <2>3, <2>4
<1>11. n + 1 + 1 = n + 2
  OBVIOUS
<1> QED
  BY <1>5, <1>6, <1>7, <1>8, <1>9, <1>10, <1>11 DEF Path, g, r

\* The path is the same when the links forward are.
LEMMA PathMatters ==
    ASSUME NEW U \in SUBSET Nodes, NEW h, NEW g, NEW n \in Nat, NEW o, Path(o, n, U, h),
           \A x \in U \cup {Head} : g[x].next = h[x].next
    PROVE  Path(o, n, U, g)
<1>1. \A i \in 0 .. n : o[i] \in U \cup {Head}
  <2>1. \A i \in 0 .. n : i = 0 \/ i \in 1 .. n
    OBVIOUS
  <2> QED
    BY <2>1 DEF Path
<1> QED
  BY <1>1 DEF Path

\* The walk from the head on follows the path.
LEMMA WalkFollows ==
    ASSUME NEW d, IsFiniteSet(DOMAIN d), NEW h, NEW U,
           NEW o, Path(o, Cardinality(DOMAIN d), U, h)
    PROVE  \A i \in 0 .. Cardinality(DOMAIN d) : Walk(d, h)[i] = o[i]
<1> DEFINE n == Cardinality(DOMAIN d)
           Steps(w) == [i \in 0 .. n |-> IF i = 0 THEN Head ELSE h[w[i - 1]].next]
           a == [i \in 0 .. n |-> o[i]]
           w == Walk(d, h)
<1>1. n \in Nat
  BY FS_CardinalityType
<1>2. w = CHOOSE f : f = Steps(f)
  BY DEF Walk
<1>3. a = Steps(a)
  <2>1. ASSUME NEW i \in 0 .. n PROVE o[i] = IF i = 0 THEN Head ELSE h[a[i - 1]].next
    <3>1. CASE i = 0
      BY <3>1 DEF Path
    <3>2. CASE i # 0
      <4>1. i - 1 \in 0 .. n /\ i - 1 + 1 = i
        BY <1>1, <3>2
      <4> QED
        BY <3>2, <4>1 DEF Path
    <3> QED
      BY <3>1, <3>2
  <2> QED
    BY <2>1
<1>4. w = Steps(w)
  <2> HIDE DEF Steps, w
  <2> QED
    BY <1>2, <1>3
<1> HIDE DEF n, w
<1> DEFINE Off == {i \in 0 .. n : w[i] # o[i]}
<1>5. ASSUME Off # {} PROVE FALSE
  <2>1. PICK k \in Off : \A j \in Off : k <= j
    <3>1. Off \subseteq Nat
      BY <1>1
    <3> HIDE DEF Off
    <3> QED
      BY <1>5, <3>1, LeastNumber
  <2>2. /\ w[k] = IF k = 0 THEN Head ELSE h[w[k - 1]].next
        /\ o[k] = IF k = 0 THEN Head ELSE h[a[k - 1]].next
    BY <1>3, <1>4
  <2>3. k # 0
    BY <2>2
  <2>4. k - 1 \in 0 .. n /\ ~(k <= k - 1)
    BY <1>1, <2>3
  <2>5. w[k - 1] = a[k - 1]
    BY <2>1, <2>4
  <2> QED
    BY <2>2, <2>3, <2>5
<1> QED
  BY <1>5 DEF n, w

\* The entries that one reads on a path.
Reading(o, n, h) == [i \in 1 .. n |-> Entry(h[o[i]])]

\* The path through the list of a dictionary.
PathOf(o, d, h) == Path(o, Cardinality(DOMAIN d), NodesOf(d), h)

\* What the walk of LRURecency meets is what one reads on the path.
LEMMA ListingReads ==
    ASSUME NEW d, NEW h, Consistent(d, h), NEW o, PathOf(o, d, h)
    PROVE  /\ Cardinality(DOMAIN d) \in Nat
           /\ NodesOf(d) \in SUBSET Nodes
           /\ Listing(d, h) = Reading(o, Cardinality(DOMAIN d), h)
           /\ Listing(d, h) \in [1 .. Cardinality(DOMAIN d) -> Entries]
<1> DEFINE n == Cardinality(DOMAIN d)
<1>1. IsFiniteSet(DOMAIN d)
  BY DEF Consistent, Dictionary
<1>2. n \in Nat
  BY <1>1, FS_CardinalityType
<1>3. \A i \in 0 .. n : Walk(d, h)[i] = o[i]
  BY <1>1, WalkFollows DEF PathOf
<1>4. NodesOf(d) \in SUBSET Nodes
  BY DEF Consistent, Dictionary, NodesOf
<1>5. \A i \in 1 .. n : h[o[i]] \in Node
  <2>1. \A i \in 1 .. n : o[i] \in Places
    BY <1>4 DEF PathOf, Path, Places
  <2> QED
    BY <2>1 DEF Consistent
<1>6. Listing(d, h) = Reading(o, n, h)
  <2> HIDE DEF n
  <2>1. \A i \in 1 .. n : Walk(d, h)[i] = o[i]
    BY <1>2, <1>3
  <2>2. Listing(d, h) = [i \in 1 .. n |-> Entry(h[Walk(d, h)[i]])]
    BY DEF Listing, n
  <2> QED
    BY <2>1, <2>2 DEF Reading
<1>7. Reading(o, n, h) \in [1 .. n -> Entries]
  BY <1>5 DEF Reading, Entry, Entries, Node
<1> QED
  BY <1>2, <1>4, <1>6, <1>7

\* A key is at one place of the path when the dictionary has it, and at none otherwise.
LEMMA Finds ==
    ASSUME NEW d, NEW h, Consistent(d, h), NEW o, PathOf(o, d, h), NEW key
    PROVE  /\ key \in DOMAIN d =>
                \E k \in 1 .. Cardinality(DOMAIN d) : o[k] = d[key] /\ h[o[k]].key = key
           /\ key \notin DOMAIN d =>
                \A i \in 1 .. Cardinality(DOMAIN d) : h[o[i]].key # key
<1>1. ASSUME key \in DOMAIN d
      PROVE  \E k \in 1 .. Cardinality(DOMAIN d) : o[k] = d[key] /\ h[o[k]].key = key
  <2>1. d[key] \in NodesOf(d) /\ h[d[key]].key = key
    BY <1>1 DEF NodesOf, Consistent, Dictionary
  <2> QED
    BY <2>1 DEF PathOf, Path
<1>2. ASSUME NEW i \in 1 .. Cardinality(DOMAIN d) PROVE h[o[i]].key \in DOMAIN d
  <2>1. o[i] \in NodesOf(d)
    BY DEF PathOf, Path
  <2>2. PICK k \in DOMAIN d : o[i] = d[k]
    BY <2>1 DEF NodesOf
  <2> QED
    BY <2>2 DEF Consistent, Dictionary
<1> QED
  BY <1>1, <1>2

\* What is read without the node, ...
LEMMA SkipsEntry ==
    ASSUME NEW n \in Nat, NEW o, NEW k \in 1 .. n, NEW h, NEW g,
           \A i \in 1 .. n : i # k => Entry(g[o[i]]) = Entry(h[o[i]])
    PROVE  Reading(Skip(o, n, k), n - 1, g) = Drop(Reading(o, n, h), n, k)
<1> DEFINE r == Skip(o, n, k)
           s == Reading(o, n, h)
<1>1. ASSUME NEW i \in 1 .. n - 1
      PROVE  Entry(g[r[i]]) = IF i < k THEN s[i] ELSE s[i + 1]
  <2>1. i \in 0 .. n /\ i \in 1 .. n /\ i + 1 \in 1 .. n
    OBVIOUS
  <2>2. r[i] = IF i < k THEN o[i] ELSE o[i + 1]
    BY <2>1 DEF Skip
  <2>3. s[i] = Entry(h[o[i]]) /\ s[i + 1] = Entry(h[o[i + 1]])
    BY <2>1 DEF Reading
  <2>4. i < k => i # k
    OBVIOUS
  <2>5. ~(i < k) => i + 1 # k
    OBVIOUS
  <2> HIDE DEF r, s
  <2> QED
    BY <2>1, <2>2, <2>3, <2>4, <2>5
<1> HIDE DEF r, s
<1>2. Reading(r, n - 1, g) = Drop(s, n, k)
  BY <1>1 DEF Reading, Drop
<1> QED
  BY <1>2 DEF r, s

\* ... and with another in front.
LEMMA LeadsEntry ==
    ASSUME NEW n \in Nat, NEW o, NEW x, NEW h, NEW g,
           \A i \in 1 .. n : Entry(g[o[i]]) = Entry(h[o[i]])
    PROVE  Reading(Lead(x, o, n), n + 1, g) = Push(Entry(g[x]), Reading(o, n, h), n)
<1> DEFINE r == Lead(x, o, n)
           s == Reading(o, n, h)
<1>1. ASSUME NEW i \in 1 .. n + 1
      PROVE  Entry(g[r[i]]) = IF i = 1 THEN Entry(g[x]) ELSE s[i - 1]
  <2>1. i \in 0 .. n + 2 /\ i # 0 /\ (i # 1 => i - 1 \in 1 .. n)
    OBVIOUS
  <2>2. r[i] = IF i = 1 THEN x ELSE o[i - 1]
    BY <2>1 DEF Lead
  <2>3. i # 1 => s[i - 1] = Entry(h[o[i - 1]])
    BY <2>1 DEF Reading
  <2> HIDE DEF r, s
  <2> QED
    BY <2>1, <2>2, <2>3
<1> HIDE DEF r, s
<1>2. Reading(r, n + 1, g) = Push(Entry(g[x]), s, n)
  BY <1>1 DEF Reading, Push
<1> QED
  BY <1>2 DEF r, s

\* Without a key and its node, the list is without its entry.
LEMMA TakesEntry ==
    ASSUME NEW d, NEW h, Consistent(d, h), NEW o, PathOf(o, d, h),
           NEW key \in DOMAIN d, NEW k \in 1 .. Cardinality(DOMAIN d), o[k] = d[key]
    PROVE  LET n == Cardinality(DOMAIN d)
               e == Less(d, key)
               g == Free(RemoveNode(h, d[key]), d[key])
           IN  /\ Consistent(e, g) /\ Cardinality(DOMAIN e) = n - 1
               /\ PathOf(Skip(o, n, k), e, g)
               /\ Listing(e, g) = Drop(Listing(d, h), n, k)
<1> DEFINE n == Cardinality(DOMAIN d)
           e == Less(d, key)
           x == d[key]
           u == RemoveNode(h, x)
           g == Free(u, x)
           r == Skip(o, n, k)
<1>1. /\ Consistent(e, g)
      /\ Cardinality(DOMAIN e) = n - 1
  BY Takes
<1>2. /\ n \in Nat /\ NodesOf(d) \in SUBSET Nodes /\ Listing(d, h) = Reading(o, n, h)
      /\ h \in [Places -> Node] /\ Linked(NodesOf(d), h) /\ Path(o, n, NodesOf(d), h)
  BY ListingReads DEF Consistent, PathOf
<1> HIDE DEF n
<1>3. x \in NodesOf(d) /\ NodesOf(e) = NodesOf(d) \ {x}
  BY DEF NodesOf, Consistent, Dictionary, Less
<1>4. u \in [Places -> Node] /\ SameContents(h, u) /\ Linked(NodesOf(d) \ {x}, u)
  BY <1>2, <1>3, Unlinks
<1>5. Path(r, n - 1, NodesOf(d) \ {x}, u)
  <2>1. k \in 1 .. n
    BY DEF n
  <2>2. Path(r, n - 1, NodesOf(d) \ {o[k]}, RemoveNode(h, o[k]))
    BY <1>2, <2>1, SkipsNode
  <2> QED
    BY <2>2
<1> HIDE DEF u
<1>6. \A y \in Places \ {x} : g[y] = u[y]
  BY <1>4 DEF Free, Places
<1> HIDE DEF g
<1>7. Path(r, n - 1, NodesOf(d) \ {x}, g)
  <2>1. \A y \in (NodesOf(d) \ {x}) \cup {Head} : g[y].next = u[y].next
    BY <1>2, <1>3, <1>6 DEF Places
  <2>2. n - 1 \in Nat /\ NodesOf(d) \ {x} \in SUBSET Nodes
    BY <1>2 DEF n
  <2> QED
    BY <1>5, <2>1, <2>2, PathMatters
<1>8. \A i \in 1 .. n : i # k => Entry(g[o[i]]) = Entry(h[o[i]])
  <2>1. ASSUME NEW i \in 1 .. n, i # k PROVE o[i] \in Places \ {x}
    BY <1>2, <2>1 DEF Path, Places, n
  <2> QED
    BY <1>4, <1>6, <2>1 DEF SameContents, Entry
<1>9. PathOf(r, e, g)
  BY <1>1, <1>3, <1>7 DEF PathOf
<1>10. Listing(e, g) = Reading(r, n - 1, g)
  BY <1>1, <1>9, ListingReads
<1>11. Reading(r, n - 1, g) = Drop(Reading(o, n, h), n, k)
  <2>1. k \in 1 .. n
    BY DEF n
  <2> QED
    BY <1>2, <1>8, <2>1, SkipsEntry
<1> QED
  BY <1>1, <1>2, <1>9, <1>10, <1>11 DEF n, g, u

\* When a node goes to the head, its entry goes to the front.
LEMMA MovesEntry ==
    ASSUME NEW d, NEW h, Consistent(d, h), NEW o, PathOf(o, d, h),
           NEW key \in DOMAIN d, NEW k \in 1 .. Cardinality(DOMAIN d), o[k] = d[key]
    PROVE  LET n == Cardinality(DOMAIN d)
               g == MoveToHead(h, d[key])
               r == Lead(d[key], Skip(o, n, k), n - 1)
           IN  /\ Consistent(d, g) /\ PathOf(r, d, g)
               /\ Listing(d, g) = Push(Entry(h[d[key]]), Drop(Listing(d, h), n, k), n - 1)
<1> DEFINE n == Cardinality(DOMAIN d)
           x == d[key]
           u == RemoveNode(h, x)
           g == AddToHead(u, x)
           q == Skip(o, n, k)
           r == Lead(x, q, n - 1)
           U == NodesOf(d) \ {x}
<1>1. Consistent(d, g)
  BY MovesNode DEF MoveToHead
<1>2. /\ n \in Nat /\ NodesOf(d) \in SUBSET Nodes /\ Listing(d, h) = Reading(o, n, h)
      /\ h \in [Places -> Node] /\ Linked(NodesOf(d), h) /\ Path(o, n, NodesOf(d), h)
  BY ListingReads DEF Consistent, PathOf
<1>3. k \in 1 .. n /\ n - 1 \in Nat /\ n - 1 + 1 = n
  BY <1>2
<1> HIDE DEF n
<1>4. /\ x \in NodesOf(d) /\ x \in Places
      /\ U \in SUBSET Nodes /\ x \in Nodes \ U /\ U \cup {x} = NodesOf(d)
  BY <1>2 DEF NodesOf, Places
<1>5. u \in [Places -> Node] /\ SameContents(h, u) /\ Linked(U, u)
  BY <1>2, <1>4, Unlinks
<1>6. Path(q, n - 1, U, u)
  <2>1. Path(q, n - 1, NodesOf(d) \ {o[k]}, RemoveNode(h, o[k]))
    BY <1>2, <1>3, SkipsNode
  <2> QED
    BY <2>1
<1> HIDE DEF u, U, q
<1>7. SameContents(u, g) /\ Path(r, n - 1 + 1, U \cup {x}, g)
  BY <1>3, <1>4, <1>5, <1>6, Links, LeadsNode
<1> HIDE DEF g, r
<1>8. PathOf(r, d, g)
  BY <1>3, <1>4, <1>7 DEF PathOf, n
<1>9. Listing(d, g) = Reading(r, n, g)
  BY <1>1, <1>8, ListingReads DEF n
<1>10. \A y \in Places : Entry(u[y]) = Entry(h[y]) /\ Entry(g[y]) = Entry(h[y])
  BY <1>5, <1>7 DEF SameContents, Entry
<1>11. \A i \in 1 .. n : o[i] \in Places
  BY <1>2 DEF Path, Places
<1>12. \A i \in 1 .. n - 1 : Entry(g[q[i]]) = Entry(u[q[i]])
  <2>1. \A i \in 1 .. n - 1 : q[i] \in Places
    BY <1>4, <1>6 DEF Path, Places
  <2> QED
    BY <1>10, <2>1
<1>13. Reading(q, n - 1, u) = Drop(Reading(o, n, h), n, k)
  BY <1>2, <1>3, <1>10, <1>11, SkipsEntry DEF q
<1>14. Reading(r, n - 1 + 1, g) = Push(Entry(g[x]), Reading(q, n - 1, u), n - 1)
  <2> HIDE DEF x
  <2> QED
    BY <1>3, <1>12, LeadsEntry DEF r
<1>15. Listing(d, g) = Push(Entry(h[x]), Drop(Listing(d, h), n, k), n - 1)
  BY <1>2, <1>3, <1>4, <1>9, <1>10, <1>13, <1>14
<1> QED
  BY <1>1, <1>8, <1>15 DEF n, g, r, q, u, MoveToHead

-----------------------------------------------------------------------------
(***************************************************************************)
(* The refinement of RecencyCache.                                         *)
(***************************************************************************)

\* Besides CacheInv: the list is a path through all nodes of the dictionary, and a put()
\* that waits has a time to live that is running.
RecencyInv ==
    /\ CacheInv
    /\ \E o : PathOf(o, dict, heap)
    /\ \A t \in Threads : putting[t] # None => putting[t].left \in Remaining

Size == Cardinality(DOMAIN dict)

\* The abstract list finds what the dictionary has.
LEMMA FindsPlace ==
    ASSUME CacheInv, NEW o, PathOf(o, dict, heap), NEW key \in DOMAIN dict
    PROVE  \E k \in R!Find(key) : /\ k \in 1 .. Size /\ o[k] = dict[key]
                                  /\ Listing(dict, heap)[k] = Entry(heap[dict[key]])
<1> DEFINE s == Listing(dict, heap)
<1>1. /\ s = Reading(o, Size, heap) /\ DOMAIN s = 1 .. Size
  BY ListingReads DEF CacheInv, Size
<1>2. PICK k \in 1 .. Size : o[k] = dict[key] /\ heap[o[k]].key = key
  BY Finds DEF CacheInv, Size
<1>3. s[k] = Entry(heap[o[k]])
  BY <1>1 DEF Reading
<1>4. R!Find(key) = {i \in DOMAIN s : s[i].key = key}
  BY DEF R!Find
<1> HIDE DEF s
<1>5. s[k].key = key
  BY <1>2, <1>3 DEF Entry
<1>6. k \in R!Find(key)
  BY <1>1, <1>4, <1>5
<1> QED
  BY <1>2, <1>3, <1>6 DEF s

\* It finds nothing else.
LEMMA FindsNothing ==
    ASSUME CacheInv, NEW o, PathOf(o, dict, heap), NEW key, key \notin DOMAIN dict
    PROVE  R!Find(key) = {}
<1> DEFINE s == Listing(dict, heap)
<1>1. /\ s = Reading(o, Size, heap) /\ DOMAIN s = 1 .. Size
  BY ListingReads DEF CacheInv, Size
<1>2. \A i \in 1 .. Size : heap[o[i]].key # key
  BY Finds DEF CacheInv, Size
<1>3. R!Find(key) = {i \in DOMAIN s : s[i].key = key}
  BY DEF R!Find
<1>4. \A i \in 1 .. Size : s[i].key = heap[o[i]].key
  BY <1>1 DEF Reading, Entry
<1> HIDE DEF s
<1> QED
  BY <1>1, <1>2, <1>3, <1>4

\* The abstract list without an entry, and with another in front of the rest.
LEMMA RestIs ==
    ASSUME CacheInv, NEW o, PathOf(o, dict, heap), NEW k \in 1 .. Size, NEW e \in Entries
    PROVE  /\ R!Without(Listing(dict, heap), k) = Drop(Listing(dict, heap), Size, k)
           /\ R!InFront(e, R!Without(Listing(dict, heap), k))
                = Push(e, Drop(Listing(dict, heap), Size, k), Size - 1)
<1> DEFINE s == Listing(dict, heap)
<1>1. s \in [1 .. Size -> Entries] /\ Size \in Nat
  BY ListingReads DEF CacheInv, Size
<1> HIDE DEF s
<1>2. R!Without(s, k) = Drop(s, Size, k)
  BY <1>1, RestDrops
<1>3. Drop(s, Size, k) \in [1 .. Size - 1 -> Entries] /\ Size - 1 \in Nat
  <2>1. \A i \in 1 .. Size - 1 : i \in 1 .. Size /\ i + 1 \in 1 .. Size
    BY <1>1
  <2> QED
    BY <1>1, <2>1 DEF Drop
<1>4. R!InFront(e, Drop(s, Size, k)) = Push(e, Drop(s, Size, k), Size - 1)
  <2> DEFINE r == Drop(s, Size, k)
             m == Size - 1
  <2>1. r \in [1 .. m -> Entries] /\ m \in Nat
    BY <1>3
  <2> HIDE DEF r, m
  <2>2. R!InFront(e, r) = Push(e, r, m)
    BY <2>1, FrontPushes
  <2> QED
    BY <2>2 DEF r, m
<1> QED
  BY <1>2, <1>4 DEF s

\* An expired or deleted entry leaves the list.
LEMMA ForgetRefines ==
    ASSUME CacheInv, NEW o, PathOf(o, dict, heap), NEW key \in DOMAIN dict,
           NEW k \in 1 .. Size, o[k] = dict[key],
           heap' = Free(RemoveNode(heap, dict[key]), dict[key]), dict' = Forget(key)
    PROVE  /\ \E r : PathOf(r, dict', heap')
           /\ Listing(dict', heap') = R!Without(Listing(dict, heap), k)
<1>1. /\ PathOf(Skip(o, Size, k), dict', heap')
      /\ Listing(dict', heap') = Drop(Listing(dict, heap), Size, k)
  <2>1. dict' = Less(dict, key)
    BY DEF Forget, Less
  <2> QED
    BY <2>1, TakesEntry DEF CacheInv, Size
<1>2. R!Without(Listing(dict, heap), k) = Drop(Listing(dict, heap), Size, k)
  <2>1. \E e : e \in Entries
    <3>1. [key |-> None, value |-> None, left |-> None] \in Entries
      BY DEF Entries, Lifetime
    <3> QED
      BY <3>1
  <2> QED
    BY <2>1, RestIs
<1> QED
  BY <1>1, <1>2

\* get() finds an entry and brings it to the front, or drops it when its time is up.
LEMMA GetRefines ==
    ASSUME CacheInv, NEW o, PathOf(o, dict, heap), NEW key \in Keys, Get(key)
    PROVE  (\E r : PathOf(r, dict', heap')) /\ R!Get(key)
<1>1. CASE key \notin DOMAIN dict
  <2>1. R!Find(key) = {} /\ answer' = None /\ UNCHANGED <<dict, heap>>
    BY <1>1, FindsNothing DEF Get
  <2> QED
    BY <2>1 DEF R!Get
<1>2. CASE key \in DOMAIN dict
  <2>1. PICK k \in R!Find(key) : /\ k \in 1 .. Size /\ o[k] = dict[key]
                                 /\ Listing(dict, heap)[k] = Entry(heap[dict[key]])
    BY <1>2, FindsPlace
  <2> DEFINE e == Listing(dict, heap)[k]
  <2>2. heap[dict[key]] \in Node
    BY <1>2 DEF CacheInv, Consistent, Dictionary, Places
  <2>3. /\ e \in Entries /\ e.value = heap[dict[key]].value /\ e.left = heap[dict[key]].left
        /\ e.left \in Lifetime
    BY <2>1, <2>2 DEF Entry, Entries, Node
  <2>4. CASE Expired(dict[key])
    <3>1. /\ \E r : PathOf(r, dict', heap')
          /\ Listing(dict', heap') = R!Without(Listing(dict, heap), k)
      BY <1>2, <2>1, <2>4, ForgetRefines DEF Get
    <3>2. ~R!Live(e)
      <4>1. e.left = -1
        BY <2>3, <2>4 DEF Expired
      <4> HIDE DEF e
      <4> QED
        BY <4>1 DEF R!Live
    <3>3. answer' = None
      BY <1>2, <2>4 DEF Get
    <3> QED
      BY <2>1, <3>1, <3>2, <3>3 DEF R!Get
  <2>5. CASE ~Expired(dict[key])
    <3>1. /\ heap' = MoveToHead(heap, dict[key]) /\ dict' = dict
          /\ answer' = heap[dict[key]].value
      BY <1>2, <2>5 DEF Get
    <3>2. /\ PathOf(Lead(dict[key], Skip(o, Size, k), Size - 1), dict', heap')
          /\ Listing(dict', heap') = Push(e, Drop(Listing(dict, heap), Size, k), Size - 1)
      BY <1>2, <2>1, <3>1, MovesEntry DEF CacheInv, Size
    <3>3. Listing(dict', heap') = R!InFront(e, R!Without(Listing(dict, heap), k))
      BY <2>1, <2>3, <3>2, RestIs
    <3>4. R!Live(e)
      <4>1. e.left \in Lifetime /\ e.left # -1
        BY <2>3, <2>5 DEF Expired
      <4> HIDE DEF e
      <4> QED
        BY <4>1 DEF R!Live, Lifetime
    <3> QED
      BY <2>1, <2>3, <3>1, <3>2, <3>3, <3>4 DEF R!Get
  <2> QED
    BY <2>4, <2>5
<1> QED
  BY <1>1, <1>2

\* delete() drops the entry of its key.
LEMMA DeleteRefines ==
    ASSUME CacheInv, NEW o, PathOf(o, dict, heap), NEW key \in Keys, Delete(key)
    PROVE  (\E r : PathOf(r, dict', heap')) /\ R!Remove(key)
<1>1. CASE key \notin DOMAIN dict
  <2>1. R!Find(key) = {} /\ answer' = FALSE /\ UNCHANGED <<dict, heap>>
    BY <1>1, FindsNothing DEF Delete
  <2> QED
    BY <2>1 DEF R!Remove
<1>2. CASE key \in DOMAIN dict
  <2>1. PICK k \in R!Find(key) : k \in 1 .. Size /\ o[k] = dict[key]
    BY <1>2, FindsPlace
  <2>2. /\ \E r : PathOf(r, dict', heap')
        /\ Listing(dict', heap') = R!Without(Listing(dict, heap), k)
    BY <1>2, <2>1, ForgetRefines DEF Delete
  <2>3. answer' = TRUE
    BY <1>2 DEF Delete
  <2> QED
    BY <2>1, <2>2, <2>3 DEF R!Remove
<1> QED
  BY <1>1, <1>2

\* The entry that a put() makes.
Made(p) == [key |-> p.key, value |-> p.value, left |-> p.left]

\* put() of a key that is there: its entry is new, and goes to the front.
LEMMA UpdateRefines ==
    ASSUME CacheInv, NEW o, PathOf(o, dict, heap),
           NEW p \in [key : Keys, value : Values, left : Lifetime],
           p.key \in DOMAIN dict, Update(p), answer' = None
    PROVE  (\E r : PathOf(r, dict', heap')) /\ R!Put(p.key, p.value, p.left)
<1> DEFINE node == dict[p.key]
           filled == Filled(heap, node, p)
<1>1. node \in Nodes /\ NodesOf(dict) \in SUBSET Nodes /\ Size \in Nat
  BY ListingReads DEF CacheInv, Consistent, Dictionary, Size
<1>2. /\ filled \in [Places -> Node]
      /\ \A x \in Places : /\ filled[x].key = heap[x].key /\ filled[x].prev = heap[x].prev
                           /\ filled[x].next = heap[x].next
      /\ \A x \in Places \ {node} : filled[x] = heap[x]
      /\ filled[node].value = p.value /\ filled[node].left = p.left
  BY <1>1, Fills DEF CacheInv, Consistent
<1>3. heap' = MoveToHead(filled, node) /\ dict' = dict
  BY DEF Update, Filled
<1> HIDE DEF filled
<1>4. Consistent(dict, filled)
  <2>1. Dictionary(dict, filled)
    BY <1>2 DEF CacheInv, Consistent, Dictionary, Places
  <2>2. Linked(NodesOf(dict), filled)
    BY <1>1, <1>2, LinksMatter DEF CacheInv, Consistent, SameLinks, Places
  <2> QED
    BY <1>2, <2>1, <2>2 DEF Consistent
<1>5. PathOf(o, dict, filled)
  <2>1. \A x \in NodesOf(dict) \cup {Head} : filled[x].next = heap[x].next
    BY <1>1, <1>2 DEF Places
  <2> QED
    BY <1>1, <2>1, PathMatters DEF PathOf, Size
<1>6. PICK k \in R!Find(p.key) : k \in 1 .. Size /\ o[k] = node
  BY FindsPlace
<1> DEFINE s == Listing(dict, heap)
           f == Listing(dict, filled)
<1>7. f = Reading(o, Size, filled) /\ s = Reading(o, Size, heap)
  BY <1>4, <1>5, ListingReads DEF Size, CacheInv
<1>8. /\ PathOf(Lead(node, Skip(o, Size, k), Size - 1), dict', heap')
      /\ Listing(dict', heap') = Push(Entry(filled[node]), Drop(f, Size, k), Size - 1)
  BY <1>3, <1>4, <1>5, <1>6, MovesEntry DEF Size
<1>9. Entry(filled[node]) = Made(p)
  <2>1. filled[node].key = p.key
    BY <1>1, <1>2 DEF CacheInv, Consistent, Dictionary, Places
  <2> QED
    BY <1>2, <2>1 DEF Entry, Made
<1>10. Drop(f, Size, k) = Drop(s, Size, k)
  <2>1. ASSUME NEW i \in 1 .. Size, i # k PROVE f[i] = s[i]
    <3>1. o[i] \in Places \ {node}
      BY <1>1, <1>6, <2>1 DEF PathOf, Path, Places, Size
    <3> QED
      BY <1>2, <1>7, <3>1 DEF Reading
  <2> HIDE DEF f, s
  <2>2. ASSUME NEW i \in 1 .. Size - 1
        PROVE  (IF i < k THEN f[i] ELSE f[i + 1]) = (IF i < k THEN s[i] ELSE s[i + 1])
    <3>1. i \in 1 .. Size /\ i + 1 \in 1 .. Size /\ (i < k => i # k) /\ (~(i < k) => i + 1 # k)
      BY <1>1, <1>6
    <3> QED
      BY <2>1, <3>1
  <2> QED
    BY <2>2 DEF Drop
<1>11. Listing(dict', heap') = R!InFront(Made(p), R!Without(Listing(dict, heap), k))
  <2>1. Made(p) \in Entries
    BY DEF Made, Entries
  <2> QED
    BY <1>6, <1>8, <1>9, <1>10, <2>1, RestIs
<1> QED
  BY <1>6, <1>8, <1>11 DEF R!Put, Made

\* put() of a new key: an entry more, or the last one goes.
LEMMA InsertRefines ==
    ASSUME CacheInv, NEW o, PathOf(o, dict, heap),
           NEW p \in [key : Keys, value : Values, left : Lifetime],
           p.key \notin DOMAIN dict, Insert(p), answer' = None
    PROVE  (\E r : PathOf(r, dict', heap')) /\ R!Put(p.key, p.value, p.left)
<1>1. PICK node, filled, all : Added(p, node, filled, all)
  BY Adds
<1> DEFINE added == AddToHead(filled, node)
           r == Lead(node, o, Size)
           s == Listing(dict, heap)
           e == Made(p)
<1>2. /\ s = Reading(o, Size, heap) /\ s \in [1 .. Size -> Entries] /\ Size \in Nat
      /\ NodesOf(dict) \in SUBSET Nodes
  BY ListingReads DEF CacheInv, Size
<1>3. /\ node \in Nodes \ NodesOf(dict) /\ filled \in [Places -> Node]
      /\ Linked(NodesOf(dict), filled) /\ NodesOf(all) = NodesOf(dict) \cup {node}
      /\ Cardinality(DOMAIN all) = Size + 1 /\ Consistent(all, added)
      /\ \A x \in Places \ {node} : filled[x] = heap[x]
  BY <1>1 DEF Added, Size
<1>4. Entry(filled[node]) = e
  BY <1>1 DEF Added, Entry, Made
<1>5. added \in [Places -> Node] /\ SameContents(filled, added)
  BY <1>2, <1>3, Links
<1>6. Path(o, Size, NodesOf(dict), filled)
  <2>1. \A x \in NodesOf(dict) \cup {Head} : filled[x].next = heap[x].next
    BY <1>2, <1>3 DEF Places
  <2> QED
    BY <1>2, <2>1, PathMatters DEF PathOf, Size
<1>7. PathOf(r, all, added)
  BY <1>2, <1>3, <1>6, LeadsNode DEF PathOf
<1>8. Listing(all, added) = Push(e, s, Size)
  <2>1. Listing(all, added) = Reading(r, Size + 1, added)
    BY <1>3, <1>7, ListingReads
  <2>2. \A i \in 1 .. Size : Entry(added[o[i]]) = Entry(heap[o[i]])
    <3>1. \A i \in 1 .. Size : o[i] \in Places \ {node}
      BY <1>2, <1>3, <1>6 DEF Path, Places
    <3> QED
      BY <1>3, <1>5, <3>1 DEF SameContents, Entry
  <2>3. Entry(added[node]) = e
    BY <1>3, <1>4, <1>5 DEF SameContents, Entry, Places
  <2> HIDE DEF added, e
  <2>4. Reading(r, Size + 1, added) = Push(Entry(added[node]), Reading(o, Size, heap), Size)
    BY <1>2, <2>2, LeadsEntry
  <2> QED
    BY <1>2, <2>1, <2>3, <2>4
<1>9. e \in Entries
  BY DEF Made, Entries
<1> DEFINE a == R!InFront(e, s)
<1>10. a = Push(e, s, Size)
  <2> HIDE DEF e, s
  <2> QED
    BY <1>2, <1>9, FrontPushes
<1>11. a \in [1 .. Size + 1 -> Entries] /\ R!Len(a) = Size + 1
  <2> HIDE DEF e, s, a
  <2>1. Push(e, s, Size) \in [1 .. Size + 1 -> Entries]
    BY <1>2, <1>9 DEF Push
  <2> QED
    BY <1>2, <1>10, <2>1
<1>12. /\ IF Size + 1 > Capacity THEN EvictTail(added, all) ELSE heap' = added /\ dict' = all
       /\ added[Head].next # Tail
  BY <1>1, <1>3 DEF Added
<1>13. /\ \E q : PathOf(q, dict', heap')
       /\ Listing(dict', heap') = IF R!Len(a) > Capacity THEN R!SubSeq(a, 1, Capacity) ELSE a
  <2>1. CASE Size + 1 > Capacity
    <3> HIDE DEF added, r, a
    <3>1. Size = Capacity
      BY <1>2, <2>1 DEF CacheInv, Size
    <3>2. PICK key \in DOMAIN all : LastGoes(all, added, key)
      BY <1>3, <1>12, <2>1, EvictsLast
    <3>3. r[Size + 1] = all[key]
      <4>1. Path(r, Size + 1, NodesOf(all), added)
        BY <1>3, <1>7 DEF PathOf
      <4>2. PathBack(r, Size + 1, added)
        <5>1. NodesOf(all) \in SUBSET Nodes /\ Size + 1 \in Nat
          BY <1>2, <1>3
        <5>2. Linked(NodesOf(all), added)
          BY <1>3 DEF Consistent
        <5> QED
          BY <1>5, <4>1, <5>1, <5>2, Before
      <4>3. Size + 1 + 1 \in 1 .. Size + 1 + 1 /\ Size + 1 + 1 - 1 = Size + 1
        BY <1>2
      <4>4. r[Size + 1 + 1] = Tail
        BY <4>1 DEF Path
      <4>5. added[r[Size + 1 + 1]].prev = r[Size + 1 + 1 - 1]
        BY <1>2, <4>2, <4>3 DEF PathBack
      <4> QED
        BY <3>2, <4>3, <4>4, <4>5 DEF LastGoes
    <3>4. Size + 1 \in 1 .. Cardinality(DOMAIN all)
      BY <1>2, <1>3
    <3>7. PICK k : k = Size + 1
      OBVIOUS
    <3> DEFINE n == Cardinality(DOMAIN all)
    <3>5. /\ PathOf(Skip(r, n, k), dict', heap')
          /\ Listing(dict', heap') = Drop(Listing(all, added), n, k)
      <4>1. k \in 1 .. n /\ r[k] = all[key]
        BY <3>3, <3>4, <3>7
      <4> QED
        BY <1>3, <1>7, <3>2, <4>1, TakesEntry DEF LastGoes
    <3>6. R!SubSeq(a, 1, Size) = Drop(a, Size + 1, Size + 1)
      BY <1>2, <1>11, CutDrops
    <3> QED
      BY <1>3, <1>8, <1>10, <1>11, <2>1, <3>1, <3>5, <3>6, <3>7
  <2>2. CASE ~(Size + 1 > Capacity)
    <3> HIDE DEF added, r, a
    <3> QED
      BY <1>7, <1>8, <1>10, <1>11, <1>12, <2>2
  <2> QED
    BY <2>1, <2>2
<1>14. R!Find(p.key) = {}
  BY FindsNothing
<1> QED
  BY <1>13, <1>14 DEF R!Put, Made

\* Time passes for every entry alike.
LEMMA TickRefines ==
    ASSUME CacheInv, CacheInv', NEW o, PathOf(o, dict, heap), Tick
    PROVE  PathOf(o, dict', heap') /\ R!Age
<1> DEFINE s == Listing(dict, heap)
           r == Listing(dict', heap')
<1>1. /\ s = Reading(o, Size, heap) /\ DOMAIN s = 1 .. Size /\ Size \in Nat
      /\ NodesOf(dict) \in SUBSET Nodes /\ heap \in [Places -> Node]
  BY ListingReads DEF CacheInv, Consistent, Size
<1>2. dict' = dict /\ answer' = answer /\ heap' = [n \in Places |-> Later(heap[n])]
  BY <1>1 DEF Tick
<1>3. \A x \in Places : heap'[x] = Later(heap[x]) /\ heap'[x].next = heap[x].next
  BY <1>1, <1>2 DEF Later, Node
<1>4. PathOf(o, dict', heap')
  <2>1. \A x \in NodesOf(dict) \cup {Head} : heap'[x].next = heap[x].next
    BY <1>1, <1>3 DEF Places
  <2> QED
    BY <1>1, <1>2, <2>1, PathMatters DEF PathOf, Size
<1>5. r = Reading(o, Size, heap')
  <2>1. Consistent(dict', heap')
    BY DEF CacheInv
  <2> QED
    BY <1>2, <1>4, <2>1, ListingReads DEF Size
<1>6. ASSUME NEW i \in 1 .. Size
      PROVE  r[i] = IF s[i].left \in {None, -1} THEN s[i] ELSE [s[i] EXCEPT !.left = @ - 1]
  <2>1. o[i] \in Places
    BY <1>1 DEF PathOf, Path, Places, Size
  <2>2. heap[o[i]] \in Node /\ r[i] = Entry(Later(heap[o[i]])) /\ s[i] = Entry(heap[o[i]])
    BY <1>1, <1>3, <1>5, <2>1 DEF Reading
  <2> HIDE DEF r, s
  <2>3. s[i].left = heap[o[i]].left
    BY <2>2 DEF Entry
  <2>4. CASE s[i].left \in {None, -1}
    BY <2>2, <2>3, <2>4 DEF Later
  <2>5. CASE s[i].left \notin {None, -1}
    <3>1. Later(heap[o[i]]) = [heap[o[i]] EXCEPT !.left = @ - 1]
      BY <2>3, <2>5 DEF Later
    <3> QED
      BY <2>2, <2>3, <2>5, <3>1 DEF Entry, Node
  <2> QED
    BY <2>4, <2>5
<1>7. r = [i \in DOMAIN s |-> IF s[i].left \in {None, -1} THEN s[i]
                              ELSE [s[i] EXCEPT !.left = @ - 1]]
  <2>1. r = [i \in 1 .. Size |-> r[i]]
    BY <1>5 DEF Reading
  <2> HIDE DEF r, s
  <2> QED
    BY <1>1, <1>6, <2>1
<1> QED
  BY <1>2, <1>4, <1>7 DEF R!Age

\* The empty cache is the empty list.
LEMMA EmptyRefines ==
    ASSUME NEW d, d = [k \in {} |-> None]
    PROVE  (\E o : PathOf(o, d, Empty)) /\ Listing(d, Empty) = <<>>
<1> DEFINE o == [i \in 0 .. 1 |-> IF i = 0 THEN Head ELSE Tail]
<1>1. Cardinality(DOMAIN d) = 0 /\ NodesOf(d) = {}
  <2>1. DOMAIN d = {}
    OBVIOUS
  <2> QED
    BY <2>1, FS_EmptySet DEF NodesOf
<1>2. Empty[Head].next = Tail
  BY DEF Empty, Blank
<1>3. Path(o, 0, {}, Empty)
  <2>1. o \in [0 .. 0 + 1 -> {} \cup {Head, Tail}] /\ o[0] = Head /\ o[0 + 1] = Tail
    OBVIOUS
  <2>2. \A i \in 0 .. 0 : i = 0
    OBVIOUS
  <2> HIDE DEF o
  <2>3. \A i \in 0 .. 0 : Empty[o[i]].next = o[i + 1]
    BY <1>2, <2>1, <2>2
  <2> QED
    BY <2>1, <2>3 DEF Path
<1>4. Listing(d, Empty) = <<>>
  BY <1>1 DEF Listing
<1> QED
  BY <1>1, <1>3, <1>4 DEF PathOf

\* clear() leaves nothing.
LEMMA ClearRefines ==
    ASSUME Clear
    PROVE  (\E o : PathOf(o, dict', heap')) /\ R!Clear
<1>1. dict' = [k \in {} |-> None] /\ heap' = Empty /\ answer' = None
  BY DEF Clear
<1>2. (\E o : PathOf(o, dict', Empty)) /\ Listing(dict', Empty) = <<>>
  BY <1>1, EmptyRefines
<1> QED
  BY <1>1, <1>2 DEF R!Clear

\* put() makes one step of the abstract cache.
LEMMA PutRefines ==
    ASSUME RecencyInv, NEW t \in Threads, Put(t)
    PROVE  (\E o : PathOf(o, dict', heap')) /\ R!Next
<1> DEFINE p == putting[t]
<1>1. /\ p \in [key : Keys, value : Values, left : Lifetime] /\ p.left \in Remaining
      /\ answer' = None
  BY DEF RecencyInv, CacheInv, Put
<1>2. IF p.key \in DOMAIN dict THEN Update(p) ELSE Insert(p)
  BY DEF Put
<1> HIDE DEF p
<1>3. (\E o : PathOf(o, dict', heap')) /\ R!Put(p.key, p.value, p.left)
  BY <1>1, <1>2, UpdateRefines, InsertRefines DEF RecencyInv
<1>4. p.key \in Keys /\ p.value \in Values
  BY <1>1
<1> QED
  BY <1>1, <1>3, <1>4 DEF R!Next

\* A time to live that runs, runs on.
LEMMA RemainingRuns ==
    ASSUME NEW x \in [key : Keys, value : Values, left : Lifetime], x.left \in Remaining
    PROVE  Later(x).left \in Remaining
<1>1. CASE x.left \in {None, -1}
  BY <1>1 DEF Later
<1>2. CASE x.left \notin {None, -1}
  <2>1. Later(x).left = x.left - 1
    BY <1>2 DEF Later
  <2>2. PICK ttl \in TTLs \ {None} : x.left = ttl \/ x.left \in -1 .. ttl
    BY <1>2 DEF Remaining
  <2>3. x.left - 1 \in -1 .. ttl
    <3>1. ttl \in Nat
      OBVIOUS
    <3> QED
      BY <1>2, <2>2, <3>1
  <2> QED
    BY <2>1, <2>2, <2>3 DEF Remaining
<1> QED
  BY <1>1, <1>2

\* An empty cache is an empty list, and nobody waits.
LEMMA RecencyInit == Init => RecencyInv /\ R!Init
<1> SUFFICES ASSUME Init PROVE RecencyInv /\ R!Init
  OBVIOUS
<1>1. CacheInv
  BY EmptyConsistent DEF Init, CacheInv
<1>2. (\E o : PathOf(o, dict, heap)) /\ Listing(dict, heap) = <<>>
  BY EmptyRefines DEF Init
<1>3. \A t \in Threads : putting[t] = None
  BY DEF Init
<1> QED
  BY <1>1, <1>2, <1>3 DEF RecencyInv, Init, R!Init

\* Every method is a step of the abstract cache, or none.
LEMMA RecencyStep == RecencyInv /\ CacheInv' /\ [Next]_vars => RecencyInv' /\ [R!Next]_(R!vars)
<1> SUFFICES ASSUME RecencyInv, CacheInv', [Next]_vars PROVE RecencyInv' /\ [R!Next]_(R!vars)
  OBVIOUS
<1> DEFINE Waiting == \A t \in Threads : putting[t] # None => putting[t].left \in Remaining
<1>1. PICK o : PathOf(o, dict, heap)
  BY DEF RecencyInv
<1>2. CacheInv /\ Waiting
  BY DEF RecencyInv
<1>3. ASSUME NEW key \in Keys, Get(key) \/ Delete(key) PROVE RecencyInv' /\ R!Next
  <2>1. (\E r : PathOf(r, dict', heap')) /\ (R!Get(key) \/ R!Remove(key))
    BY <1>1, <1>2, <1>3, GetRefines, DeleteRefines
  <2>2. Waiting'
    BY <1>2, <1>3 DEF Get, Delete
  <2> QED
    BY <2>1, <2>2 DEF RecencyInv, R!Next
<1>4. ASSUME NEW t \in Threads, NEW key \in Keys, NEW value \in Values, NEW ttl \in TTLs,
             CallPut(t, key, value, ttl)
      PROVE  RecencyInv' /\ UNCHANGED R!vars
  <2>1. UNCHANGED <<dict, heap, answer>>
    BY <1>4 DEF CallPut
  <2>2. Waiting'
    <3>1. \A u \in Threads :
            \/ putting'[u] = putting[u]
            \/ putting'[u] = [key |-> key, value |-> value, left |-> ttl]
      BY <1>2, <1>4 DEF CallPut, CacheInv
    <3>2. ttl \in Remaining
      BY DEF Remaining
    <3> QED
      BY <1>2, <3>1, <3>2
  <2>3. PathOf(o, dict', heap')
    BY <1>1, <2>1
  <2> QED
    BY <2>1, <2>2, <2>3 DEF RecencyInv, R!vars
<1>5. ASSUME NEW t \in Threads, Put(t) PROVE RecencyInv' /\ R!Next
  <2>1. (\E r : PathOf(r, dict', heap')) /\ R!Next
    BY <1>5, PutRefines
  <2>2. Waiting'
    BY <1>2, <1>5 DEF Put, CacheInv
  <2> QED
    BY <2>1, <2>2 DEF RecencyInv
<1>6. CASE Clear
  <2>1. Waiting'
    BY <1>2, <1>6 DEF Clear
  <2> QED
    BY <1>6, <2>1, ClearRefines DEF RecencyInv, R!Next
<1>7. CASE Tick
  <2>1. ASSUME NEW t \in Threads, putting'[t] # None PROVE putting'[t].left \in Remaining
    <3>1. putting[t] # None /\ putting'[t] = Later(putting[t])
      BY <1>7, <2>1 DEF Tick
    <3>2. /\ putting[t] \in [key : Keys, value : Values, left : Lifetime]
          /\ putting[t].left \in Remaining
      BY <1>2, <3>1 DEF CacheInv
    <3> QED
      BY <3>1, <3>2, RemainingRuns
  <2>2. PathOf(o, dict', heap') /\ R!Age
    BY <1>1, <1>2, <1>7, TickRefines
  <2> QED
    BY <2>1, <2>2 DEF RecencyInv, R!Next
<1>8. CASE UNCHANGED vars
  <2>1. PathOf(o, dict', heap') /\ Waiting' /\ UNCHANGED R!vars
    BY <1>1, <1>2, <1>8 DEF vars, R!vars
  <2> QED
    BY <2>1 DEF RecencyInv
<1> QED
  BY <1>3, <1>4, <1>5, <1>6, <1>7, <1>8 DEF Next

\* The cache, read from head to tail, is a list of entries in the order of their last use:
\* get() and put() bring theirs to the front, and what makes room is at the end.
THEOREM LeastRecentlyUsed == Spec => ImplementsRecency
<1>1. Init => RecencyInv /\ R!Init
  BY RecencyInit
<1>2. RecencyInv /\ CacheInv' /\ [Next]_vars => RecencyInv' /\ [R!Next]_(R!vars)
  BY RecencyStep
<1> QED
  BY <1>1, <1>2, CacheInductive, PTL DEF Spec, ImplementsRecency, R!Spec

=============================================================================
