----------------------------- MODULE LRURecency -----------------------------
(***************************************************************************)
(* The list of LRUCache, read from head to tail, is the list of            *)
(* RecencyCache.                                                           *)
(***************************************************************************)
EXTENDS LRUCache

\* Where one is after i links, from the head on.
Walk(d, h) ==
    LET at[i \in 0 .. Cardinality(DOMAIN d)] == IF i = 0 THEN Head ELSE h[at[i - 1]].next
    IN  at

Entry(node) == [key |-> node.key, value |-> node.value, left |-> node.left]

\* As many entries as the dictionary has keys, the most recently used one first.
Listing(d, h) ==
    LET walk == Walk(d, h)
    IN  [i \in 1 .. Cardinality(DOMAIN d) |-> Entry(h[walk[i]])]

\* The time that put() may still give an entry once it has the lock.
Remaining == TTLs \cup UNION {-1 .. ttl : ttl \in TTLs \ {None}}

R == INSTANCE RecencyCache WITH Lifetimes <- Remaining, entries <- Listing(dict, heap)

\* The cache is a least recently used cache.
ImplementsRecency == R!Spec

=============================================================================
