---------------------------- MODULE RecencyCache ----------------------------
(***************************************************************************)
(* What core/cache.py promises: "Least Recently Used cache".  A bounded    *)
(* list of entries, the most recently used one first; an entry is found    *)
(* until its time is up, and room is made at the end of the list.          *)
(***************************************************************************)
EXTENDS Integers, Sequences

CONSTANTS Keys, Values, Capacity, Lifetimes, None

VARIABLES entries,   \* sequence of [key, value, left]
          answer     \* what the last operation returned

vars == <<entries, answer>>

Find(key) == {i \in DOMAIN entries : entries[i].key = key}

\* A list without its i-th entry, and with another in front.
Without(list, i) == SubSeq(list, 1, i - 1) \o SubSeq(list, i + 1, Len(list))

InFront(entry, list) == <<entry>> \o list

Live(e) == e.left = None \/ e.left >= 0

Init == entries = <<>> /\ answer = None

\* A live entry is returned and becomes the most recently used, an expired one goes.
Get(key) ==
    \/ /\ Find(key) = {}
       /\ answer' = None /\ UNCHANGED entries
    \/ \E i \in Find(key) :
         \/ /\ Live(entries[i])
            /\ entries' = InFront(entries[i], Without(entries, i))
            /\ answer' = entries[i].value
         \/ /\ ~Live(entries[i])
            /\ entries' = Without(entries, i)
            /\ answer' = None

\* An entry replaces the one with its key; without one, the last may have to make room.
Put(key, value, left) ==
    LET entry == [key |-> key, value |-> value, left |-> left]
        all   == InFront(entry, entries)
    IN  /\ \/ \E i \in Find(key) : entries' = InFront(entry, Without(entries, i))
           \/ /\ Find(key) = {}
              /\ entries' = IF Len(all) > Capacity THEN SubSeq(all, 1, Capacity) ELSE all
        /\ answer' = None

Remove(key) ==
    \/ /\ Find(key) = {}
       /\ answer' = FALSE /\ UNCHANGED entries
    \/ \E i \in Find(key) : entries' = Without(entries, i) /\ answer' = TRUE

Clear == entries' = <<>> /\ answer' = None

Age == /\ entries' = [i \in DOMAIN entries |->
                        IF entries[i].left \in {None, -1} THEN entries[i]
                        ELSE [entries[i] EXCEPT !.left = @ - 1]]
       /\ UNCHANGED answer

Next == \/ \E key \in Keys : Get(key) \/ Remove(key)
        \/ \E key \in Keys, value \in Values, left \in Lifetimes : Put(key, value, left)
        \/ Clear \/ Age

Spec == Init /\ [][Next]_vars

=============================================================================
