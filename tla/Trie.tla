-------------------------------- MODULE Trie --------------------------------
(***************************************************************************)
(* core/trie.py: a prefix tree of weighted words.  insert(), bulk_insert() *)
(* and delete() hold the lock, but what they store becomes visible store   *)
(* by store, and search(), starts_with() and autocomplete() read without   *)
(* the lock.  A step is one access of memory that another thread can see;  *)
(* what a writer reads under the lock costs no step of its own.            *)
(*                                                                         *)
(* A text is a number, in alphabetical order, and Key gives its lower-case *)
(* and stripped form as a sequence of characters: two spellings may share  *)
(* a key, and a blank text has the empty one.  Calls with an empty string  *)
(* return at once and are no steps.                                        *)
(***************************************************************************)
EXTENDS Integers, FiniteSets, Sequences, SequencesExt

CONSTANTS
    Threads, Writers, Readers,     \* Threads is the union of the other two
    Chars,
    Texts,      \* non-empty strings, as numbers
    Key,        \* [Texts -> Seq(Chars)]: word.lower().strip()
    Batches,    \* the sequences of [text, weight] that callers insert
    Limits,     \* values of "limit"
    MaxOverlap, \* bound: writers that start while one read runs
    MaxCopies,  \* bound: TrieNode objects of one path, in the tree or held by a read
    None

ASSUME TrieAssumption ==
    /\ Texts \subseteq Nat \ {0} /\ Texts # {}
    /\ Key \in [Texts -> Seq(Chars)]
    /\ Batches \subseteq Seq([text : Texts, weight : Int]) \ {<<>>}
    /\ Limits \subseteq Nat
    /\ MaxOverlap \in Nat
    /\ Threads = Writers \cup Readers
    /\ MaxCopies \in Nat \ {0}
    /\ None \notin Threads \cup (Seq(Chars) \X Nat)

VARIABLES
    heap,   \* the TrieNode objects
    size,   \* _size
    lock,   \* _lock: the thread that holds it, or None
    job,    \* what each thread is doing
    words,  \* key -> <<weight, text>>: the words inserted and not deleted (history)
    seen    \* of each thread's read: what was stored while it ran (history)

vars == <<heap, size, lock, job, words, seen>>

EmptyText == 0      \* the string ""

Prefix(key, n) == SubSeq(key, 1, n)

Paths == UNION {{Prefix(Key[x], n) : n \in 0 .. Len(Key[x])} : x \in Texts}

\* TrieNode objects, each with the only path it can have in its life and a number.
Nodes == Paths \X (1 .. MaxCopies)

Root == << <<>>, 1 >>

\* TrieNode()
NewNode == [children |-> [c \in {} |-> Root], is_end |-> FALSE,
            weight |-> 0, value |-> EmptyText]

Weights == UNION {{batch[i].weight : i \in DOMAIN batch} : batch \in Batches}

Ready(t) == job[t].pc = "idle"

Reads == {"search", "starts_with", "autocomplete"}

-----------------------------------------------------------------------------
(***************************************************************************)
(* The tree.                                                               *)
(***************************************************************************)
Child(n, c) == IF n # None /\ c \in DOMAIN heap[n].children
                 THEN heap[n].children[c] ELSE None

\* The node at the end of a path from the root, or None.
At(path) ==
    LET walk[n \in 0 .. Len(path)] ==
          IF n = 0 THEN Root ELSE Child(walk[n - 1], path[n])
    IN  walk[Len(path)]

Tree == {p \in Paths : At(p) # None}

\* What the threads hold in their variables.
Held == UNION {{job[t].node} \cup ToSet(job[t].queue) : t \in {u \in Threads : job[u].op \in Reads}}

\* The objects of a path that are neither in the tree nor held by a read.
Free(path) == {i \in 1 .. MaxCopies : At(path) # <<path, i>> /\ <<path, i>> \notin Held}

\* Words as the nodes say, but for an insertion that is visible and not complete.
InMemory(path) == <<heap[At(path)].weight, heap[At(path)].value>>

Represents == {p \in Tree : heap[At(p)].is_end}

\* What a read of this key can come across: <<key, spelling>>.
Under(key) == {<<p, heap[At(p)].value>> : p \in {q \in Represents : IsPrefix(key, q)}}

-----------------------------------------------------------------------------
(***************************************************************************)
(* History: for a read that is running, the keys it asks for that were     *)
(* stored all the time, the spellings that were stored at some time, and   *)
(* whether no writer held the lock meanwhile.                              *)
(***************************************************************************)
Watch(key) == [kept |-> {k \in DOMAIN words : IsPrefix(key, k)},
               met |-> Under(key), quiet |-> lock = None, writers |-> 0]

NoWatch == [kept |-> {}, met |-> {}, quiet |-> FALSE, writers |-> 0]

Reading(t) == job[t].op \in Reads

\* Every step of a writer is seen by the reads that are running.
Observe == seen' = [t \in Threads |->
                      IF Reading(t)
                        THEN [kept  |-> seen[t].kept \cap DOMAIN words',
                              met   |-> seen[t].met \cup
                                          {<<k, words'[k][2]>> : k \in {q \in DOMAIN words' :
                                                                    IsPrefix(job[t].key, q)}},
                              quiet |-> FALSE,
                              writers |-> seen[t].writers + IF lock = None THEN 1 ELSE 0]
                        ELSE seen[t]]

Set(n, field, v) == [heap EXCEPT ![n][field] = v]

-----------------------------------------------------------------------------
(***************************************************************************)
(* insert() and bulk_insert(), which is the same loop over several items   *)
(* under one lock.                                                         *)
(***************************************************************************)
MayWrite(t) == /\ Ready(t) /\ lock = None
               /\ \A u \in Threads : Reading(u) => seen[u].writers < MaxOverlap

Idle == [pc |-> "idle", op |-> "none"]

Insert(t, items) ==
    /\ MayWrite(t)
    /\ lock' = t
    /\ job' = [job EXCEPT ![t] = [pc |-> "link", op |-> "insert", items |-> items]]
    /\ UNCHANGED <<heap, size, words>>
    /\ Observe

Item(t) == Head(job[t].items)
Word(t) == Key[Item(t).text]

\* node.children[char] = TrieNode(), for the first character that has no node.
Link(t) ==
    /\ job[t].pc = "link" /\ At(Word(t)) = None
    /\ LET n == CHOOSE i \in 1 .. Len(Word(t)) :
                  At(Prefix(Word(t), i)) = None /\ At(Prefix(Word(t), i - 1)) # None
           parent == At(Prefix(Word(t), n - 1))
           free == Free(Prefix(Word(t), n))
           new == <<Prefix(Word(t), n), CHOOSE i \in free : \A k \in free : i <= k>>
       IN  /\ free # {}
           /\ heap' = [heap EXCEPT ![new] = NewNode,
                                   ![parent].children =
                                        [c \in DOMAIN @ \cup {Word(t)[n]} |->
                                           IF c = Word(t)[n] THEN new ELSE @[c]]]
    /\ UNCHANGED <<size, lock, job, words>>
    /\ Observe

\* The word counts as inserted when is_end is set, with the weight and the spelling
\* that are about to be stored; it counts as deleted when is_end is cleared.
Enter(k, entry) ==
    [x \in DOMAIN words \cup {k} |-> IF x = k THEN entry ELSE words[x]]

Mark(t) ==
    /\ job[t].pc = "link" /\ At(Word(t)) # None
    /\ heap' = Set(At(Word(t)), "is_end", TRUE)
    /\ size' = IF heap[At(Word(t))].is_end THEN size ELSE size + 1
    /\ job' = [job EXCEPT ![t].pc = "weigh"]
    /\ words' = Enter(Word(t), <<Item(t).weight, Item(t).text>>)
    /\ UNCHANGED lock
    /\ Observe

Weigh(t) ==
    /\ job[t].pc = "weigh"
    /\ heap' = Set(At(Word(t)), "weight", Item(t).weight)
    /\ job' = [job EXCEPT ![t].pc = "name"]
    /\ UNCHANGED <<size, lock, words>>
    /\ Observe

\* The last store; then the next item, or the end of the with block.
Name(t) ==
    /\ job[t].pc = "name"
    /\ heap' = Set(At(Word(t)), "value", Item(t).text)
    /\ LET rest == Tail(job[t].items)
       IN  IF rest = <<>>
             THEN job' = [job EXCEPT ![t] = Idle] /\ lock' = None
             ELSE job' = [job EXCEPT ![t].pc = "link", ![t].items = rest] /\ UNCHANGED lock
    /\ UNCHANGED <<size, words>>
    /\ Observe

-----------------------------------------------------------------------------
(***************************************************************************)
(* delete(): down to the node, clear it, then prune empty nodes on the way *)
(* back.  A word that is not there changes nothing.                        *)
(***************************************************************************)
\* MUTANT: the lock is not taken.
DeleteUnlocked(t, text) ==
    /\ MayWrite(t)
    /\ Key[text] \in DOMAIN words
    /\ job' = [job EXCEPT ![t] = [pc |-> "unmark", op |-> "delete", key |-> Key[text],
                                  depth |-> Len(Key[text])]]
    /\ UNCHANGED <<heap, size, lock, words>>
    /\ Observe

Delete(t, text) ==
    /\ MayWrite(t)
    /\ Key[text] \in DOMAIN words
    /\ lock' = t
    /\ job' = [job EXCEPT ![t] = [pc |-> "unmark", op |-> "delete", key |-> Key[text],
                                  depth |-> Len(Key[text])]]
    /\ UNCHANGED <<heap, size, words>>
    /\ Observe

Target(t) == At(Prefix(job[t].key, job[t].depth))

Unmark(t) ==
    /\ job[t].pc = "unmark"
    /\ heap' = Set(Target(t), "is_end", FALSE)
    /\ job' = [job EXCEPT ![t].pc = "unname"]
    /\ words' = [k \in DOMAIN words \ {job[t].key} |-> words[k]]
    /\ UNCHANGED <<size, lock>>
    /\ Observe

Unname(t) ==
    /\ job[t].pc = "unname"
    /\ heap' = Set(Target(t), "value", EmptyText)
    /\ job' = [job EXCEPT ![t].pc = "unweigh"]
    /\ UNCHANGED <<size, lock, words>>
    /\ Observe

Unweigh(t) ==
    /\ job[t].pc = "unweigh"
    /\ heap' = Set(Target(t), "weight", 0)
    /\ size' = size - 1
    /\ job' = [job EXCEPT ![t].pc = "prune"]
    /\ UNCHANGED <<lock, words>>
    /\ Observe

\* MUTANT: a node is pruned as soon as it has no children, word or not.
LeafOnly(n) == heap[n].children = NewNode.children

\* len(node.children) == 0 for the node that was cleared, and
\* not node.is_end and len(node.children) == 0 for its ancestors.
ShouldPrune(n) == ~heap[n].is_end /\ heap[n].children = NewNode.children

\* del node.children[char], one level up at a time.
Prune(t) ==
    /\ job[t].pc = "prune" /\ job[t].depth > 0 /\ ShouldPrune(Target(t))
    /\ LET d == job[t].depth
           parent == At(Prefix(job[t].key, d - 1))
       IN  heap' = [heap EXCEPT ![parent].children =
                      [c \in DOMAIN @ \ {job[t].key[d]} |-> @[c]]]
    /\ job' = [job EXCEPT ![t].depth = @ - 1]
    /\ UNCHANGED <<size, lock, words>>
    /\ Observe

EndDelete(t) ==
    /\ job[t].pc = "prune" /\ (job[t].depth = 0 \/ ~ShouldPrune(Target(t)))
    /\ job' = [job EXCEPT ![t] = Idle]
    /\ lock' = None
    /\ UNCHANGED <<heap, size, words>>
    /\ Observe

-----------------------------------------------------------------------------
(***************************************************************************)
(* The reads.  _find_node() asks for a child and then indexes it, two      *)
(* accesses; a child that goes in between is a KeyError.                   *)
(***************************************************************************)
Read(t, op, text, limit) ==
    /\ Ready(t)
    /\ job' = [job EXCEPT ![t] = [pc |-> IF Key[text] # <<>> THEN "look" ELSE "found",
                                  op |-> op, key |-> Key[text], limit |-> limit,
                                  depth |-> 0, node |-> Root, queue |-> <<>>,
                                  children |-> NewNode.children, taken |-> {},
                                  weight |-> 0, results |-> <<>>, skipped |-> FALSE]]
    /\ seen' = [seen EXCEPT ![t] = Watch(Key[text])]
    /\ UNCHANGED <<heap, size, lock, words>>

\* Did an iteration of this read go over a dictionary whose keys were changing?
Skipped(t) == \/ job[t].skipped
              \/ job[t].pc = "next" /\ heap[job[t].node].children # job[t].children

Answer(t, a) ==
    job' = [job EXCEPT ![t] = [pc |-> "done", op |-> job[t].op, key |-> job[t].key,
                               limit |-> job[t].limit, node |-> Root, queue |-> <<>>,
                               skipped |-> Skipped(t), answer |-> a]]

\* KeyError or RuntimeError: the call ends without an answer.
Raise(t) == /\ job' = [job EXCEPT ![t] = Idle]
            /\ seen' = [seen EXCEPT ![t] = NoWatch]

\* The answer goes to the caller.
Return(t) ==
    /\ job[t].pc = "done"
    /\ job' = [job EXCEPT ![t] = Idle]
    /\ seen' = [seen EXCEPT ![t] = NoWatch]
    /\ UNCHANGED <<heap, size, lock, words>>

NextChar(t) == job[t].key[job[t].depth + 1]

Look(t) ==
    /\ job[t].pc = "look"
    /\ IF NextChar(t) \in DOMAIN heap[job[t].node].children
         THEN job' = [job EXCEPT ![t].pc = "follow"]
         ELSE Answer(t, IF job[t].op = "autocomplete" THEN <<>> ELSE FALSE)
    /\ UNCHANGED <<heap, size, lock, words, seen>>

Follow(t) ==
    /\ job[t].pc = "follow"
    /\ LET n == Child(job[t].node, NextChar(t))
           d == job[t].depth + 1
       IN  \/ n = None /\ Raise(t)
          \/ /\ n # None
             /\ job' = [job EXCEPT ![t].node = n, ![t].depth = d,
                                   ![t].pc = IF d = Len(job[t].key) THEN "found"
                                                                    ELSE "look"]
             /\ UNCHANGED seen
    /\ UNCHANGED <<heap, size, lock, words>>

\* search() reads is_end, starts_with() is done, autocomplete() starts its queue.
Found(t) ==
    /\ job[t].pc = "found"
    /\ \/ job[t].op = "search" /\ Answer(t, heap[job[t].node].is_end)
       \/ job[t].op = "starts_with" /\ Answer(t, TRUE)
       \/ /\ job[t].op = "autocomplete"
          /\ job' = [job EXCEPT ![t].pc = "visit", ![t].queue = <<job[t].node>>,
                                 ![t].node = Root, ![t].depth = 0]
    /\ UNCHANGED <<heap, size, lock, words, seen>>

\* The end of the loop body: the next node of the queue, or the end of the search.
Before(x, y) == x[1] > y[1] \/ (x[1] = y[1] /\ x[2] < y[2])

\* results.sort(): the positions of the results, best first.
SortOrder(results) ==
    CHOOSE order \in [DOMAIN results -> DOMAIN results] :
        \A i, j \in DOMAIN results : i < j =>
            order[i] # order[j] /\ ~Before(results[order[j]], results[order[i]])

Best(results, limit) ==
    LET order == SortOrder(results)
        n == IF limit < Len(results) THEN limit ELSE Len(results)
    IN  [i \in 1 .. n |-> results[order[i]][2]]

\* MUTANT: a node is a word as soon as it has no children.
VisitLeaf(t) ==
    /\ job[t].pc = "visit"
    /\ LET n == Head(job[t].queue)
       IN  job' = [job EXCEPT ![t].node = n, ![t].queue = Tail(@),
                              ![t].pc = IF heap[n].children = NewNode.children
                                          THEN "read_weight" ELSE "children"]
    /\ UNCHANGED <<heap, size, lock, words, seen>>

\* queue.popleft() and current.is_end.  Spellings are reported, not keys.
Visit(t) ==
    /\ job[t].pc = "visit"
    /\ job' = [job EXCEPT ![t].node = Head(job[t].queue), ![t].queue = Tail(@),
                          ![t].pc = IF heap[Head(job[t].queue)].is_end THEN "read_weight"
                                                                       ELSE "children"]
    /\ UNCHANGED <<heap, size, lock, words, seen>>

ReadWeight(t) ==
    /\ job[t].pc = "read_weight"
    /\ job' = [job EXCEPT ![t].weight = heap[job[t].node].weight, ![t].pc = "read_value"]
    /\ UNCHANGED <<heap, size, lock, words, seen>>

ReadValue(t) ==
    /\ job[t].pc = "read_value"
    /\ job' = [job EXCEPT ![t].results = Append(@, <<job[t].weight, heap[job[t].node].value>>),
                          ![t].weight = 0, ![t].pc = "children"]
    /\ UNCHANGED <<heap, size, lock, words, seen>>

\* iter(current.children.values()), which remembers the size of the dictionary.
Iterate(t) ==
    /\ job[t].pc = "children"
    /\ job' = [job EXCEPT ![t].children = heap[job[t].node].children, ![t].taken = {},
                          ![t].pc = "next"]
    /\ UNCHANGED <<heap, size, lock, words, seen>>

Now(t) == heap[job[t].node].children

\* One more child.
TakeChild(t) ==
    \E c \in DOMAIN Now(t) \ job[t].taken :
        job' = [job EXCEPT ![t].taken = @ \cup {c}, ![t].queue = Append(@, Now(t)[c]),
                           ![t].skipped = Skipped(t)]

EndIteration(t) ==
    IF job[t].queue = <<>>
      THEN Answer(t, Best(job[t].results, job[t].limit))
      ELSE job' = [job EXCEPT ![t].pc = "visit",
                              ![t].skipped = Skipped(t)]

\* A dictionary that changed its size makes the iterator raise RuntimeError.  When
\* its keys changed and its size did not, what the iterator still finds depends on
\* the layout of the hash table.
NextChild(t) ==
    /\ job[t].pc = "next"
    /\ \/ /\ \/ Cardinality(DOMAIN Now(t)) # Cardinality(DOMAIN job[t].children)
             \/ Now(t) # job[t].children
          /\ Raise(t)
       \/ /\ Now(t) = job[t].children
          /\ IF job[t].taken = DOMAIN Now(t) THEN EndIteration(t) ELSE TakeChild(t)
          /\ UNCHANGED seen
       \/ /\ Cardinality(DOMAIN Now(t)) = Cardinality(DOMAIN job[t].children)
          /\ Now(t) # job[t].children
          /\ TakeChild(t) \/ EndIteration(t)
          /\ UNCHANGED seen
    /\ UNCHANGED <<heap, size, lock, words>>

-----------------------------------------------------------------------------
Init == /\ heap = [n \in Nodes |-> NewNode]
        /\ size = 0
        /\ lock = None
        /\ job = [t \in Threads |-> Idle]
        /\ words = [k \in {} |-> <<>>]
        /\ seen = [t \in Threads |-> NoWatch]

Write(t) ==
    \/ t \in Writers /\ \E items \in Batches : Insert(t, items)
    \/ Link(t) \/ Mark(t) \/ Weigh(t) \/ Name(t)
    \/ t \in Writers /\ \E x \in Texts : Delete(t, x)
    \/ Unmark(t) \/ Unname(t) \/ Unweigh(t) \/ Prune(t) \/ EndDelete(t)

Call(t) ==
    /\ t \in Readers
    /\ \/ \E x \in Texts, op \in {"search", "starts_with"} : Read(t, op, x, 0)
       \/ \E x \in Texts, limit \in Limits : Read(t, "autocomplete", x, limit)

ReadStep(t) ==
    \/ Look(t) \/ Follow(t) \/ Found(t)
    \/ Visit(t) \/ ReadWeight(t) \/ ReadValue(t) \/ Iterate(t) \/ NextChild(t)

\* No other thread sees an answer, so nothing is lost if it is returned first.
Next == \/ \E t \in Threads : Return(t)
        \/ /\ \A t \in Threads : job[t].pc # "done"
           /\ \E t \in Threads : Write(t) \/ Call(t) \/ ReadStep(t)

Spec == Init /\ [][Next]_vars

-----------------------------------------------------------------------------
(***************************************************************************)
(* Properties.                                                             *)
(***************************************************************************)

\* The nodes are used as trie.py uses them: the lock is held exactly while
\* insert(), bulk_insert() or delete() runs (lines 41 and 89), and no node but the
\* root has two parents (line 45).
TypeOK ==
    /\ size \in Nat
    /\ \A n \in Nodes : /\ DOMAIN heap[n].children \subseteq Chars
                        /\ \A c \in DOMAIN heap[n].children : heap[n].children[c] \in Nodes \ {Root}
                        /\ heap[n].is_end \in BOOLEAN
                        /\ heap[n].weight \in Weights \cup {0}
                        /\ heap[n].value \in Texts \cup {EmptyText}
    /\ \A p, q \in Tree : At(p) = At(q) => p = q
    /\ \A t \in Threads : lock = t <=> job[t].op \in {"insert", "delete"}

\* The nodes marked as words are the words inserted and not deleted, at any time.
\* While nobody holds the lock they also have the weight and the spelling inserted
\* last, every branch ends in a word, and _size counts the words: insert() leaves
\* no half-made branch, and delete() prunes no word and all that it can
\* (trie.py:41-51, 113-130).
WellFormed ==
    /\ Represents = DOMAIN words
    /\ lock = None =>
         /\ \A p \in DOMAIN words : InMemory(p) = words[p]
         /\ \A p \in Tree : p # <<>> => \E q \in DOMAIN words : IsPrefix(p, q)
         /\ size = Cardinality(DOMAIN words)

\* Does a suggestion spell this key?
Spells(v, key) == v # EmptyText /\ Key[v] = key

SearchIsRegular(t) ==
    /\ job[t].answer = TRUE => \E e \in seen[t].met : e[1] = job[t].key
    /\ job[t].answer = FALSE => job[t].key \notin seen[t].kept

StartsWithIsRegular(t) ==
    /\ job[t].answer = FALSE => seen[t].kept = {}
    /\ job[t].answer = TRUE /\ seen[t].quiet => job[t].key = <<>> \/ seen[t].met # {}

\* The definition of autocomplete: the words under the prefix, best first.
Suggestions(prefix, limit) ==
    Best(SetToSeq({words[p] : p \in {q \in DOMAIN words : IsPrefix(prefix, q)}}), limit)

AutocompleteIsRegular(t) ==
    LET answer == job[t].answer
    IN  /\ \A i \in DOMAIN answer :
              answer[i] = EmptyText \/ \E e \in seen[t].met : e[2] = answer[i]
        /\ Len(answer) < job[t].limit /\ ~job[t].skipped =>
              \A k \in seen[t].kept :
                  \E i \in DOMAIN answer : answer[i] = EmptyText \/ Spells(answer[i], k)
        /\ seen[t].quiet => answer = Suggestions(job[t].key, job[t].limit)

\* What a read without the lock still promises (trie.py:53-82): it does not miss a
\* word that was stored all the time and does not report one that never was; when
\* no writer was at work it answers exactly what the words in the trie say.
\* Exempt are: a call that raises; starts_with() of a blank prefix, which is TRUE in an
\* empty trie as well; and of autocomplete() the suggestion "", for a word that is
\* being inserted or deleted.  An autocomplete() may miss words when its answer has
\* such a "" (it may stand for the word missed), when it is as long as the limit, or when
\* the keys of a dictionary it iterated over changed and their number did not (skipped).
ReadsAreRegular ==
    \A t \in Threads : job[t].pc = "done" =>
        \/ job[t].op = "search" /\ SearchIsRegular(t)
        \/ job[t].op = "starts_with" /\ StartsWithIsRegular(t)
        \/ job[t].op = "autocomplete" /\ AutocompleteIsRegular(t)

=============================================================================
