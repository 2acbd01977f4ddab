---------------------------- MODULE SearchProofs ----------------------------
(***************************************************************************)
(* Search has the types it should have and answers rightly, for any number *)
(* of books, workers and reindexings, and whatever fails, dies and         *)
(* overlaps.                                                               *)
(***************************************************************************)
EXTENDS Search, FiniteSetTheorems, TLAPS

-----------------------------------------------------------------------------
(***************************************************************************)
(* Catalogue.                                                              *)
(***************************************************************************)
LEMMA MinOfTwo ==
    ASSUME NEW a \in Int, NEW b \in Int
    PROVE  Min({a, b}) = IF a <= b THEN a ELSE b
  BY DEF Min

\* There are finitely many ids, and no more than there may be books.
LEMMA FiniteIds ==
    ASSUME NEW S \in SUBSET Ids
    PROVE  /\ IsFiniteSet(S) /\ Cardinality(S) \in 0 .. MaxBooks
           /\ S # {} => Cardinality(S) \in Ids
<1>1. IsFiniteSet(Ids) /\ Cardinality(Ids) = MaxBooks
  BY CatalogueAssumption, FS_Interval DEF Ids
<1>2. IsFiniteSet(S) /\ Cardinality(S) <= Cardinality(Ids)
  BY <1>1, FS_Subset, Zenon
<1>3. Cardinality(S) \in Nat /\ (Cardinality(S) = 0 <=> S = {})
  BY <1>2, FS_CardinalityType, FS_EmptySet
<1>4. Cardinality(S) \in 0 .. MaxBooks
  BY <1>1, <1>2, <1>3, CatalogueAssumption
<1>5. Cardinality(S) # 0 => Cardinality(S) \in Ids
  BY <1>4, CatalogueAssumption DEF Ids
<1> QED
  BY <1>2, <1>3, <1>4, <1>5, Zenon

\* The titles taken from a page are new ones, and not more than are needed.
LEMMA TakesFew ==
    ASSUME FeedOK, feed.pc = "fetch", NEW works \in Pages, NEW taken \in TakenFrom(works)
    PROVE  /\ feed.found \cup taken \in SUBSET Titles
           /\ Cardinality(feed.found \cup taken) \in Nat
           /\ Cardinality(feed.found \cup taken) <= feed.needed
<1> DEFINE new == works \ (feed.found \cup {None})
           k == Min({Cardinality(new), feed.needed - Cardinality(feed.found)})
<1>1. /\ feed.found \in SUBSET Titles /\ feed.needed \in Nat
      /\ Cardinality(feed.found) < feed.needed
  BY DEF FeedOK, NoFeed, Ids
<1>2. taken \in kSubset(k, new) /\ new \in SUBSET Titles
  BY Zenon DEF TakenFrom, Pages
<1>3. taken \in SUBSET new /\ Cardinality(taken) = k
  BY <1>2, Zenon DEF kSubset
<1>4. feed.found \in SUBSET Titles /\ taken \in SUBSET Titles /\ feed.found \cap taken = {}
  BY <1>1, <1>2, <1>3
<1> HIDE DEF k, new
<1>5. IsFiniteSet(feed.found) /\ IsFiniteSet(taken) /\ IsFiniteSet(new)
  BY CatalogueAssumption, <1>2, <1>4, FS_Subset, Zenon
<1>6. /\ Cardinality(feed.found) \in Nat /\ Cardinality(taken) \in Nat
      /\ Cardinality(new) \in Nat
  BY <1>5, FS_CardinalityType, Zenon
<1>7. Cardinality(taken) <= feed.needed - Cardinality(feed.found)
  BY <1>1, <1>3, <1>6, MinOfTwo DEF k
<1>8. Cardinality(feed.found \cup taken)
         = Cardinality(feed.found) + Cardinality(taken) - Cardinality({})
  BY <1>4, <1>5, FS_Union, Zenon
<1> QED
  BY <1>1, <1>4, <1>6, <1>7, <1>8, FS_EmptySet

\* A genre is done, or a page was the last one.
LEMMA GenresOK ==
    ASSUME NEW todo \in SUBSET Genres, feed' = WithGenres(todo)
    PROVE  FeedOK'
  BY DEF WithGenres, NoFeed, FeedOK

LEMMA LeaveOK ==
    ASSUME FeedOK, feed.pc = "fetch", NEW found \in SUBSET Titles, feed' = LeaveWith(found)
    PROVE  FeedOK'
  BY DEF LeaveWith, NoFeed, FeedOK

\* A page is followed by another within MaxOffset, while titles are needed.
LEMMA PageOK ==
    ASSUME FeedOK, Page
    PROVE  FeedOK'
<1>1. PICK works \in Pages : \E taken \in TakenFrom(works) :
          GoOn(works, feed.found \cup taken, feed.offset + Batch)
  BY DEF Page
<1>2. PICK taken \in TakenFrom(works) : GoOn(works, feed.found \cup taken, feed.offset + Batch)
  BY <1>1
<1> DEFINE found == feed.found \cup taken
           offset == feed.offset + Batch
<1>3. FeedOK /\ feed.pc = "fetch"
  BY DEF Page
<1>4. found \in SUBSET Titles /\ Cardinality(found) \in Nat /\ Cardinality(found) <= feed.needed
  BY <1>3, TakesFew
<1>5. CASE feed' = LeaveWith(found)
  BY <1>3, <1>4, <1>5, LeaveOK, Zenon
<1>6. CASE /\ feed' = [feed EXCEPT !.found = found, !.offset = offset, !.attempt = 1]
           /\ Cardinality(found) # feed.needed /\ ~ (offset >= MaxOffset)
  <2>1. /\ feed.offset \in 0 .. MaxOffset /\ feed.needed \in Nat
        /\ Cardinality(feed.found) < feed.needed
        /\ feed.found \in SUBSET Titles
    BY <1>3 DEF FeedOK, NoFeed, Ids
  <2>2. Cardinality(feed.found) \in Nat
    BY <2>1, CatalogueAssumption, FS_Subset, FS_CardinalityType, Zenon
  <2>3. Batch \in Nat
    BY <2>1, <2>2, CatalogueAssumption, MinOfTwo DEF Batch
  <2>4. offset \in 0 .. MaxOffset /\ 1 \in 1 .. Attempts /\ Cardinality(found) < feed.needed
    BY <1>4, <1>6, <2>1, <2>3, CatalogueAssumption
  <2> HIDE DEF found, offset
  <2> QED BY <1>3, <1>4, <1>6, <2>4 DEF FeedOK, NoFeed
<1> QED BY <1>2, <1>5, <1>6 DEF GoOn

\* populate_real_books stays within its bounds.
LEMMA FeedTyped ==
    ASSUME CatalogueOK, CatalogueNext
    PROVE  FeedOK'
<1> USE DEF CatalogueOK
<1>1. CASE UNCHANGED feed
  BY <1>1 DEF FeedOK
<1>2. CASE StartFeed
  <2>1. PICK todo \in SUBSET Genres : feed' = WithGenres(todo)
    BY <1>2 DEF StartFeed
  <2> QED BY <2>1, GenresOK
<1>3. ASSUME NEW g \in Genres, NextGenre(g) PROVE FeedOK'
  <2>1. feed.todo \in SUBSET Genres
    BY <1>3 DEF NextGenre, FeedOK, NoFeed
  <2>2. CASE Shelf(g) = {}
    BY <1>3, <2>1, <2>2, GenresOK DEF NextGenre
  <2>3. CASE Shelf(g) # {}
    <3>1. Shelf(g) \in SUBSET Ids
      BY CatalogueAssumption DEF Shelf, Ids
    <3>2. Cardinality(Shelf(g)) \in Ids
      BY <2>3, <3>1, FiniteIds
    <3>3. Cardinality({}) < Cardinality(Shelf(g))
      BY <3>2, FS_EmptySet, CatalogueAssumption DEF Ids
    <3>4. 0 \in 0 .. MaxOffset /\ 1 \in 1 .. Attempts
      BY CatalogueAssumption
    <3> QED BY <1>3, <2>1, <2>3, <3>2, <3>3, <3>4 DEF NextGenre, FeedOK
  <2> QED BY <2>2, <2>3
<1>4. CASE PageError
  <2>1. feed.pc = "fetch" /\ feed.found \in SUBSET Titles
    BY <1>4 DEF PageError, FeedOK, NoFeed
  <2>2. CASE feed' = LeaveWith(feed.found)
    BY <2>1, <2>2, LeaveOK
  <2>3. CASE feed.attempt < Attempts /\ feed' = [feed EXCEPT !.attempt = @ + 1]
    BY <2>1, <2>3, CatalogueAssumption DEF FeedOK, NoFeed
  <2> QED BY <1>4, <2>2, <2>3 DEF PageError
<1>5. CASE Page
  BY <1>5, PageOK
<1>6. CASE ListBooks
  <2>1. feed.todo \in SUBSET Genres /\ feed.found \in SUBSET Titles
    BY <1>6 DEF ListBooks, FeedOK, NoFeed
  <2>2. Shelf(feed.genre) \in SUBSET Ids
    BY CatalogueAssumption DEF Shelf, Ids
  <2>3. CASE feed' = WithGenres(feed.todo)
    BY <2>1, <2>3, GenresOK
  <2> QED BY <1>6, <2>1, <2>2, <2>3 DEF ListBooks, FeedOK
<1>7. ASSUME NEW i \in Ids, NEW t \in Titles, UpdateBook(i, t) PROVE FeedOK'
  <2>1. /\ feed.pc = "update" /\ feed.todo \in SUBSET Genres
        /\ feed.ids \in SUBSET Ids /\ feed.found \in SUBSET Titles
    BY <1>7 DEF UpdateBook, FeedOK, NoFeed
  <2>2. CASE feed' = WithGenres(feed.todo)
    BY <2>1, <2>2, GenresOK
  <2>3. CASE feed' = [feed EXCEPT !.ids = @ \ {i}, !.found = @ \ {t}]
    BY <2>1, <2>3 DEF FeedOK, NoFeed
  <2> QED BY <1>7, <2>2, <2>3 DEF UpdateBook
<1>8. CASE KillFeed
  BY <1>8 DEF KillFeed, FeedOK
<1>9. ASSUME NEW i \in Ids, NEW t \in Titles, CreateBook(t) \/ EditBook(i, t) \/ DeleteBook(i)
      PROVE  FeedOK'
  BY <1>1, <1>9 DEF CreateBook, EditBook, DeleteBook
<1> QED
  BY <1>1, <1>2, <1>3, <1>4, <1>5, <1>6, <1>7, <1>8, <1>9
  DEF CatalogueNext, FeedStep, CreateBook, EditBook, DeleteBook

\* Ids are given out once: a row has been there before, or has the next id.
LEMMA RowsTyped ==
    ASSUME CatalogueOK, CatalogueNext
    PROVE  /\ CatalogueOK'
           /\ nextId <= nextId'
           /\ DOMAIN rows' \subseteq DOMAIN rows \cup {nextId}
<1> USE CatalogueAssumption DEF CatalogueOK, Ids
<1> DEFINE Grown == /\ nextId' \in 1 .. MaxBooks + 1
                    /\ DOMAIN rows' \subseteq 1 .. nextId' - 1
                    /\ rows' \in [DOMAIN rows' -> Titles]
                    /\ nextId <= nextId'
                    /\ DOMAIN rows' \subseteq DOMAIN rows \cup {nextId}
<1>1. ASSUME NEW t \in Titles, CreateBook(t) PROVE Grown
  BY <1>1 DEF CreateBook
<1>2. ASSUME NEW i \in DOMAIN rows, NEW t \in Titles,
             rows' = [rows EXCEPT ![i] = t], UNCHANGED nextId
      PROVE  Grown
  BY <1>2
<1>3. ASSUME NEW i \in Ids, DeleteBook(i) PROVE Grown
  BY <1>3 DEF DeleteBook
<1>4. ASSUME UNCHANGED <<rows, nextId>> PROVE Grown
  BY <1>4
<1>5. Grown
  BY <1>1, <1>2, <1>3, <1>4
  DEF CatalogueNext, FeedStep, EditBook, StartFeed, NextGenre, PageError, Page, ListBooks,
      UpdateBook, KillFeed, table
<1> QED BY <1>5, FeedTyped

-----------------------------------------------------------------------------
(***************************************************************************)
(* What makes the answers right, as an inductive invariant.                *)
(***************************************************************************)

\* Ids are given out once, and nobody knows of a book that was never made.
Given == 1 .. nextId - 1

\* The index has the title the table has.
Current(i) == docs # None /\ i \in DOMAIN docs /\ docs[i] = rows[i]

\* A book is out of date in the index only if no reindexing has seen to it.
IndexInv ==
    /\ docs # None => DOMAIN docs \subseteq Given
    /\ \A i \in DOMAIN rows : i \in unindexed \/ Current(i)

\* A reindexing has the present title of a book in hand, or has brought it to the
\* index, or the book is one it is known to miss.
JobInv(j) ==
    job[j].pc = "index" =>
       /\ DOMAIN job[j].rows \subseteq Given
       /\ \A i \in DOMAIN rows :
             \/ i \in spoiled[j]
             \/ i \in DOMAIN job[j].rows /\ job[j].rows[i] = rows[i]
             \/ i \notin DOMAIN job[j].rows /\ Current(i)

\* What is known of the books while a search runs.
Seen(p) == watch[p].always \subseteq Matching(web[p].query)
           /\ Matching(web[p].query) \subseteq watch[p].ever

\* What Elasticsearch has found holds up when the rows are fetched.
HitsInv(p) ==
    LET hits == web[p].hits
    IN  /\ hits \subseteq Given
        /\ Cardinality(hits) <= Limit
        /\ hits \cap DOMAIN rows \subseteq watch[p].ever \cup watch[p].unindexed
        /\ watch[p].always \subseteq hits \cup watch[p].unindexed \/ Cardinality(hits) = Limit

RightAnswer(p) ==
    \/ web[p].source = "elasticsearch" /\ FromIndex(p)
    \/ web[p].source = "postgresql" /\ FromTable(p)

WebInv(p) ==
    /\ p \in met => client[p] = "yes"
    /\ web[p].pc \in {"query", "like", "filter"} => Seen(p)
    /\ web[p].pc = "filter" => HitsInv(p)
    /\ web[p].pc = "like" /\ p \in met => watch[p].failed
    /\ web[p].pc = "done" => RightAnswer(p)

Watched == [always : SUBSET Ids, ever : SUBSET Ids, unindexed : SUBSET Ids, failed : BOOLEAN]

WatchOK == watch \in [Web -> Watched]

SearchInv == /\ TypeOK /\ WatchOK /\ IndexInv
             /\ \A j \in Jobs : JobInv(j)
             /\ \A p \in Web : WebInv(p)
-----------------------------------------------------------------------------
(***************************************************************************)
(* Lemmas about the operators of the model, and what does not change.      *)
(***************************************************************************)

\* Limit books are shown, or all there are.
LEMMA SomeFit ==
    ASSUME NEW S \in SUBSET Ids, NEW T \in SomeOf(S)
    PROVE  /\ T \in SUBSET S
           /\ Cardinality(T) \in Nat /\ Cardinality(T) <= Limit
           /\ T = S \/ Cardinality(T) = Limit
<1> DEFINE k == Min({Limit, Cardinality(S)})
<1>1. IsFiniteSet(S) /\ Cardinality(S) \in Nat
  BY FiniteIds, CatalogueAssumption
<1>2. k \in Nat /\ k <= Limit /\ (k = Limit \/ k = Cardinality(S))
  BY <1>1, MinOfTwo, SearchAssumption
<1>3. T \in kSubset(k, S)
  BY Zenon DEF SomeOf
<1> HIDE DEF k
<1>4. T \in SUBSET S /\ Cardinality(T) = k
  BY <1>3, Zenon DEF kSubset
<1>5. Cardinality(T) = Cardinality(S) => T = S
  BY <1>1, <1>4, FS_Subset, Zenon
<1> QED BY <1>2, <1>4, <1>5

\* What is in the index or in a reindexing's memory; the table is such a thing.
LEMMA IsDoc ==
    ASSUME NEW d
    PROVE  d \in Docs <=> DOMAIN d \in SUBSET Ids /\ d \in [DOMAIN d -> Titles]
  BY DEF Docs

LEMMA RowsAreDocs ==
    ASSUME CatalogueOK
    PROVE  rows \in Docs /\ DOMAIN rows \subseteq Given /\ Given \in SUBSET Ids
<1>1. DOMAIN rows \subseteq Given /\ Given \in SUBSET Ids /\ rows \in [DOMAIN rows -> Titles]
  BY CatalogueAssumption DEF CatalogueOK, Given, Ids
<1> QED BY <1>1, IsDoc

\* What the index and the table have of a title are ids.
LEMMA MatchesAreIds ==
    ASSUME TypeOK, NEW q
    PROVE  Matching(q) \in SUBSET Ids /\ (docs # None => Hits(q) \in SUBSET Ids)
<1>1. Matching(q) \in SUBSET Ids
  BY RowsAreDocs DEF Matching, TypeOK
<1>2. docs # None => Hits(q) \in SUBSET Ids
  BY IsDoc DEF Hits, TypeOK
<1> QED BY <1>1, <1>2

\* A search goes on undisturbed by what is not its own.
LEMMA OtherSearch ==
    ASSUME NEW p \in Web, WebInv(p), UNCHANGED <<rows, nextId>>,
           UNCHANGED <<web[p], watch[p], client[p]>>, p \in met' <=> p \in met
    PROVE  WebInv(p)'
  BY DEF WebInv, Seen, Matching, HitsInv, Given, RightAnswer, FromIndex, FromTable

\* Nor do a reindexing and the index notice what is not theirs.
LEMMA OtherJob ==
    ASSUME NEW j \in Jobs, JobInv(j), UNCHANGED <<rows, nextId, docs>>,
           UNCHANGED <<job[j], spoiled[j]>>
    PROVE  JobInv(j)'
  BY DEF JobInv, Given, Current

LEMMA SameIndex ==
    ASSUME IndexInv, UNCHANGED <<rows, nextId, docs, unindexed>>
    PROVE  IndexInv'
  BY DEF IndexInv, Given, Current

LEMMA SameCatalogue ==
    ASSUME CatalogueOK, UNCHANGED <<table, feed>>
    PROVE  CatalogueOK'
  BY DEF CatalogueOK, FeedOK, table

-----------------------------------------------------------------------------
(***************************************************************************)
(* Searches.                                                               *)
(***************************************************************************)

\* A step of one search that keeps its own part of the invariant keeps all of it.
LEMMA OneSearch ==
    ASSUME SearchInv, UNCHANGED <<table, feed, docs, job, unindexed, spoiled>>, NEW p \in Web,
           NEW x \in SearchStates, web' = [web EXCEPT ![p] = x],
           NEW a \in {"unknown", "yes", "no"}, client' = [client EXCEPT ![p] = a],
           NEW w \in Watched, watch' = [watch EXCEPT ![p] = w],
           \A q \in Web : q # p => (q \in met' <=> q \in met),
           x.pc \in {"query", "filter"} => a = "yes",
           x.pc = "done" => Cardinality(x.books) <= Limit,
           WebInv(p)'
    PROVE  SearchInv'
<1>1. WatchOK'
  BY DEF SearchInv, WatchOK
<1>2. TypeOK'
  <2>1. CatalogueOK'
    BY SameCatalogue DEF SearchInv, TypeOK
  <2>2. /\ client' \in [Web -> {"unknown", "yes", "no"}] /\ web' \in [Web -> SearchStates]
        /\ \A q \in Web : /\ web'[q].pc \in {"query", "filter"} => client'[q] = "yes"
                          /\ web'[q].pc = "done" => Cardinality(web'[q].books) <= Limit
    BY DEF SearchInv, TypeOK
  <2> QED BY <2>1, <2>2 DEF SearchInv, TypeOK
<1>3. IndexInv' /\ \A j \in Jobs : JobInv(j)'
  BY SameIndex, OtherJob DEF SearchInv, table
<1>4. ASSUME NEW q \in Web PROVE WebInv(q)'
  <2>1. CASE q # p
    <3>1. UNCHANGED <<web[q], watch[q], client[q], rows, nextId>>
      BY <2>1 DEF SearchInv, TypeOK, WatchOK, table
    <3> QED BY <2>1, <3>1, OtherSearch DEF SearchInv
  <2> QED BY <2>1
<1> QED BY <1>1, <1>2, <1>3, <1>4 DEF SearchInv

\* A search begins with the books that match; a worker that has reached Elasticsearch
\* has its client.
LEMMA SearchKeeps ==
    ASSUME SearchInv, NEW p \in Web, NEW q \in Titles, Search(p, q)
    PROVE  SearchInv'
<1>1. PICK a \in IF client[p] = "unknown" THEN {"yes", "no"} ELSE {client[p]} :
         /\ client' = [client EXCEPT ![p] = a]
         /\ met' = IF a = "yes" THEN met \cup {p} ELSE met
         /\ web' = [web EXCEPT ![p] = [query |-> q, pc |-> IF a = "yes" THEN "query" ELSE "like"]]
  BY DEF Search
<1> DEFINE x == [query |-> q, pc |-> IF a = "yes" THEN "query" ELSE "like"]
           w == [NoWatch EXCEPT !.always = Matching(q), !.ever = Matching(q)]
<1>2. /\ UNCHANGED <<table, feed, docs, job, unindexed, spoiled>>
      /\ watch' = [watch EXCEPT ![p] = w]
  BY DEF Search
<1>3. x \in SearchStates /\ w \in Watched /\ a \in {"unknown", "yes", "no"}
  BY MatchesAreIds DEF SearchInv, TypeOK, SearchStates, NoWatch, Watched
<1>4. p \in met => client[p] = "yes"
  BY DEF SearchInv, WebInv
<1>5. WebInv(p)'
  <2>1. web'[p] = x /\ watch'[p] = w /\ client'[p] = a /\ UNCHANGED rows
    BY <1>1, <1>2 DEF SearchInv, TypeOK, WatchOK, table
  <2>2. Seen(p)'
    BY <2>1 DEF Seen, Matching, NoWatch
  <2> QED BY <1>1, <1>4, <2>1, <2>2 DEF WebInv
<1>6. \A r \in Web : r # p => (r \in met' <=> r \in met)
  BY <1>1
<1>7. (x.pc \in {"query", "filter"} => a = "yes") /\ x.pc # "done"
  OBVIOUS
<1> HIDE DEF x, w
<1> QED BY <1>1, <1>2, <1>3, <1>5, <1>6, <1>7, OneSearch DEF x

\* What Elasticsearch finds: a book that was not found has another title, or nobody
\* has brought it up to date.
LEMMA HitsHold ==
    ASSUME SearchInv, NEW p \in Web, docs # None, web[p].pc = "query",
           NEW hits \in SomeOf(Hits(web[p].query)),
           UNCHANGED <<rows, nextId>>, web'[p].hits = hits,
           watch'[p].always = watch[p].always, watch'[p].ever = watch[p].ever,
           watch'[p].unindexed = unindexed \cap (hits \cup watch[p].always)
    PROVE  HitsInv(p)'
<1> DEFINE q == web[p].query
<1>1. /\ watch[p].always \subseteq Matching(q) /\ Matching(q) \subseteq watch[p].ever
      /\ DOMAIN docs \subseteq Given /\ \A i \in DOMAIN rows : i \in unindexed \/ Current(i)
  BY DEF SearchInv, WebInv, Seen, IndexInv
<1>2. /\ hits \subseteq Hits(q) /\ Cardinality(hits) <= Limit
      /\ hits = Hits(q) \/ Cardinality(hits) = Limit
  BY SomeFit, MatchesAreIds DEF SearchInv
<1>3. hits \subseteq Given
  BY <1>1, <1>2 DEF Hits
<1>4. hits \cap DOMAIN rows
        \subseteq watch[p].ever \cup (unindexed \cap (hits \cup watch[p].always))
  <2> SUFFICES ASSUME NEW i \in hits \cap DOMAIN rows, i \notin unindexed PROVE i \in Matching(q)
    BY <1>1
  <2> QED BY <1>1, <1>2 DEF Current, Hits, Matching
<1>5. hits = Hits(q)
        => watch[p].always \subseteq hits \cup (unindexed \cap (hits \cup watch[p].always))
  BY <1>1 DEF Current, Hits, Matching
<1> QED BY <1>2, <1>3, <1>4, <1>5 DEF HitsInv, Given

\* Elasticsearch answers, or fails and the table is asked.
LEMMA QueryKeeps ==
    ASSUME SearchInv, NEW p \in Web, Query(p)
    PROVE  SearchInv'
<1>1. /\ UNCHANGED <<table, feed, docs, client, job, unindexed, spoiled, met>>
      /\ web[p].pc = "query" /\ web[p].query \in Titles /\ client[p] = "yes"
      /\ client' = [client EXCEPT ![p] = client[p]] /\ client[p] \in {"unknown", "yes", "no"}
      /\ Seen(p) /\ watch[p] \in Watched
  BY DEF Query, SearchInv, TypeOK, SearchStates, Idle, WebInv, WatchOK
<1>2. ASSUME docs # None, NEW hits \in SomeOf(Hits(web[p].query)),
             web' = [web EXCEPT ![p] = [pc |-> "filter", query |-> web[p].query, hits |-> hits]],
             watch' = [watch EXCEPT ![p].unindexed = unindexed \cap (hits \cup watch[p].always)]
      PROVE  SearchInv'
  <2> DEFINE x == [pc |-> "filter", query |-> web[p].query, hits |-> hits]
             w == [watch[p] EXCEPT !.unindexed = unindexed \cap (hits \cup watch[p].always)]
  <2>1. hits \in SUBSET Ids
    BY <1>2, SomeFit, MatchesAreIds DEF SearchInv
  <2>2. x \in SearchStates /\ w \in Watched
    BY <1>1, <2>1 DEF SearchStates, Watched
  <2>3. watch' = [watch EXCEPT ![p] = w] /\ web'[p] = x /\ watch'[p] = w
    BY <1>2 DEF SearchInv, TypeOK, WatchOK
  <2>4. w.always = watch[p].always /\ w.ever = watch[p].ever
        /\ w.unindexed = unindexed \cap (hits \cup watch[p].always)
    BY <1>1 DEF Watched
  <2>5. HitsInv(p)' /\ Seen(p)'
    <3>1. UNCHANGED <<rows, nextId>> /\ web'[p].hits = hits
      BY <1>1, <2>3 DEF table
    <3>2. /\ watch'[p].always = watch[p].always /\ watch'[p].ever = watch[p].ever
          /\ watch'[p].unindexed = unindexed \cap (hits \cup watch[p].always)
      BY <2>3, <2>4
    <3>3. HitsInv(p)'
      BY <1>1, <1>2, <3>1, <3>2, HitsHold
    <3>4. Seen(p)'
      BY <1>1, <2>3, <2>4 DEF Seen, Matching, table
    <3> QED BY <3>3, <3>4
  <2>6. WebInv(p)'
    BY <1>1, <2>3, <2>5 DEF WebInv
  <2>7. x.pc = "filter"
    OBVIOUS
  <2> HIDE DEF x, w
  <2> QED BY <1>1, <1>2, <2>2, <2>3, <2>6, <2>7, OneSearch DEF x
<1>3. ASSUME InSearch(p, "like"), Fails(p) PROVE SearchInv'
  <2> DEFINE x == [pc |-> "like", query |-> web[p].query]
             w == [watch[p] EXCEPT !.failed = TRUE]
  <2>1. x \in SearchStates /\ w \in Watched
    BY <1>1 DEF SearchStates, Watched
  <2>2. /\ web' = [web EXCEPT ![p] = x] /\ watch' = [watch EXCEPT ![p] = w]
        /\ web'[p] = x /\ watch'[p] = w
    BY <1>3 DEF InSearch, Fails, SearchInv, TypeOK, WatchOK
  <2>3. w.always = watch[p].always /\ w.ever = watch[p].ever /\ w.failed = TRUE
    BY <1>1 DEF Watched
  <2>4. Seen(p)'
    BY <1>1, <2>2, <2>3 DEF Seen, Matching, table
  <2>5. watch'[p].failed = TRUE /\ web'[p].pc = "like" /\ client'[p] = "yes"
    <3>1. watch'[p].failed = TRUE
      BY <2>2, <2>3, Zenon
    <3>2. web'[p].pc = "like"
      BY <2>2
    <3>3. client'[p] = "yes"
      BY <1>1
    <3> QED BY <3>1, <3>2, <3>3
  <2>6. WebInv(p)'
    BY <2>4, <2>5, Zenon DEF WebInv
  <2>7. x.pc = "like"
    OBVIOUS
  <2> HIDE DEF x, w
  <2> QED BY <1>1, <2>1, <2>2, <2>6, <2>7, OneSearch
<1> QED BY <1>1, <1>2, <1>3 DEF Query

\* A step that leaves the history and the client of its worker alone.
LEMMA OneAnswer ==
    ASSUME SearchInv, UNCHANGED <<table, feed, docs, client, job, history>>, NEW p \in Web,
           NEW x \in SearchStates, web' = [web EXCEPT ![p] = x], x.pc = "done",
           Cardinality(x.books) <= Limit, RightAnswer(p)'
    PROVE  SearchInv'
<1>1. /\ client[p] \in {"unknown", "yes", "no"} /\ client' = [client EXCEPT ![p] = client[p]]
      /\ watch[p] \in Watched /\ watch' = [watch EXCEPT ![p] = watch[p]]
      /\ p \in met => client[p] = "yes"
  BY DEF SearchInv, TypeOK, WatchOK, WebInv, history
<1>2. web'[p] = x
  BY DEF SearchInv, TypeOK
<1>3. WebInv(p)'
  BY <1>1, <1>2 DEF WebInv, history
<1> QED BY <1>1, <1>3, OneSearch DEF history

\* Deleted books leave a gap in the answer, which misses nothing but those.
LEMMA FilterKeeps ==
    ASSUME SearchInv, NEW p \in Web, Filter(p)
    PROVE  SearchInv'
<1> DEFINE hits == web[p].hits
           books == hits \cap DOMAIN rows
           x == [pc |-> "done", source |-> "elasticsearch", hits |-> hits, books |-> books]
<1>1. web[p].pc = "filter" /\ hits \in SUBSET Ids /\ Seen(p) /\ HitsInv(p)
  BY DEF Filter, SearchInv, TypeOK, SearchStates, Idle, WebInv
<1>2. x \in SearchStates
  BY <1>1 DEF SearchStates
<1>3. Cardinality(books) <= Limit
  <2>1. IsFiniteSet(hits) /\ Cardinality(hits) \in Nat
    BY <1>1, FiniteIds, CatalogueAssumption
  <2>2. IsFiniteSet(books) /\ Cardinality(books) <= Cardinality(hits)
    BY <2>1, FS_Subset
  <2>3. Cardinality(books) \in Nat
    BY <2>2, FS_CardinalityType
  <2> QED BY <1>1, <2>1, <2>2, <2>3, SearchAssumption DEF HitsInv
<1>4. web' = [web EXCEPT ![p] = x] /\ web'[p] = x /\ UNCHANGED watch
  BY DEF Filter, Answer, SearchInv, TypeOK, history
<1>5. /\ books \subseteq watch[p].ever \cup watch[p].unindexed
      /\ watch[p].always \subseteq books \cup watch[p].unindexed \/ Cardinality(hits) = Limit
  BY <1>1 DEF HitsInv, Seen, Matching
<1>6. RightAnswer(p)'
  BY <1>4, <1>5 DEF RightAnswer, FromIndex
<1> QED BY <1>2, <1>3, <1>4, <1>6, OneAnswer DEF Filter

\* The table has the matches of now.
LEMMA LikeKeeps ==
    ASSUME SearchInv, NEW p \in Web, Like(p)
    PROVE  SearchInv'
<1>1. /\ web[p].pc = "like" /\ Seen(p) /\ (p \in met => watch[p].failed)
      /\ UNCHANGED <<table, feed, docs, client, job, history>>
  BY DEF Like, SearchInv, WebInv
<1>2. PICK books \in SomeOf(Matching(web[p].query)) :
          web' = [web EXCEPT ![p] =
                    [pc |-> "done", source |-> "postgresql", hits |-> books, books |-> books]]
  BY DEF Like, Answer
<1> DEFINE x == [pc |-> "done", source |-> "postgresql", hits |-> books, books |-> books]
<1>3. /\ books \in SUBSET Matching(web[p].query) /\ Cardinality(books) <= Limit
      /\ books = Matching(web[p].query) \/ Cardinality(books) = Limit
      /\ books \in SUBSET Ids
  BY SomeFit, MatchesAreIds DEF SearchInv
<1>4. x \in SearchStates
  BY <1>3 DEF SearchStates
<1>5. web'[p] = x /\ UNCHANGED <<watch, met>>
  BY <1>1, <1>2 DEF SearchInv, TypeOK, history
<1>6. /\ books \subseteq watch[p].ever
      /\ watch[p].always \subseteq books \/ Cardinality(books) = Limit
  BY <1>1, <1>3 DEF Seen
<1>7. RightAnswer(p)'
  BY <1>1, <1>5, <1>6 DEF RightAnswer, FromTable
<1> QED BY <1>1, <1>2, <1>3, <1>4, <1>7, OneAnswer

\* A worker is done with its search, or replaced.
LEMMA ReturnKeeps ==
    ASSUME SearchInv, NEW p \in Web, Return(p) \/ Restart(p)
    PROVE  SearchInv'
<1>1. /\ UNCHANGED <<table, feed, docs, job, unindexed, spoiled>>
      /\ web' = [web EXCEPT ![p] = Idle] /\ watch' = [watch EXCEPT ![p] = NoWatch]
      /\ \A q \in Web : q # p => (q \in met' <=> q \in met)
  BY DEF Return, Restart
<1>2. PICK a \in {"unknown", "yes", "no"} :
         client' = [client EXCEPT ![p] = a] /\ (p \in met' => a = "yes")
  <2>1. CASE Return(p)
    BY <2>1 DEF Return, SearchInv, TypeOK, WebInv
  <2>2. CASE Restart(p)
    BY <2>2 DEF Restart
  <2> QED BY <2>1, <2>2
<1>3. Idle \in SearchStates /\ NoWatch \in Watched /\ Idle.pc = "idle"
  BY DEF SearchStates, NoWatch, Watched, Idle
<1>4. WebInv(p)'
  <2>1. client'[p] = a /\ web'[p].pc = "idle"
    BY <1>1, <1>2, <1>3 DEF SearchInv, TypeOK
  <2> QED BY <1>2, <2>1 DEF WebInv
<1> QED BY <1>1, <1>2, <1>3, <1>4, OneSearch

-----------------------------------------------------------------------------
(***************************************************************************)
(* Reindexings.                                                            *)
(***************************************************************************)

\* A step that leaves the searches and the books alone.
LEMMA NoSearch ==
    ASSUME SearchInv, UNCHANGED <<table, feed, client, web, met, watch>>,
           docs' \in {None} \cup Docs, docs # None => docs' # None,
           job' \in [Jobs -> JobStates], unindexed' \subseteq Ids,
           spoiled' \in [Jobs -> SUBSET Ids],
           \A j \in Jobs : job'[j].pc = "index" => docs' # None,
           IndexInv', \A j \in Jobs : JobInv(j)'
    PROVE  SearchInv'
<1>1. CatalogueOK'
  BY SameCatalogue DEF SearchInv, TypeOK
<1>2. TypeOK' /\ WatchOK'
  BY <1>1 DEF SearchInv, TypeOK, WatchOK
<1>3. ASSUME NEW p \in Web PROVE WebInv(p)'
  BY <1>3, OtherSearch DEF SearchInv, table
<1> QED BY <1>2, <1>3 DEF SearchInv

\* A reindexing that reads the table has all of it.
LEMMA ReadKeeps ==
    ASSUME SearchInv, NEW j \in Jobs, ReadBooks(j), UNCHANGED <<rows, nextId>>
    PROVE  JobInv(j)'
<1>1. job'[j] = [pc |-> "index", rows |-> rows]
  BY DEF ReadBooks, SearchInv, TypeOK
<1>2. DOMAIN rows \subseteq Given
  BY RowsAreDocs DEF SearchInv, TypeOK
<1> QED BY <1>1, <1>2 DEF JobInv, Given

\* A reindexing begins with the table if there is an index.
LEMMA StartKeeps ==
    ASSUME SearchInv, NEW j \in Jobs, StartReindex(j)
    PROVE  SearchInv'
<1>1. /\ UNCHANGED <<table, feed, docs, client, web, met, watch, unindexed, spoiled>>
      /\ \/ docs = None /\ InJob(j, "create")
         \/ docs # None /\ ReadBooks(j)
  BY DEF StartReindex, history
<1>2. rows \in Docs
  BY RowsAreDocs DEF SearchInv, TypeOK
<1>3. job' \in [Jobs -> JobStates] /\ \A k \in Jobs : job'[k].pc = "index" => docs # None
  BY <1>1, <1>2 DEF InJob, ReadBooks, JobStates, SearchInv, TypeOK
<1>4. IndexInv'
  BY <1>1, SameIndex DEF SearchInv, table
<1>5. ASSUME NEW k \in Jobs PROVE JobInv(k)'
  <2>1. CASE k # j
    <3>1. UNCHANGED <<job[k], spoiled[k], rows, nextId, docs>>
      BY <1>1, <2>1 DEF InJob, ReadBooks, SearchInv, TypeOK, table
    <3> QED BY <3>1, OtherJob DEF SearchInv
  <2>2. CASE k = j /\ ReadBooks(j)
    BY <1>1, <2>2, ReadKeeps DEF table
  <2>3. CASE k = j /\ InJob(j, "create")
    BY <2>3 DEF InJob, JobInv, SearchInv, TypeOK
  <2> QED BY <1>1, <2>1, <2>2, <2>3
<1> QED BY <1>1, <1>3, <1>4, <1>5, NoSearch DEF SearchInv, TypeOK

\* A new index has no book, and nobody is writing to it yet.
LEMMA CreateKeeps ==
    ASSUME SearchInv, NEW j \in Jobs, CreateIndex(j)
    PROVE  SearchInv'
<1>1. UNCHANGED <<table, feed, client, web, met, watch, unindexed, spoiled>>
  BY DEF CreateIndex, history
<1>2. CASE docs = None /\ docs' = [i \in {} |-> None] /\ ReadBooks(j)
  <2>1. DOMAIN docs' = {} /\ docs' \in Docs /\ docs' # None
    BY <1>2, SearchAssumption, IsDoc
  <2>2. rows \in Docs
    BY RowsAreDocs DEF SearchInv, TypeOK
  <2>3. job' \in [Jobs -> JobStates]
    BY <1>2, <2>2 DEF ReadBooks, JobStates, SearchInv, TypeOK
  <2>4. IndexInv'
    BY <1>1, <1>2, <2>1 DEF IndexInv, Current, SearchInv, table
  <2>5. ASSUME NEW k \in Jobs PROVE JobInv(k)'
    <3>1. CASE k # j
      <4>1. job[k].pc # "index" /\ job'[k] = job[k]
        BY <1>2, <3>1 DEF SearchInv, TypeOK, ReadBooks
      <4> QED BY <4>1 DEF JobInv
    <3>2. CASE k = j
      BY <1>1, <1>2, <3>2, ReadKeeps DEF table
    <3> QED BY <3>1, <3>2
  <2> QED BY <1>1, <2>1, <2>3, <2>4, <2>5, NoSearch DEF SearchInv, TypeOK
<1>3. CASE InJob(j, "idle") /\ UNCHANGED docs
  <2>1. job' \in [Jobs -> JobStates] /\ \A k \in Jobs : job'[k].pc = "index" => docs # None
    BY <1>3 DEF InJob, JobStates, SearchInv, TypeOK
  <2>2. IndexInv'
    BY <1>1, <1>3, SameIndex DEF SearchInv, table
  <2>3. ASSUME NEW k \in Jobs PROVE JobInv(k)'
    <3>1. CASE k # j
      <4>1. UNCHANGED <<job[k], spoiled[k], rows, nextId, docs>>
        BY <1>1, <1>3, <3>1 DEF InJob, SearchInv, TypeOK, table
      <4> QED BY <4>1, OtherJob DEF SearchInv
    <3>2. CASE k = j
      BY <1>3, <3>2 DEF InJob, JobInv, SearchInv, TypeOK
    <3> QED BY <3>1, <3>2
  <2> QED BY <1>1, <1>3, <2>1, <2>2, <2>3, NoSearch DEF SearchInv, TypeOK
<1> QED BY <1>2, <1>3 DEF CreateIndex

\* A book that was sent is up to date, or one that the reindexing is known to miss; in
\* that case the index gets behind, for every reindexing that has sent the book before.
LEMMA IndexKeeps ==
    ASSUME SearchInv, NEW j \in Jobs, NEW i \in Ids, IndexBook(j, i)
    PROVE  SearchInv'
<1>1. /\ UNCHANGED <<table, feed, client, web, met, watch>>
      /\ job[j].pc = "index" /\ i \in DOMAIN job[j].rows /\ docs \in Docs /\ docs # None
      /\ job[j].rows \in Docs /\ unindexed \subseteq Ids /\ spoiled \in [Jobs -> SUBSET Ids]
      /\ UNCHANGED <<rows, nextId>>
  BY DEF IndexBook, SearchInv, TypeOK, JobStates, table
<1> DEFINE rest == [k \in DOMAIN job[j].rows \ {i} |-> job[j].rows[k]]
<1>2. /\ DOMAIN rest = DOMAIN job[j].rows \ {i}
      /\ \A k \in DOMAIN rest : rest[k] = job[j].rows[k]
      /\ rest \in Docs
  BY <1>1, IsDoc
<1> HIDE DEF rest
<1>3. job' = [job EXCEPT ![j] = [pc |-> "index", rows |-> rest]]
  <2>1. job[j] \in [pc : {"index"}, rows : Docs]
    BY <1>1 DEF SearchInv, TypeOK, JobStates
  <2>2. job' = [job EXCEPT ![j].rows = rest]
    BY DEF IndexBook, Done, rest
  <2>3. [job[j] EXCEPT !.rows = rest] = [pc |-> "index", rows |-> rest]
    BY <2>1
  <2> QED BY <2>2, <2>3
<1>4. /\ job' \in [Jobs -> JobStates] /\ job'[j].pc = "index" /\ job'[j].rows = rest
      /\ \A k \in Jobs : job'[k].pc = job[k].pc /\ (k # j => job'[k] = job[k])
  BY <1>1, <1>2, <1>3 DEF JobStates, SearchInv, TypeOK
<1>5. JobInv(j) /\ IndexInv /\ DOMAIN rows \subseteq Ids
  BY RowsAreDocs DEF SearchInv, TypeOK
<1>6. CASE /\ docs' = [k \in DOMAIN docs \cup {i} |-> IF k = i THEN job[j].rows[i] ELSE docs[k]]
           /\ Outdate(j, i)
  <2>1. /\ DOMAIN docs' = DOMAIN docs \cup {i} /\ docs'[i] = job[j].rows[i]
        /\ \A k \in DOMAIN docs \ {i} : docs'[k] = docs[k]
        /\ docs' \in Docs /\ docs' # None
    BY <1>1, <1>6, IsDoc, SearchAssumption
  <2> DEFINE old == {i} \cap spoiled[j] \cap DOMAIN rows
  <2>2. /\ unindexed' = unindexed \cup old
        /\ spoiled' \in [Jobs -> SUBSET Ids]
        /\ \A k \in Jobs : spoiled[k] \subseteq spoiled'[k]
        /\ \A k \in Jobs : job[k].pc = "index" /\ i \notin DOMAIN job[k].rows
                              => old \subseteq spoiled'[k]
    BY <1>1, <1>6 DEF Outdate
  <2>3. i \in DOMAIN rows => i \in spoiled[j] \/ job[j].rows[i] = rows[i]
    BY <1>1, <1>5 DEF JobInv
  <2>4. \A k \in DOMAIN rows : k # i /\ Current(k) => Current(k)'
    BY <1>1, <2>1 DEF Current
  <2>5. i \in DOMAIN rows => i \in old \/ Current(i)'
    BY <1>1, <2>1, <2>3 DEF Current
  <2>6. IndexInv'
    BY <1>1, <1>5, <2>1, <2>2, <2>4, <2>5 DEF IndexInv, Given, JobInv
  <2>7. ASSUME NEW k \in Jobs PROVE JobInv(k)'
    BY <1>1, <1>2, <1>4, <2>1, <2>2, <2>3, <2>4, <2>5, <2>7 DEF JobInv, Given, SearchInv
  <2> QED BY <1>1, <1>4, <2>1, <2>2, <2>6, <2>7, NoSearch
<1>7. CASE /\ spoiled' = [spoiled EXCEPT ![j] = @ \cup ({i} \cap DOMAIN rows)]
           /\ UNCHANGED <<docs, unindexed>>
  <2>1. IndexInv'
    BY <1>1, <1>5, <1>7, SameIndex
  <2>2. spoiled' \in [Jobs -> SUBSET Ids] /\ \A k \in Jobs : spoiled[k] \subseteq spoiled'[k]
    BY <1>1, <1>5, <1>7
  <2>3. ASSUME NEW k \in Jobs PROVE JobInv(k)'
    <3>1. CASE k = j
      BY <1>1, <1>2, <1>4, <1>5, <1>7, <2>2, <3>1 DEF JobInv, Given, Current
    <3>2. CASE k # j
      BY <1>1, <1>4, <1>7, <3>2, OtherJob DEF SearchInv
    <3> QED BY <3>1, <3>2
  <2> QED BY <1>1, <1>4, <1>7, <2>1, <2>2, <2>3, NoSearch DEF SearchInv, TypeOK
<1> QED BY <1>6, <1>7 DEF IndexBook

\* When a reindexing ends, the books it was not known to miss are up to date.
LEMMA EndKeeps ==
    ASSUME SearchInv, NEW j \in Jobs, EndReindex(j) \/ KillReindex(j)
    PROVE  SearchInv'
<1>1. /\ UNCHANGED <<table, feed, docs, client, web, met, watch, rows, nextId>>
      /\ EndJob(j)
  BY DEF EndReindex, KillReindex, table
<1>2. /\ job' \in [Jobs -> JobStates] /\ spoiled' \in [Jobs -> SUBSET Ids]
      /\ job'[j].pc = "idle" /\ \A k \in Jobs : k # j => UNCHANGED <<job[k], spoiled[k]>>
  BY <1>1 DEF EndJob, InJob, JobStates, SearchInv, TypeOK
<1>3. unindexed' \subseteq Ids /\ IndexInv'
  <2>1. CASE KillReindex(j)
    BY <1>1, <2>1, SameIndex DEF KillReindex, SearchInv, TypeOK
  <2>2. CASE EndReindex(j)
    BY <1>1, <2>2 DEF EndReindex, SearchInv, TypeOK, IndexInv, JobInv, Current, Given
  <2> QED BY <2>1, <2>2
<1>4. ASSUME NEW k \in Jobs PROVE JobInv(k)'
  <2>1. CASE k = j
    BY <1>2, <2>1 DEF JobInv
  <2>2. CASE k # j
    BY <1>1, <1>2, <2>2, OtherJob DEF SearchInv
  <2> QED BY <2>1, <2>2
<1>5. \A k \in Jobs : job'[k].pc = "index" => docs' # None
  BY <1>1, <1>2 DEF SearchInv, TypeOK
<1> QED BY <1>1, <1>2, <1>3, <1>4, <1>5, NoSearch DEF SearchInv, TypeOK

-----------------------------------------------------------------------------
(***************************************************************************)
(* The catalogue changes, and nothing else notices.                        *)
(***************************************************************************)
\* Ids are only ever added.
LEMMA RangesGrow ==
    ASSUME NEW a \in Int, NEW b \in Int, a <= b
    PROVE  1 .. a - 1 \subseteq 1 .. b - 1
  OBVIOUS

\* No id is given out twice: a book that was made before and is there now was there
\* all along, and one that was not written is as it was.
LEMMA NotWritten ==
    ASSUME SearchInv, Write
    PROVE  /\ CatalogueOK' /\ rows' \in Docs /\ DOMAIN rows' \subseteq Ids
           /\ Given \subseteq Given'
           /\ \A i \in Given : i \in DOMAIN rows' => i \in DOMAIN rows
           /\ \A i \in DOMAIN rows' \ Written : i \in DOMAIN rows /\ rows'[i] = rows[i]
<1>1. /\ CatalogueOK' /\ CatalogueOK /\ nextId <= nextId'
      /\ DOMAIN rows' \subseteq DOMAIN rows \cup {nextId}
  BY RowsTyped DEF Write, SearchInv, TypeOK
<1>2. rows' \in Docs /\ DOMAIN rows' \subseteq Ids
  BY <1>1, IsDoc, CatalogueAssumption DEF CatalogueOK, Ids
<1>3. nextId \in Int /\ nextId' \in Int
  BY <1>1, CatalogueAssumption DEF CatalogueOK
<1>4. 1 .. nextId - 1 \subseteq 1 .. nextId' - 1
  BY <1>1, <1>3, RangesGrow, Zenon
<1>5. nextId \notin 1 .. nextId - 1
  BY <1>3
<1> QED BY <1>1, <1>2, <1>4, <1>5 DEF Written, Given

\* A search that runs takes note of the books that match now, and may miss those that
\* no longer do.
LEMMA WriteSeen ==
    ASSUME SearchInv, Write, NEW p \in Web
    PROVE  watch'[p] \in Watched /\ WebInv(p)'
<1>1. /\ UNCHANGED <<docs, client, web, job, met>> /\ watch[p] \in Watched
      /\ watch'[p] = IF web[p].pc \in {"idle", "done"} THEN watch[p]
                     ELSE [watch[p] EXCEPT !.always = @ \cap Matching(web[p].query)',
                                           !.ever = @ \cup Matching(web[p].query)']
      /\ WebInv(p)
  BY DEF Write, Elsewhere, Observe, SearchInv, WatchOK
<1>2. CASE web[p].pc \in {"idle", "done"}
  BY <1>1, <1>2 DEF WebInv, RightAnswer, FromIndex, FromTable
<1>3. CASE web[p].pc \in {"query", "like", "filter"}
  <2> DEFINE now == Matching(web[p].query)'
  <2>1. now \in SUBSET Ids /\ now = {i \in DOMAIN rows' : rows'[i] = web[p].query}
    BY <1>1, NotWritten DEF Matching
  <2> HIDE DEF now
  <2>2. watch'[p] = [watch[p] EXCEPT !.always = @ \cap now, !.ever = @ \cup now]
    BY <1>1, <1>3 DEF now
  <2>3. /\ watch'[p] \in Watched
        /\ watch'[p].always = watch[p].always \cap now
        /\ watch'[p].ever = watch[p].ever \cup now
        /\ watch'[p].unindexed = watch[p].unindexed
        /\ watch'[p].failed = watch[p].failed
    <3>1. watch[p] \in Watched
      BY <1>1
    <3>2. DOMAIN watch[p] = {"always", "ever", "unindexed", "failed"}
      BY <3>1 DEF Watched
    <3>3. /\ watch'[p].always = watch[p].always \cap now
          /\ watch'[p].ever = watch[p].ever \cup now
          /\ watch'[p].unindexed = watch[p].unindexed
      BY <2>2, <3>2
    <3>4. watch'[p].failed = watch[p].failed
      BY <2>2, <3>2, Zenon
    <3>5. watch'[p] \in Watched
      BY <2>1, <2>2, <3>1 DEF Watched
    <3> QED BY <3>3, <3>4, <3>5
  <2>4. Seen(p)'
    BY <2>3 DEF Seen, now
  <2>5. web[p].pc = "filter" => HitsInv(p)'
    <3> SUFFICES ASSUME HitsInv(p) PROVE HitsInv(p)'
      BY <1>1 DEF WebInv
    <3>1. web[p].hits \subseteq Given' /\ web[p].hits \cap DOMAIN rows' \subseteq DOMAIN rows
      BY NotWritten DEF HitsInv
    <3> QED BY <1>1, <2>3, <3>1 DEF HitsInv
  <2> QED BY <1>1, <1>3, <2>3, <2>4, <2>5 DEF WebInv
<1>4. web[p].pc \in {"idle", "done", "query", "like", "filter"}
  BY DEF SearchInv, TypeOK, SearchStates, Idle
<1> QED BY <1>2, <1>3, <1>4

\* A change makes a book one that nobody has brought up to date, and that every
\* reindexing that runs will miss.
LEMMA WriteKeeps ==
    ASSUME SearchInv, Write
    PROVE  SearchInv'
<1>1. /\ UNCHANGED <<docs, client, web, job, met>>
      /\ unindexed' = (unindexed \cup Written) \cap DOMAIN rows'
      /\ spoiled' = [j \in Jobs |-> IF job[j].pc = "index"
                                    THEN (spoiled[j] \cup Written) \cap DOMAIN rows'
                                    ELSE {}]
      /\ DOMAIN watch' = Web /\ watch' \in [Web -> Watched]
  <2>1. /\ UNCHANGED <<docs, client, web, job, met>> /\ Observe
    BY DEF Write, Elsewhere
  <2>2. DOMAIN watch' = Web /\ watch' = [p \in Web |-> watch'[p]]
    BY <2>1 DEF Observe
  <2>3. watch' \in [Web -> Watched]
    BY <2>2, WriteSeen
  <2> QED BY <2>1, <2>2, <2>3 DEF Observe
<1>2. \A p \in Web : WebInv(p)'
  BY WriteSeen
<1>3. unindexed' \subseteq Ids /\ spoiled' \in [Jobs -> SUBSET Ids]
  BY <1>1, NotWritten
<1>4. TypeOK' /\ WatchOK'
  BY <1>1, <1>3, NotWritten DEF SearchInv, TypeOK, WatchOK
<1>5. \A i \in DOMAIN rows' : i \in Written \/ (i \in DOMAIN rows /\ (Current(i) => Current(i)'))
  BY <1>1, NotWritten DEF Current
<1>6. IndexInv'
  BY <1>1, <1>5, NotWritten DEF IndexInv, SearchInv
<1>7. ASSUME NEW j \in Jobs PROVE JobInv(j)'
  <2> SUFFICES ASSUME job[j].pc = "index", JobInv(j) PROVE JobInv(j)'
    BY <1>1 DEF SearchInv, JobInv
  <2>1. spoiled'[j] = (spoiled[j] \cup Written) \cap DOMAIN rows'
    BY <1>1
  <2> QED BY <1>1, <1>5, <2>1, NotWritten DEF JobInv
<1> QED BY <1>2, <1>4, <1>6, <1>7 DEF SearchInv

-----------------------------------------------------------------------------
(***************************************************************************)
(* The theorems.                                                           *)
(***************************************************************************)
LEMMA SearchInit ==
    ASSUME Init
    PROVE  SearchInv
<1>1. CatalogueOK
  BY CatalogueAssumption DEF Init, CatalogueInit, CatalogueOK, FeedOK
<1>2. TypeOK /\ WatchOK
  BY <1>1 DEF Init, TypeOK, Idle, SearchStates, JobStates, WatchOK, Watched, NoWatch
<1>3. DOMAIN rows = {}
  BY DEF Init, CatalogueInit
<1> QED BY <1>2, <1>3 DEF Init, SearchInv, IndexInv, JobInv, WebInv, Idle

LEMMA SearchNext ==
    ASSUME SearchInv, [Next]_vars
    PROVE  SearchInv'
<1>1. CASE UNCHANGED vars
  <2>1. IndexInv' /\ (\A j \in Jobs : JobInv(j)') /\ (\A p \in Web : WebInv(p)')
    BY <1>1, SameIndex, OtherJob, OtherSearch DEF SearchInv, vars
  <2>2. TypeOK' /\ WatchOK'
    BY <1>1, SameCatalogue DEF SearchInv, TypeOK, WatchOK, vars, table
  <2> QED BY <2>1, <2>2 DEF SearchInv
<1>2. CASE Write
  BY <1>2, WriteKeeps
<1>3. ASSUME NEW p \in Web, WebStep(p) \/ Return(p) PROVE SearchInv'
  BY <1>3, SearchKeeps, QueryKeeps, FilterKeeps, LikeKeeps, ReturnKeeps DEF WebStep
<1>4. ASSUME NEW j \in Jobs, JobStep(j) PROVE SearchInv'
  BY <1>4, StartKeeps, CreateKeeps, IndexKeeps, EndKeeps DEF JobStep
<1> QED BY <1>1, <1>2, <1>3, <1>4 DEF Next

\* The invariant holds from the start and is kept by every step.
LEMMA SearchInductive == Spec => []SearchInv
  BY SearchInit, SearchNext, PTL DEF Spec

\* The index is there while a reindexing writes to it, a worker that searches has its
\* client, an answer has at most Limit books (views.py:45, 62), and populate_real_books
\* stays within its bounds (populate_real_books.py:85-147).
THEOREM TypeCorrect == Spec => []TypeOK
<1>1. SearchInv => TypeOK
  BY DEF SearchInv
<1> QED BY <1>1, SearchInductive, PTL

\* However edits, reindexings, failures and deaths overlap, an answer shows no book that
\* never had the title while the search ran and misses none that had it all the time,
\* unless the answer is full or no complete reindexing has brought the book up to date;
\* and a worker that reached Elasticsearch asks the table only when a call has failed
\* in this search (views.py:34-64, es_client.py:49-68, 127-164).
THEOREM AnswersAreRight == Spec => []AnswersRight
<1>1. SearchInv => AnswersRight
  BY DEF SearchInv, WebInv, RightAnswer, AnswersRight
<1> QED BY <1>1, SearchInductive, PTL

=============================================================================
