------------------------------- MODULE Search -------------------------------
(***************************************************************************)
(* Full-text search (apps/search): the view, which asks Elasticsearch and  *)
(* falls back to PostgreSQL, and the command reindex_books, the only one   *)
(* that ever writes to the index.  Nothing else keeps the index in step    *)
(* with the books table: edits do not reach it, and nobody deletes a       *)
(* document.                                                               *)
(*                                                                         *)
(* A query is a title and matches the books that have it; Elasticsearch's  *)
(* ranking and PostgreSQL's order are a choice of Limit matches.  A step   *)
(* is one call of Elasticsearch or of the database, and any call of        *)
(* Elasticsearch may fail.  The index outlives Elasticsearch's restarts,   *)
(* and a document can be found as soon as it is sent: the refresh interval *)
(* of a second is left out.                                                *)
(* A gunicorn worker handles one request at a time.                        *)
(***************************************************************************)
EXTENDS Catalogue

CONSTANTS
    Web, Jobs,  \* gunicorn workers, reindex_books processes
    Limit       \* books in an answer: 20

\* What an index can hold, which is never taken for there being none.
Docs == UNION {[S -> Titles] : S \in SUBSET Ids}

ASSUME SearchAssumption == Limit \in Nat \ {0} /\ None \notin Docs

VARIABLES
    docs,       \* the index: None, or id -> title
    client,     \* _available of each worker: "unknown", "yes" or "no"
    web,        \* what each worker is doing
    job,        \* what each reindex_books is doing
    unindexed,  \* books that no reindexing has brought up to date (history)
    spoiled,    \* of each job: books it will not have brought up to date (history)
    met,        \* workers whose first call of Elasticsearch was answered (history)
    watch       \* of each search: what happened while it ran (history)

history == <<unindexed, spoiled, met, watch>>

vars == <<rows, nextId, edits, feed, docs, client, web, job, unindexed, spoiled, met, watch>>

Idle == [pc |-> "idle"]

NoWatch == [always |-> {}, ever |-> {}, unindexed |-> {}, failed |-> FALSE]

Matching(q) == {i \in DOMAIN rows : rows[i] = q}

Hits(q) == {i \in DOMAIN docs : docs[i] = q}

\* The first Limit of S, in an order nobody knows.
SomeOf(S) == kSubset(Min({Limit, Cardinality(S)}), S)

-----------------------------------------------------------------------------
(***************************************************************************)
(* A step of the catalogue, seen by nobody; the history takes note of it.  *)
(***************************************************************************)
Written == {i \in DOMAIN rows \cup DOMAIN rows' :
              ~ (i \in DOMAIN rows /\ i \in DOMAIN rows' /\ rows[i] = rows'[i])}

Observe ==
    /\ unindexed' = (unindexed \cup Written) \cap DOMAIN rows'
    /\ spoiled' = [j \in Jobs |-> IF job[j].pc = "index"
                                  THEN (spoiled[j] \cup Written) \cap DOMAIN rows'
                                  ELSE {}]
    /\ watch' = [p \in Web |->
                   IF web[p].pc \in {"idle", "done"} THEN watch[p]
                   ELSE [watch[p] EXCEPT !.always = @ \cap Matching(web[p].query)',
                                         !.ever = @ \cup Matching(web[p].query)']]

Elsewhere == UNCHANGED <<docs, client, web, job, met>> /\ Observe

\* To a reindexing, what populate_real_books writes is an edit like any other, and the
\* two need not overlap.
Write == /\ CatalogueNext /\ Elsewhere
         /\ feed'.pc # "idle" => \A j \in Jobs : job[j].pc = "idle"

-----------------------------------------------------------------------------
(***************************************************************************)
(* GET /search/?q=: BookSearchView.                                        *)
(***************************************************************************)
InSearch(p, pc) == web' = [web EXCEPT ![p] = [pc |-> pc, query |-> web[p].query]]

Fails(p) == watch' = [watch EXCEPT ![p].failed = TRUE]

Answer(p, source, hits, books) ==
    web' = [web EXCEPT ![p] = [pc |-> "done", source |-> source, hits |-> hits, books |-> books]]

\* get_client(): the first search of a worker calls info(), and when that fails the
\* worker never asks Elasticsearch again.
Search(p, q) ==
    /\ web[p].pc = "idle"
    /\ \E available \in IF client[p] = "unknown" THEN {"yes", "no"} ELSE {client[p]} :
         /\ client' = [client EXCEPT ![p] = available]
         /\ met' = IF available = "yes" THEN met \cup {p} ELSE met
         /\ web' = [web EXCEPT ![p] = [query |-> q,
                      pc |-> IF available = "yes" THEN "query" ELSE "like"]]
    /\ watch' = [watch EXCEPT ![p] = [NoWatch EXCEPT !.always = Matching(q), !.ever = Matching(q)]]
    /\ UNCHANGED <<table, feed, docs, job, unindexed, spoiled>>

\* search(), which fails when there is no index yet.
Query(p) ==
    /\ web[p].pc = "query"
    /\ \/ /\ docs # None
          /\ \E hits \in SomeOf(Hits(web[p].query)) :
               /\ web' = [web EXCEPT ![p] = [pc |-> "filter", query |-> web[p].query, hits |-> hits]]
               /\ watch' = [watch EXCEPT ![p].unindexed = unindexed \cap (hits \cup watch[p].always)]
       \/ InSearch(p, "like") /\ Fails(p)
    /\ UNCHANGED <<table, feed, docs, client, job, unindexed, spoiled, met>>

\* The rows with the ids Elasticsearch gave; deleted books have left a gap.
Filter(p) ==
    /\ web[p].pc = "filter"
    /\ Answer(p, "elasticsearch", web[p].hits, web[p].hits \cap DOMAIN rows)
    /\ UNCHANGED <<table, feed, docs, client, job, history>>

Like(p) ==
    /\ web[p].pc = "like"
    /\ \E books \in SomeOf(Matching(web[p].query)) : Answer(p, "postgresql", books, books)
    /\ UNCHANGED <<table, feed, docs, client, job, history>>

Return(p) ==
    /\ web[p].pc = "done"
    /\ web' = [web EXCEPT ![p] = Idle]
    /\ watch' = [watch EXCEPT ![p] = NoWatch]
    /\ UNCHANGED <<table, feed, docs, client, job, unindexed, spoiled, met>>

\* gunicorn replaces a worker; the new one knows nothing of Elasticsearch.
Restart(p) ==
    /\ client[p] # "unknown" /\ client' = [client EXCEPT ![p] = "unknown"]
    /\ web' = [web EXCEPT ![p] = Idle]
    /\ met' = met \ {p} /\ watch' = [watch EXCEPT ![p] = NoWatch]
    /\ UNCHANGED <<table, feed, docs, job, unindexed, spoiled>>

-----------------------------------------------------------------------------
(***************************************************************************)
(* reindex_books.                                                          *)
(***************************************************************************)
InJob(j, pc) == job' = [job EXCEPT ![j] = [pc |-> pc]]

ReadBooks(j) == job' = [job EXCEPT ![j] = [pc |-> "index", rows |-> rows]]

\* ensure_index(): is there an index?  Any failure makes the command skip the books.
\* An index that is there stays, so that the table, which reindex_all() reads all at
\* once, can as well be read in the same step.
StartReindex(j) ==
    /\ job[j].pc = "idle"
    /\ feed.pc = "idle"
    /\ \/ docs = None /\ InJob(j, "create")
       \/ docs # None /\ ReadBooks(j)
    /\ UNCHANGED <<table, feed, docs, client, web, history>>

\* Another process may have created the index first, which is a failure.
CreateIndex(j) ==
    /\ job[j].pc = "create"
    /\ \/ docs = None /\ docs' = [i \in {} |-> None] /\ ReadBooks(j)
       \/ InJob(j, "idle") /\ UNCHANGED docs
    /\ UNCHANGED <<table, feed, client, web, history>>

\* What job j has of book i is old: the index gets behind, whatever another job did.
Outdate(j, i) ==
    LET old == {i} \cap spoiled[j] \cap DOMAIN rows
    IN  /\ unindexed' = unindexed \cup old
        /\ spoiled' = [k \in Jobs |-> IF job[k].pc = "index" /\ i \notin DOMAIN job[k].rows
                                      THEN spoiled[k] \cup old
                                      ELSE spoiled[k]]

Done(j, i) == job' = [job EXCEPT ![j].rows = [k \in DOMAIN @ \ {i} |-> @[k]]]

\* MUTANT: only books that the index does not have are sent.
IndexNewBook(j, i) ==
    /\ job[j].pc = "index" /\ i \in DOMAIN job[j].rows
    /\ \/ /\ docs' = [k \in DOMAIN docs \cup {i} |-> IF k \in DOMAIN docs THEN docs[k] ELSE job[j].rows[i]]
          /\ Outdate(j, i)
       \/ /\ spoiled' = [spoiled EXCEPT ![j] = @ \cup ({i} \cap DOMAIN rows)]
          /\ UNCHANGED <<docs, unindexed>>
    /\ Done(j, i)
    /\ UNCHANGED <<table, feed, client, web, met, watch>>

\* index_book(): the document is replaced.  An error is logged, and the next book follows.
IndexBook(j, i) ==
    /\ job[j].pc = "index" /\ i \in DOMAIN job[j].rows
    /\ \/ /\ docs' = [k \in DOMAIN docs \cup {i} |-> IF k = i THEN job[j].rows[i] ELSE docs[k]]
          /\ Outdate(j, i)
       \/ /\ spoiled' = [spoiled EXCEPT ![j] = @ \cup ({i} \cap DOMAIN rows)]
          /\ UNCHANGED <<docs, unindexed>>
    /\ Done(j, i)
    /\ UNCHANGED <<table, feed, client, web, met, watch>>

EndJob(j) == InJob(j, "idle") /\ spoiled' = [spoiled EXCEPT ![j] = {}]

\* refresh_trie() builds the trie of this process, which ends with it.
EndReindex(j) ==
    /\ job[j].pc = "index" /\ DOMAIN job[j].rows = {}
    /\ EndJob(j)
    /\ unindexed' = unindexed \cap spoiled[j]
    /\ UNCHANGED <<table, feed, docs, client, web, met, watch>>

\* The books it had sent are in the index, but nobody relies on a run that died.
KillReindex(j) ==
    /\ job[j].pc # "idle"
    /\ EndJob(j)
    /\ UNCHANGED <<table, feed, docs, client, web, unindexed, met, watch>>

-----------------------------------------------------------------------------
Init == /\ CatalogueInit
        /\ docs = None
        /\ client = [p \in Web |-> "unknown"]
        /\ web = [p \in Web |-> Idle]
        /\ job = [j \in Jobs |-> Idle]
        /\ unindexed = {}
        /\ spoiled = [j \in Jobs |-> {}]
        /\ met = {}
        /\ watch = [p \in Web |-> NoWatch]

WebStep(p) == \/ \E q \in Titles : Search(p, q)
              \/ Query(p) \/ Filter(p) \/ Like(p) \/ Restart(p)

JobStep(j) == \/ StartReindex(j) \/ CreateIndex(j)
              \/ \E i \in Ids : IndexBook(j, i)
              \/ EndReindex(j) \/ KillReindex(j)

\* Nobody sees an answer, so nothing is lost if it is returned first.
Next == \/ \E p \in Web : Return(p)
        \/ /\ \A p \in Web : web[p].pc # "done"
           /\ \/ Write
              \/ \E p \in Web : WebStep(p)
              \/ \E j \in Jobs : JobStep(j)

Spec == Init /\ [][Next]_vars

\* populate_real_books goes on with its work.
FairSpec == Spec /\ WF_vars(FeedStep /\ Elsewhere)

-----------------------------------------------------------------------------
(***************************************************************************)
(* Properties.                                                             *)
(***************************************************************************)
SearchStates ==
    {Idle} \cup [pc : {"query", "like"}, query : Titles]
           \cup [pc : {"filter"}, query : Titles, hits : SUBSET Ids]
           \cup [pc : {"done"}, source : {"elasticsearch", "postgresql"},
                 hits : SUBSET Ids, books : SUBSET Ids]

JobStates == [pc : {"idle", "create"}]
             \cup [pc : {"index"}, rows : Docs]

\* The index exists while a command writes to it, a worker that searches has its
\* client, and nobody has more than Limit books to show.
TypeOK == /\ CatalogueOK
          /\ docs \in {None} \cup Docs
          /\ client \in [Web -> {"unknown", "yes", "no"}]
          /\ web \in [Web -> SearchStates]
          /\ job \in [Jobs -> JobStates]
          /\ unindexed \subseteq Ids /\ spoiled \in [Jobs -> SUBSET Ids]
          /\ \A j \in Jobs : job[j].pc = "index" => docs # None
          /\ \A p \in Web : /\ web[p].pc \in {"query", "filter"} => client[p] = "yes"
                            /\ web[p].pc = "done" => Cardinality(web[p].books) <= Limit

FromIndex(p) == /\ web[p].books \subseteq watch[p].ever \cup watch[p].unindexed
                /\ \/ watch[p].always \subseteq web[p].books \cup watch[p].unindexed
                   \/ Cardinality(web[p].hits) = Limit

FromTable(p) == /\ web[p].books \subseteq watch[p].ever
                /\ \/ watch[p].always \subseteq web[p].books
                   \/ Cardinality(web[p].hits) = Limit
                /\ p \in met => watch[p].failed

\* An answer shows only books that had the title while the search ran and misses only
\* books that had not, unless the answer is full or no reindexing that ran to its end
\* has brought the book up to date, however reindexings overlap, fail and die.  A
\* worker that has reached Elasticsearch once asks the table only when a call failed
\* in this search (views.py:34-64, es_client.py:49-68, 127-164).
AnswersRight ==
    \A p \in Web : web[p].pc = "done" =>
        \/ web[p].source = "elasticsearch" /\ FromIndex(p)
        \/ web[p].source = "postgresql" /\ FromTable(p)

\* A run of populate_real_books comes to an end, whatever Open Library answers, even
\* for ever the works it has seen (populate_real_books.py:48-58, 85-147).
FeedEnds == feed.pc # "idle" ~> feed.pc = "idle"

=============================================================================
