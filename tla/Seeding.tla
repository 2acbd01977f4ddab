------------------------------ MODULE Seeding -------------------------------
(***************************************************************************)
(* The scripts that fill the database, run by hand or by a Kubernetes job  *)
(* while the service may be up: seed.py, row by row, and seed_massive.py,  *)
(* in batches.  They write books, ratings and reservations and queue no    *)
(* task: they bring the rows of Analytics up to date themselves, seed.py   *)
(* book by book with update_book_analytics(), seed_massive.py by computing *)
(* all the rows and then replacing the whole table, with no transaction    *)
(* around it.                                                              *)
(*                                                                         *)
(* One script runs at a time.  Genres, users and audit rows, the columns   *)
(* of a book and the dates of a reservation are left out.                  *)
(***************************************************************************)
EXTENDS Analytics

\* What the script still has to do is the `todo` of its task.
At(pc) == task[Seeder].pc = pc

Massive == task[Seeder].message = SeedMassive

Goto(pc) == task' = [task EXCEPT ![Seeder].pc = pc]

StartSeeding ==
    /\ MayStart(Seeder)
    /\ \E m \in Scripts : task' = [task EXCEPT ![Seeder] = [Idle EXCEPT !.pc = "books",
                                                                       !.message = m]]
    /\ UNCHANGED <<tables, analytics, queue, web, excused, spoiled, failures>>

-----------------------------------------------------------------------------
(***************************************************************************)
(* Writing the tables.  seed_massive.py inserts a batch at once, all of it *)
(* or, when a foreign key refuses one row, nothing, and then the script is *)
(* over.                                                                   *)
(***************************************************************************)

NewBooks(S) ==
    /\ S \subseteq unused
    /\ books' = books \cup S /\ unused' = unused \ S

\* Of each book that seed.py lists it finds the one with that ISBN, or adds it.
GetOrCreateBook(b) ==
    /\ At("books") /\ ~Massive
    /\ IF b \in books THEN UNCHANGED <<books, unused>> ELSE NewBooks({b})
    /\ task' = [task EXCEPT ![Seeder].todo = @ \cup {b}]
    /\ UNCHANGED <<ratings, reservations, analytics, queue, web, excused, spoiled, failures>>

\* seed_massive.py draws ISBNs until it has one that nobody has.
AddBooks(S) ==
    /\ At("books") /\ Massive
    /\ S # {} /\ NewBooks(S)
    /\ task' = [task EXCEPT ![Seeder].todo = @ \cup S]
    /\ UNCHANGED <<ratings, reservations, analytics, queue, web, excused, spoiled, failures>>

\* seed_massive.py goes on with all the books there are; without one, random.choice()
\* raises.
EndBooks ==
    /\ At("books")
    /\ IF Massive /\ books = {}
         THEN Fail(Seeder)
         ELSE /\ task' = [task EXCEPT ![Seeder].pc = "ratings",
                                      ![Seeder].todo = IF Massive THEN books ELSE @]
              /\ UNCHANGED <<excused, spoiled>>
    /\ UNCHANGED <<tables, analytics, queue, web, failures>>

Rated(b) == {r[1] : r \in ratings[b]}

\* Ratings for pairs of a book and a reader; those that exist by now are kept.
WriteRatings(S) ==
    /\ IF \A x \in S : x[1] \in books
         THEN /\ \E rate \in [S -> Rates] :
                   ratings' = [b \in Books |-> ratings[b] \cup
                                 {<<x[2], rate[x]>> : x \in {y \in S : y[1] = b /\ y[2] \notin Rated(b)}}]
              /\ UNCHANGED <<task, excused, spoiled>>
         ELSE Fail(Seeder) /\ UNCHANGED ratings
    /\ UNCHANGED <<books, unused, reservations, analytics, queue, web, failures>>

GetOrCreateRating(b, u) ==
    /\ At("ratings") /\ ~Massive /\ b \in task[Seeder].todo
    /\ WriteRatings({<<b, u>>})

RateBooks(S) ==
    /\ At("ratings") /\ Massive
    /\ S # {} /\ S \subseteq task[Seeder].todo \X Readers
    /\ WriteRatings(S)

EndRatings ==
    /\ At("ratings")
    /\ Goto(IF Massive THEN "reservations" ELSE "next")
    /\ UNCHANGED <<tables, analytics, queue, web, excused, spoiled, failures>>

\* Reservations, for which no copy is taken.
ReserveBooks(S) ==
    /\ At("reservations")
    /\ S # {} /\ S \subseteq task[Seeder].todo
    /\ \A b \in S : reservations[b] < MaxReservations
    /\ IF S \subseteq books
         THEN /\ reservations' = [b \in Books |-> IF b \in S THEN reservations[b] + 1
                                                            ELSE reservations[b]]
              /\ UNCHANGED <<task, excused, spoiled>>
         ELSE Fail(Seeder) /\ UNCHANGED reservations
    /\ UNCHANGED <<books, unused, ratings, analytics, queue, web, failures>>

EndReservations ==
    /\ At("reservations")
    /\ Goto("compute")
    /\ UNCHANGED <<tables, analytics, queue, web, excused, spoiled, failures>>

-----------------------------------------------------------------------------
(***************************************************************************)
(* seed_massive.py: the rows.                                              *)
(***************************************************************************)

\* The ratings and the reservations of a book are read as in update_book_analytics(),
\* by Aggregate and Count.
TakeBook(b) ==
    /\ At("compute") /\ b \in task[Seeder].todo
    /\ task' = [task EXCEPT ![Seeder].pc = "aggregate", ![Seeder].book = b,
                            ![Seeder].todo = @ \ {b}]
    /\ UNCHANGED <<tables, analytics, queue, web, excused, spoiled, failures>>

KeepRow ==
    /\ At("save") /\ Massive
    /\ task' = [task EXCEPT ![Seeder] = [@ EXCEPT !.pc = "compute", !.book = None, !.read = NewRow,
                                                  !.kept[task[Seeder].book] = task[Seeder].read]]
    /\ UNCHANGED <<tables, analytics, queue, web, excused, spoiled, failures>>

Kept == {b \in Books : task[Seeder].kept[b] # None}

\* All rows go, also those of books that came later and that the script has no row for.
DeleteRows ==
    /\ At("compute") /\ task[Seeder].todo = {}
    /\ analytics' = [b \in Books |-> None]
    /\ excused' = excused \cup {b \in books \ Kept : analytics[b] # None}
    /\ Goto("insert")
    /\ UNCHANGED <<tables, queue, web, spoiled, failures>>

\* A batch of rows, unless one of the books has gone or has a row again.
InsertRows(S) ==
    /\ At("insert") /\ S # {} /\ S \subseteq Kept
    /\ IF S \subseteq books /\ \A b \in S : analytics[b] = None
         THEN LET spoilt == {b \in S : <<Seeder, b>> \in spoiled}
              IN  /\ analytics' = [b \in Books |-> IF b \in S THEN task[Seeder].kept[b]
                                                              ELSE analytics[b]]
                  /\ excused' = (excused \ S) \cup spoilt
                  /\ spoiled' = (spoiled \cup Doing(S)) \ ({Seeder} \X S)
                  /\ task' = [task EXCEPT ![Seeder].kept = [b \in Books |-> IF b \in S THEN None
                                                                                      ELSE @[b]]]
         ELSE Fail(Seeder) /\ UNCHANGED analytics
    /\ UNCHANGED <<tables, queue, web, failures>>

EndSeeding ==
    /\ At("insert") /\ Kept = {}
    /\ task' = [task EXCEPT ![Seeder] = Idle]
    /\ UNCHANGED <<tables, analytics, queue, web, excused, spoiled, failures>>

-----------------------------------------------------------------------------
Init == AnalyticsInit

\* What the script does when the rows of a stage are written.
GoOn == \/ EndBooks \/ EndRatings \/ EndReservations
        \/ \E b \in Books : TakeBook(b)
        \/ KeepRow \/ DeleteRows
        \/ \E S \in SUBSET Books : InsertRows(S)
        \/ EndSeeding

Seeding == \/ StartSeeding
           \/ \E b \in Books : GetOrCreateBook(b)
           \/ \E b \in Books, u \in Readers : GetOrCreateRating(b, u)
           \/ \E S \in SUBSET Books : AddBooks(S) \/ ReserveBooks(S)
           \/ \E S \in SUBSET (Books \X Readers) : RateBooks(S)
           \/ GoOn \/ Work(Seeder) \/ Error(Seeder)

Next == AnalyticsNext \/ Seeding

Spec == Init /\ [][Next]_vars

\* Handlers, tasks and scripts that have begun go on, a stage of a script has an end,
\* and the broker, which is first in first out, keeps no message back for ever.
FairSpec ==
    /\ Spec
    /\ \A h \in Handlers : WF_vars(Delay(h))
    /\ \A w \in Runners : WF_vars(Work(w))
    /\ WF_vars(GoOn)
    /\ \A m \in Messages : SF_vars(\E w \in Workers : Fetch(w, m))

=============================================================================
