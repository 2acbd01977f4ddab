----------------------------- MODULE Analytics -----------------------------
(***************************************************************************)
(* apps/analytics: one row per book that summarises its ratings and        *)
(* reservations, recomputed by Celery tasks, and by the scripts of module  *)
(* Seeding.                                                                *)
(*                                                                         *)
(* The web handlers (books/services.py, reservations/commands.py) write a  *)
(* table and afterwards queue a task.  A task reads the book, its row, the *)
(* ratings and the reservations one statement after the other, and saves   *)
(* all columns of the row.  Messages are acknowledged after the task       *)
(* (CELERY_TASK_ACKS_LATE), so a worker that dies gives its message back.  *)
(***************************************************************************)
EXTENDS Integers, FiniteSets

CONSTANTS
    Books, Readers, Rates,
    Handlers,           \* web processes
    Workers,            \* Celery processes
    Rebuild,            \* the message of rebuild_all_analytics
    Seeder,             \* the process of a seed script
    Seed, SeedMassive,  \* seed.py and seed_massive.py, instead of a message
    None,
    MaxReservations,    \* bound of each book's reservations
    MaxQueue,           \* bound of the messages for one book beyond which nobody writes
    MaxBusy,            \* bound of the workers and scripts that are busy at once
    MaxFailures         \* bound of Drop, Crash and Error together

\* avg_rating, total_ratings and popularity_score are functions of the ratings and
\* the number that the task has read, and the model keeps those.
Row == [rated : SUBSET (Readers \X Rates), reserved : Nat]

ASSUME AnalyticsAssumption ==
    /\ Rebuild \notin Books /\ None \notin Books \cup {Rebuild} \cup Row
    /\ Seeder \notin Workers /\ Seed # SeedMassive
    /\ {Seed, SeedMassive} \cap (Books \cup {Rebuild, None}) = {}
    /\ {MaxReservations, MaxQueue, MaxBusy, MaxFailures} \subseteq Nat

VARIABLES
    books,          \* ids in the books table
    unused,         \* ids that it has not given out yet
    ratings,        \* book -> <<reader, rate>> of its ratings
    reservations,   \* book -> number of its reservations
    analytics,      \* book -> its row of book_analytics
    queue,          \* message -> copies in the broker
    web,            \* handler -> the book it has written and not queued a task for
    task,           \* what each worker, or the script, is doing
    excused,        \* books whose row may stay wrong, see below
    spoiled,        \* <<worker or script, book>>: it may save such a row
    failures

tables == <<books, unused, ratings, reservations>>
vars == <<books, unused, ratings, reservations,
          analytics, queue, web, task, excused, spoiled, failures>>

Messages == Books \cup {Rebuild}
Scripts == {Seed, SeedMassive}
Runners == Workers \cup {Seeder}

\* The defaults of the columns.
NewRow == [rated |-> {}, reserved |-> 0]

PCs == {"idle", "next", "get_or_create", "aggregate", "count", "save",
        "books", "ratings", "reservations", "compute", "insert"}

\* A task has one book in its hands and others to do; a script may keep rows for later.
Task == [pc : PCs, message : Messages \cup Scripts \cup {None}, todo : SUBSET Books,
         book : Books \cup {None}, read : Row, kept : [Books -> Row \cup {None}]]

Idle == [pc |-> "idle", message |-> None, todo |-> {}, book |-> None, read |-> NewRow,
         kept |-> [b \in Books |-> None]]

MayStart(w) == /\ task[w].pc = "idle"
               /\ Cardinality({x \in Runners : task[x].pc # "idle"}) < MaxBusy

\* What the row of the book should be; before its first task a book has none.
Right(b) ==
    LET row == IF analytics[b] = None THEN NewRow ELSE analytics[b]
    IN  row = [rated |-> ratings[b], reserved |-> reservations[b]]

-----------------------------------------------------------------------------
(***************************************************************************)
(* `excused`: something happened that the code has no answer to, so that   *)
(* nothing need put the row right: a change that queues no task, a handler *)
(* or a task that failed, or a row saved by a task that another task of    *)
(* the book overlapped.  A task that nothing of this kind happened to puts *)
(* the row right whatever was before.                                      *)
(***************************************************************************)

Holds(w, b) == task[w].book = b \/ task[w].kept[b] # None

Doing(S) == {x \in Runners \X (S \cap Books) : Holds(x[1], x[2])}

Excuse(S) == /\ excused' = excused \cup (S \cap books)
             /\ spoiled' = spoiled \cup Doing(S)

-----------------------------------------------------------------------------
(***************************************************************************)
(* Web handlers.                                                           *)
(***************************************************************************)

CanWrite(h, b) == web[h] = None /\ b \in books /\ queue[b] < MaxQueue

\* BookRepository.create_rating(): one rating per reader and book.
Rate(h, b, u, rate) ==
    /\ CanWrite(h, b)
    /\ \A r \in ratings[b] : r[1] # u
    /\ ratings' = [ratings EXCEPT ![b] = @ \cup {<<u, rate>>}]
    /\ web' = [web EXCEPT ![h] = b]
    /\ UNCHANGED <<books, unused, reservations, analytics, queue, task, excused, spoiled, failures>>

\* ReserveBookCommand.execute()
Reserve(h, b) ==
    /\ CanWrite(h, b)
    /\ reservations[b] < MaxReservations
    /\ reservations' = [reservations EXCEPT ![b] = @ + 1]
    /\ web' = [web EXCEPT ![h] = b]
    /\ UNCHANGED <<books, unused, ratings, analytics, queue, task, excused, spoiled, failures>>

\* ReturnBookCommand.execute(), which leaves the number of reservations as it is.
Return(h, b) ==
    /\ CanWrite(h, b)
    /\ reservations[b] > 0
    /\ web' = [web EXCEPT ![h] = b]
    /\ UNCHANGED <<tables, analytics, queue, task, excused, spoiled, failures>>

\* MUTANT: no task is queued.
DelayNothing(h) ==
    /\ web[h] # None
    /\ web' = [web EXCEPT ![h] = None]
    /\ UNCHANGED <<tables, analytics, queue, task, excused, spoiled, failures>>

\* update_book_analytics_task.delay(book.id)
Delay(h) ==
    /\ web[h] # None
    /\ queue' = [queue EXCEPT ![web[h]] = @ + 1]
    /\ web' = [web EXCEPT ![h] = None]
    /\ UNCHANGED <<tables, analytics, task, excused, spoiled, failures>>

\* The handler is killed, or the broker refuses the message.
Drop(h) ==
    /\ web[h] # None
    /\ failures < MaxFailures
    /\ failures' = failures + 1
    /\ Excuse({web[h]})
    /\ web' = [web EXCEPT ![h] = None]
    /\ UNCHANGED <<tables, analytics, queue, task>>

\* DELETE of a reservation, and PATCH of its book, change the tables and queue nothing.
MoveReservation(b, to) ==
    /\ reservations[b] > 0 /\ to # b
    /\ to # None => to \in books /\ reservations[to] < MaxReservations
    /\ reservations' = [c \in Books |-> CASE c = b -> reservations[c] - 1
                                          [] c = to -> reservations[c] + 1
                                          [] OTHER -> reservations[c]]
    /\ Excuse({b, to})
    /\ UNCHANGED <<books, unused, ratings, analytics, queue, web, task, failures>>

\* POST of a book: it has no row before its first task.
CreateBook(b) ==
    /\ b \in unused
    /\ books' = books \cup {b} /\ unused' = unused \ {b}
    /\ UNCHANGED <<ratings, reservations, analytics, queue, web, task, excused, spoiled, failures>>

\* DELETE of a book cascades to its ratings, reservations and analytics.
DeleteBook(b) ==
    /\ b \in books
    /\ books' = books \ {b}
    /\ ratings' = [ratings EXCEPT ![b] = {}]
    /\ reservations' = [reservations EXCEPT ![b] = 0]
    /\ analytics' = [analytics EXCEPT ![b] = None]
    /\ excused' = excused \ {b}
    /\ UNCHANGED <<unused, queue, web, task, spoiled, failures>>

-----------------------------------------------------------------------------
(***************************************************************************)
(* Celery.                                                                 *)
(***************************************************************************)

\* The task is due or is started by hand.
StartRebuild ==
    /\ queue[Rebuild] = 0
    /\ queue' = [queue EXCEPT ![Rebuild] = 1]
    /\ UNCHANGED <<tables, analytics, web, task, excused, spoiled, failures>>

\* update_book_analytics_task() has one book to do; rebuild_all_analytics() reads
\* the list of all of them at its start.
Fetch(w, m) ==
    /\ MayStart(w) /\ queue[m] > 0
    /\ queue' = [queue EXCEPT ![m] = @ - 1]
    /\ task' = [task EXCEPT ![w] = [Idle EXCEPT
                  !.pc = "next", !.message = m,
                  !.todo = IF m = Rebuild THEN books ELSE {m}]]
    /\ UNCHANGED <<tables, analytics, web, excused, spoiled, failures>>

\* The task has returned.
Acknowledge(w) ==
    /\ task[w].pc = "next" /\ task[w].todo = {}
    /\ task' = [task EXCEPT ![w] = Idle]
    /\ UNCHANGED <<tables, analytics, queue, web, excused, spoiled, failures>>

\* MUTANT: the message was acknowledged when it was fetched.
CrashAcknowledged(w) ==
    /\ task[w].pc # "idle" /\ failures < MaxFailures
    /\ failures' = failures + 1
    /\ task' = [task EXCEPT ![w] = Idle]
    /\ spoiled' = spoiled \ ({w} \X Books)
    /\ UNCHANGED <<tables, analytics, queue, web, excused>>

\* The worker dies, and the broker delivers its message again.
Crash(w) ==
    /\ task[w].pc # "idle" /\ failures < MaxFailures
    /\ failures' = failures + 1
    /\ queue' = [queue EXCEPT ![task[w].message] = @ + 1]
    /\ task' = [task EXCEPT ![w] = Idle]
    /\ spoiled' = spoiled \ ({w} \X Books)
    /\ UNCHANGED <<tables, analytics, web, excused>>

\* An exception ends the task, and the message is acknowledged.
Fail(w) ==
    LET lost == task[w].todo \cup {b \in Books : Holds(w, b)}
    IN  /\ excused' = excused \cup (lost \cap books)
        /\ spoiled' = (spoiled \cup Doing(lost)) \ ({w} \X Books)
        /\ task' = [task EXCEPT ![w] = Idle]

\* A statement that the database refuses or cannot answer.
Error(w) ==
    /\ task[w].pc # "idle" /\ failures < MaxFailures
    /\ failures' = failures + 1
    /\ Fail(w)
    /\ UNCHANGED <<tables, analytics, queue, web>>

-----------------------------------------------------------------------------
(***************************************************************************)
(* update_book_analytics(), one statement at a time.                       *)
(***************************************************************************)

\* Book.objects.get(): a book that has gone is logged and skipped.
GetBook(w, b) ==
    /\ task[w].pc = "next" /\ b \in task[w].todo
    /\ \/ b \in books /\ task' = [task EXCEPT ![w].pc = "get_or_create", ![w].book = b,
                                              ![w].todo = @ \ {b}]
       \/ b \notin books /\ task' = [task EXCEPT ![w].todo = @ \ {b}]
    /\ UNCHANGED <<tables, analytics, queue, web, excused, spoiled, failures>>

\* A row for a book that has gone is refused by the foreign key.
GetOrCreate(w) ==
    LET b == task[w].book
    IN  /\ task[w].pc = "get_or_create"
        /\ IF b \in books
             THEN /\ analytics' = [analytics EXCEPT ![b] = IF @ = None THEN NewRow ELSE @]
                  /\ task' = [task EXCEPT ![w].pc = "aggregate"]
                  /\ UNCHANGED <<excused, spoiled>>
             ELSE Fail(w) /\ UNCHANGED analytics
        /\ UNCHANGED <<tables, queue, web, failures>>

Aggregate(w) ==
    /\ task[w].pc = "aggregate"
    /\ task' = [task EXCEPT ![w].read.rated = ratings[task[w].book], ![w].pc = "count"]
    /\ UNCHANGED <<tables, analytics, queue, web, excused, spoiled, failures>>

Count(w) ==
    /\ task[w].pc = "count"
    /\ task' = [task EXCEPT ![w].read.reserved = reservations[task[w].book], ![w].pc = "save"]
    /\ UNCHANGED <<tables, analytics, queue, web, excused, spoiled, failures>>

SaveRow(w) ==
    LET b == task[w].book
    IN  /\ analytics' = [analytics EXCEPT ![b] = task[w].read]
        /\ excused' = IF <<w, b>> \in spoiled THEN excused \cup {b} ELSE excused \ {b}
        /\ spoiled' = (spoiled \cup Doing({b})) \ {<<w, b>>}
        /\ task' = [task EXCEPT ![w] = [@ EXCEPT !.pc = "next", !.book = None, !.read = NewRow]]

\* MUTANT: the row is written also when the book has gone.
SaveOrphan(w) ==
    /\ task[w].pc = "save" /\ task[w].message # SeedMassive
    /\ SaveRow(w)
    /\ UNCHANGED <<tables, queue, web, failures>>

\* analytics.save(): all columns; it would insert a row that has gone.
Save(w) ==
    /\ task[w].pc = "save" /\ task[w].message # SeedMassive
    /\ IF task[w].book \in books THEN SaveRow(w)
                                  ELSE Fail(w) /\ UNCHANGED analytics
    /\ UNCHANGED <<tables, queue, web, failures>>

-----------------------------------------------------------------------------
AnalyticsInit ==
    /\ books \in SUBSET Books /\ unused = Books \ books
    /\ ratings = [b \in Books |-> {}]
    /\ reservations = [b \in Books |-> 0]
    /\ analytics = [b \in Books |-> None]
    /\ queue = [m \in Messages |-> 0]
    /\ web = [h \in Handlers |-> None]
    /\ task = [w \in Runners |-> Idle]
    /\ excused = {} /\ spoiled = {}
    /\ failures = 0

Request(h) ==
    \/ \E b \in Books : Reserve(h, b) \/ Return(h, b)
    \/ \E b \in Books, u \in Readers, rate \in Rates : Rate(h, b, u, rate)
    \/ Delay(h) \/ Drop(h)

Edit == \E b \in Books : \/ CreateBook(b) \/ DeleteBook(b)
                        \/ \E to \in Books \cup {None} : MoveReservation(b, to)

Work(w) ==
    \/ \E b \in Books : GetBook(w, b)
    \/ Acknowledge(w) \/ GetOrCreate(w) \/ Aggregate(w) \/ Count(w) \/ Save(w)

Celery(w) == Work(w) \/ Crash(w) \/ Error(w) \/ \E m \in Messages : Fetch(w, m)

AnalyticsNext ==
    \/ \E h \in Handlers : Request(h)
    \/ Edit \/ StartRebuild
    \/ \E w \in Workers : Celery(w)

-----------------------------------------------------------------------------
(***************************************************************************)
(* Properties.                                                             *)
(***************************************************************************)

\* Every variable has its type, and only a book in the table has ratings,
\* reservations and a row.
AnalyticsTypeOK ==
    /\ books \subseteq Books /\ unused \subseteq Books \ books
    /\ ratings \in [Books -> SUBSET (Readers \X Rates)]
    /\ reservations \in [Books -> Nat]
    /\ analytics \in [Books -> Row \cup {None}]
    /\ queue \in [Messages -> Nat]
    /\ web \in [Handlers -> Books \cup {None}]
    /\ task \in [Runners -> Task]
    /\ excused \subseteq Books /\ spoiled \subseteq Runners \X Books
    /\ failures \in Nat
    /\ \A b \in Books \ books :
         ratings[b] = {} /\ reservations[b] = 0 /\ analytics[b] = None

\* Once all tasks of a book are done, its row agrees with the tables, although
\* tasks run twice, read while others write, and overlap tasks of other books, and
\* although scripts change the tables without queueing any and replace all the rows
\* (consumers.py:7-27, seed_massive.py:726-757); unless it is excused.
SummariesAreRight ==
    \A b \in books :
        \/ Right(b) \/ b \in excused
        \/ queue[b] + queue[Rebuild] > 0
        \/ \E h \in Handlers : web[h] = b
        \/ \E w \in Runners : b \in task[w].todo \/ Holds(w, b)

\* The row of a book does not stay wrong: whatever the tables change to, some task
\* brings it up to date (services.py:78, commands.py:83); unless it is excused: what a
\* failure, an unannounced change or an overlap of two recomputations did to it lasts
\* until the next task of the book that no other overlaps.
CaughtUp == \A b \in Books : []<>(b \in books => Right(b) \/ b \in excused)

=============================================================================
