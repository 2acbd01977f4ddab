-------------------------- MODULE AnalyticsProofs --------------------------
(***************************************************************************)
(* Theorems about Analytics and Seeding, for any number of books, readers, *)
(* handlers and workers, and any number of failures.                       *)
(***************************************************************************)
EXTENDS Seeding, TLAPS

Reading == {"get_or_create", "aggregate", "count", "save"}

Early == {"idle", "next", "get_or_create", "books", "ratings", "reservations"}

\* What a task or a script holds at each place in the code.
Placed(w, j) ==
    /\ j.pc = "idle" => j = Idle
    /\ j.pc # "idle" => j.message \in (IF w = Seeder THEN Scripts ELSE Messages)
    /\ j.pc \in Reading => j.book \in Books
    /\ j.pc \notin Reading => j.book = None
    /\ j.pc = "insert" => j.todo = {}
    /\ j.message \in Books => j.todo \subseteq {j.message} /\ j.book \in {j.message, None}
    /\ j.pc \in Early \/ j.message # SeedMassive => \A b \in Books : j.kept[b] = None
    /\ j.book \notin j.todo
    /\ \A b \in Books : j.kept[b] # None => b \notin j.todo /\ b # j.book

PlaceInv == \A w \in Runners : Placed(w, task[w])

\* Nobody knows a book that has not been created.
FreshInv ==
    \A b \in unused : b \notin task[Seeder].todo /\ \A w \in Runners : ~Holds(w, b)

\* What the task has read of the book still holds.
UpToDate(w) ==
    /\ task[w].pc \in {"count", "save"} => task[w].read.rated = ratings[task[w].book]
    /\ task[w].pc = "save" => task[w].read.reserved = reservations[task[w].book]

Current(b) == [rated |-> ratings[b], reserved |-> reservations[b]]

\* One runner will, if nothing goes wrong, put the row of the book right.
Brings(w, b) ==
    \/ b \in task[w].todo
    \/ task[w].book = b /\ UpToDate(w)
    \/ task[w].kept[b] = Current(b)

\* Somebody will.
Coming(b) ==
    \/ queue[b] > 0 \/ queue[Rebuild] > 0
    \/ \E h \in Handlers : web[h] = b
    \/ \E w \in Runners : Brings(w, b)

Spoils(w, b) == Holds(w, b) /\ <<w, b>> \in spoiled

\* A task that would save what no longer holds is known to do so, or is not the last.
Settled(b) ==
    /\ Right(b) \/ b \in excused \/ Coming(b) \/ \E w \in Runners : Spoils(w, b)
    /\ \A w \in Runners : Holds(w, b) => <<w, b>> \in spoiled \/ Coming(b)

SettledInv == \A b \in books : Settled(b)

TypeInv == AnalyticsTypeOK /\ PlaceInv /\ FreshInv

Inv == TypeInv /\ SettledInv

-----------------------------------------------------------------------------
(***************************************************************************)
(* Types.                                                                  *)
(***************************************************************************)

LEMMA IdleOK == /\ NewRow \in Row /\ Idle \in Task
                /\ Idle.book = None /\ Idle.todo = {} /\ \A b \in Books : Idle.kept[b] = None
                /\ Idle.pc = "idle" /\ Idle.message = None
                /\ None \notin Books /\ None \notin Row
                /\ \A w \in Runners : Placed(w, Idle)
  BY AnalyticsAssumption DEF NewRow, Row, Idle, Task, PCs, Messages, Placed, Reading, Early

LEMMA TypeInit == Init => TypeInv
<1> SUFFICES ASSUME Init PROVE TypeInv
  OBVIOUS
<1> USE DEF Init, AnalyticsInit
<1>1. AnalyticsTypeOK
  BY IdleOK, AnalyticsAssumption DEF AnalyticsTypeOK, Messages
<1>2. PlaceInv /\ FreshInv
  BY IdleOK DEF PlaceInv, FreshInv, Holds, Runners
<1> QED BY <1>1, <1>2 DEF TypeInv

\* Nothing in the tasks changes, and no id becomes free.
LEMMA SameTasks ==
    ASSUME TypeInv, UNCHANGED task, unused' \subseteq unused
    PROVE  PlaceInv' /\ FreshInv'
  BY DEF TypeInv, PlaceInv, FreshInv, Holds

LEMMA TypeRequest ==
    ASSUME TypeInv, NEW h \in Handlers, Request(h)
    PROVE  TypeInv'
<1> UNCHANGED task /\ unused' \subseteq unused
  BY DEF Request, Reserve, Return, Rate, Delay, Drop, tables
<1>0. PlaceInv' /\ FreshInv'
  BY SameTasks
<1>1. CASE \E b \in Books : Reserve(h, b) \/ Return(h, b)
  BY <1>0, <1>1 DEF Reserve, Return, CanWrite, tables, AnalyticsTypeOK, TypeInv
<1>2. CASE \E b \in Books, u \in Readers, rate \in Rates : Rate(h, b, u, rate)
  BY <1>0, <1>2 DEF Rate, CanWrite, tables, AnalyticsTypeOK, TypeInv
<1>3. CASE Delay(h)
  BY <1>0, <1>3 DEF Delay, tables, AnalyticsTypeOK, TypeInv, Messages
<1>4. CASE Drop(h)
  BY <1>0, <1>4 DEF Drop, Excuse, Doing, tables, AnalyticsTypeOK, TypeInv
<1> QED BY <1>1, <1>2, <1>3, <1>4 DEF Request

LEMMA TypeEdit ==
    ASSUME TypeInv, Edit
    PROVE  TypeInv'
<1> UNCHANGED task /\ unused' \subseteq unused
  BY DEF Edit, CreateBook, DeleteBook, MoveReservation
<1>0. PlaceInv' /\ FreshInv'
  BY SameTasks
<1>1. ASSUME NEW b \in Books, DeleteBook(b) PROVE TypeInv'
  BY <1>0, <1>1 DEF DeleteBook, AnalyticsTypeOK, TypeInv
<1>2. ASSUME NEW b \in Books, NEW to \in Books \cup {None}, MoveReservation(b, to)
      PROVE  TypeInv'
  <2>1. reservations' \in [Books -> Nat]
    BY <1>2 DEF MoveReservation, AnalyticsTypeOK, TypeInv
  <2>2. ASSUME NEW c \in Books \ books PROVE reservations'[c] = 0
    <3>1. reservations[c] = 0 /\ c # b /\ c # to
      BY <1>2, AnalyticsAssumption DEF MoveReservation, AnalyticsTypeOK, TypeInv
    <3> QED BY <1>2, <3>1 DEF MoveReservation
  <2> QED BY <1>0, <1>2, <2>1, <2>2 DEF MoveReservation, Excuse, Doing, AnalyticsTypeOK, TypeInv
<1>3. ASSUME NEW b \in Books, CreateBook(b) PROVE TypeInv'
  BY <1>0, <1>3 DEF CreateBook, AnalyticsTypeOK, TypeInv
<1> QED BY <1>1, <1>2, <1>3 DEF Edit

\* A task or a script goes on.
LEMMA TaskOK ==
    ASSUME TypeInv, NEW w \in Runners, NEW j \in Task, Placed(w, j),
           task' = [task EXCEPT ![w] = j], unused' \subseteq unused,
           \A b \in unused' : /\ j.book # b /\ j.kept[b] = None
                              /\ w = Seeder => b \notin j.todo
    PROVE  task' \in [Runners -> Task] /\ PlaceInv' /\ FreshInv'
<1>1. task' \in [Runners -> Task]
  BY DEF TypeInv, AnalyticsTypeOK
<1>2. task'[w] = j /\ \A v \in Runners \ {w} : task'[v] = task[v]
  BY DEF TypeInv, AnalyticsTypeOK
<1>3. PlaceInv'
  BY <1>2 DEF TypeInv, PlaceInv
<1>4. FreshInv'
  BY <1>2 DEF TypeInv, FreshInv, Holds, Runners
<1> QED BY <1>1, <1>3, <1>4

LEMMA DoingOK == \A S : Doing(S) \subseteq Runners \X Books
  BY DEF Doing

\* What an exception leaves.
LEMMA FailOK ==
    ASSUME TypeInv, NEW w \in Runners, Fail(w), UNCHANGED unused
    PROVE  /\ task' \in [Runners -> Task]
           /\ excused' \subseteq Books /\ spoiled' \subseteq Runners \X Books
           /\ PlaceInv' /\ FreshInv'
<1>1. task' = [task EXCEPT ![w] = Idle]
  BY DEF Fail
<1>2. task' \in [Runners -> Task] /\ PlaceInv' /\ FreshInv'
  <2>1. UNCHANGED unused /\ unused \subseteq Books
    BY DEF TypeInv, AnalyticsTypeOK
  <2> QED BY <1>1, <2>1, IdleOK, TaskOK DEF TypeInv
<1>3. excused' \subseteq Books /\ spoiled' \subseteq Runners \X Books
  <2> DEFINE lost == task[w].todo \cup {b \in Books : Holds(w, b)}
  <2>1. /\ excused' = excused \cup (lost \cap books)
        /\ spoiled' = (spoiled \cup Doing(lost)) \ ({w} \X Books)
    BY Zenon DEF Fail
  <2>2. Doing(lost) \subseteq Runners \X Books
    BY DoingOK
  <2> HIDE DEF lost
  <2> QED BY <2>1, <2>2 DEF TypeInv, AnalyticsTypeOK
<1> QED BY <1>2, <1>3

LEMMA TypeWork ==
    ASSUME TypeInv, NEW w \in Runners, Work(w)
    PROVE  TypeInv'
<1> USE IdleOK DEF TypeInv
<1>0. /\ task[w] \in Task /\ Placed(w, task[w]) /\ unused \subseteq Books
      /\ \A b \in unused : ~Holds(w, b) /\ (w = Seeder => b \notin task[w].todo)
  BY DEF AnalyticsTypeOK, PlaceInv, FreshInv
<1>1. ASSUME NEW b \in Books, GetBook(w, b) PROVE TypeInv'
  <2>1. CASE b \in books
    <3> DEFINE j == [task[w] EXCEPT !.pc = "get_or_create", !.book = b, !.todo = @ \ {b}]
    <3>1. j \in Task
      BY <1>0 DEF Task, PCs
    <3>2. Placed(w, j)
      BY <1>0, <1>1 DEF GetBook, Task, Placed, Reading, Early
    <3>3. task' = [task EXCEPT ![w] = j] /\ UNCHANGED unused
      BY <1>1, <2>1 DEF GetBook, tables
    <3>4. \A c \in unused : j.book # c /\ j.kept[c] = None /\ (w = Seeder => c \notin j.todo)
      BY <1>0, <2>1 DEF Holds, Task, AnalyticsTypeOK
    <3> HIDE DEF j
    <3>5. task' \in [Runners -> Task] /\ PlaceInv' /\ FreshInv'
      BY <3>1, <3>2, <3>3, <3>4, TaskOK
    <3> QED BY <1>1, <3>5 DEF GetBook, tables, AnalyticsTypeOK
  <2>2. CASE b \notin books
    <3> DEFINE j == [task[w] EXCEPT !.todo = @ \ {b}]
    <3>1. j \in Task
      BY <1>0 DEF Task
    <3>2. Placed(w, j)
      BY <1>0, <1>1 DEF GetBook, Task, Placed, Reading, Early
    <3>3. task' = [task EXCEPT ![w] = j] /\ UNCHANGED unused
      BY <1>1, <2>2 DEF GetBook, tables
    <3>4. \A c \in unused : j.book # c /\ j.kept[c] = None /\ (w = Seeder => c \notin j.todo)
      BY <1>0 DEF Holds, Task
    <3> HIDE DEF j
    <3>5. task' \in [Runners -> Task] /\ PlaceInv' /\ FreshInv'
      BY <3>1, <3>2, <3>3, <3>4, TaskOK
    <3> QED BY <1>1, <3>5 DEF GetBook, tables, AnalyticsTypeOK
  <2> QED BY <2>1, <2>2
<1>2. CASE Acknowledge(w)
  <2>1. task' = [task EXCEPT ![w] = Idle] /\ UNCHANGED unused
    BY <1>2 DEF Acknowledge, tables
  <2>2. task' \in [Runners -> Task] /\ PlaceInv' /\ FreshInv'
    BY <1>0, <2>1, TaskOK
  <2> QED BY <1>2, <2>2 DEF Acknowledge, tables, AnalyticsTypeOK
<1>3. CASE GetOrCreate(w)
  <2>1. CASE task[w].book \in books
    <3> DEFINE j == [task[w] EXCEPT !.pc = "aggregate"]
    <3>1. j \in Task
      BY <1>0 DEF Task, PCs
    <3>2. Placed(w, j)
      BY <1>0, <1>3 DEF GetOrCreate, Task, Placed, Reading, Early
    <3>3. task' = [task EXCEPT ![w] = j] /\ UNCHANGED unused
      BY <1>3, <2>1 DEF GetOrCreate, tables, AnalyticsTypeOK
    <3>4. \A c \in unused : j.book # c /\ j.kept[c] = None /\ (w = Seeder => c \notin j.todo)
      BY <1>0 DEF Holds, Task
    <3> HIDE DEF j
    <3>5. task' \in [Runners -> Task] /\ PlaceInv' /\ FreshInv'
      BY <3>1, <3>2, <3>3, <3>4, TaskOK
    <3> QED BY <1>3, <2>1, <3>5 DEF GetOrCreate, tables, AnalyticsTypeOK
  <2>2. CASE task[w].book \notin books
    BY <1>3, <2>2, FailOK DEF GetOrCreate, tables, AnalyticsTypeOK
  <2> QED BY <2>1, <2>2
<1>4. CASE Aggregate(w)
  <2> DEFINE j == [task[w] EXCEPT !.read.rated = ratings[task[w].book], !.pc = "count"]
  <2>1. j \in Task /\ j.pc = "count"
    BY <1>0, <1>4 DEF Aggregate, Task, PCs, Row, AnalyticsTypeOK, Placed, Reading
  <2>2. Placed(w, j)
    BY <1>0, <1>4 DEF Aggregate, Task, Placed, Reading, Early
  <2>3. task' = [task EXCEPT ![w] = j] /\ UNCHANGED unused
    BY <1>4 DEF Aggregate, tables, AnalyticsTypeOK
  <2>4. \A c \in unused : j.book # c /\ j.kept[c] = None /\ (w = Seeder => c \notin j.todo)
    BY <1>0 DEF Holds, Task
  <2> HIDE DEF j
  <2>5. task' \in [Runners -> Task] /\ PlaceInv' /\ FreshInv'
    BY <2>1, <2>2, <2>3, <2>4, TaskOK
  <2> QED BY <1>4, <2>5 DEF Aggregate, tables, AnalyticsTypeOK
<1>5. CASE Count(w)
  <2> DEFINE j == [task[w] EXCEPT !.read.reserved = reservations[task[w].book], !.pc = "save"]
  <2>1. j \in Task /\ j.pc = "save"
    BY <1>0, <1>5 DEF Count, Task, PCs, Row, AnalyticsTypeOK, Placed, Reading
  <2>2. Placed(w, j)
    BY <1>0, <1>5 DEF Count, Task, Placed, Reading, Early
  <2>3. task' = [task EXCEPT ![w] = j] /\ UNCHANGED unused
    BY <1>5 DEF Count, tables, AnalyticsTypeOK
  <2>4. \A c \in unused : j.book # c /\ j.kept[c] = None /\ (w = Seeder => c \notin j.todo)
    BY <1>0 DEF Holds, Task
  <2> HIDE DEF j
  <2>5. task' \in [Runners -> Task] /\ PlaceInv' /\ FreshInv'
    BY <2>1, <2>2, <2>3, <2>4, TaskOK
  <2> QED BY <1>5, <2>5 DEF Count, tables, AnalyticsTypeOK
<1>6. CASE Save(w)
  <2>1. CASE task[w].book \in books
    <3>1. SaveRow(w) /\ task[w].read \in Row /\ task[w].book \in Books /\ UNCHANGED unused
      BY <1>0, <1>6, <2>1 DEF Save, Task, AnalyticsTypeOK, tables
    <3> DEFINE j == [task[w] EXCEPT !.pc = "next", !.book = None, !.read = NewRow]
    <3>2. task' = [task EXCEPT ![w] = j]
      BY <3>1 DEF SaveRow
    <3>3. j \in Task
      BY <1>0 DEF Task, PCs
    <3>4. Placed(w, j)
      BY <1>0, <1>6 DEF Save, Task, Placed, Reading, Early
    <3>5. \A c \in unused : j.book # c /\ j.kept[c] = None /\ (w = Seeder => c \notin j.todo)
      BY <1>0 DEF Holds, Task
    <3> HIDE DEF j
    <3>6. task' \in [Runners -> Task] /\ PlaceInv' /\ FreshInv'
      BY <3>1, <3>2, <3>3, <3>4, <3>5, TaskOK
    <3> QED BY <1>6, <2>1, <3>1, <3>6 DEF Save, SaveRow, Doing, tables, AnalyticsTypeOK
  <2>2. CASE task[w].book \notin books
    BY <1>6, <2>2, FailOK DEF Save, tables, AnalyticsTypeOK
  <2> QED BY <2>1, <2>2
<1> QED BY <1>1, <1>2, <1>3, <1>4, <1>5, <1>6 DEF Work

LEMMA TypeError ==
    ASSUME TypeInv, NEW w \in Runners, Error(w)
    PROVE  TypeInv'
  BY FailOK DEF Error, tables, AnalyticsTypeOK, TypeInv

LEMMA TypeCelery ==
    ASSUME TypeInv, NEW w \in Workers, Celery(w)
    PROVE  TypeInv'
<1> USE IdleOK DEF TypeInv
<1>0. /\ w \in Runners /\ w # Seeder /\ task[w] \in Task /\ Placed(w, task[w])
      /\ unused \subseteq Books /\ books \subseteq Books
  BY AnalyticsAssumption DEF AnalyticsTypeOK, PlaceInv, Runners
<1>1. CASE Crash(w)
  <2>1. task' = [task EXCEPT ![w] = Idle] /\ UNCHANGED unused
    BY <1>1 DEF Crash, tables
  <2>2. task' \in [Runners -> Task] /\ PlaceInv' /\ FreshInv'
    BY <1>0, <2>1, TaskOK
  <2> QED BY <1>0, <1>1, <2>2 DEF Crash, tables, AnalyticsTypeOK, Placed
<1>2. ASSUME NEW m \in Messages, Fetch(w, m) PROVE TypeInv'
  <2> DEFINE j == [Idle EXCEPT !.pc = "next", !.message = m,
                               !.todo = IF m = Rebuild THEN books ELSE {m}]
  <2>1. j \in Task
    BY <1>0 DEF Task, PCs, Messages
  <2>2. Placed(w, j)
    BY <1>0, AnalyticsAssumption DEF Placed, Reading, Early, Idle, Messages
  <2>3. task' = [task EXCEPT ![w] = j] /\ UNCHANGED unused
    BY <1>2 DEF Fetch, tables
  <2>4. \A c \in unused : j.book # c /\ j.kept[c] = None /\ (w = Seeder => c \notin j.todo)
    BY <1>0 DEF Idle
  <2> HIDE DEF j
  <2>5. task' \in [Runners -> Task] /\ PlaceInv' /\ FreshInv'
    BY <1>0, <2>1, <2>2, <2>3, <2>4, TaskOK
  <2>6. queue' \in [Messages -> Nat] /\ UNCHANGED <<tables, analytics, web, excused, spoiled, failures>>
    BY <1>2 DEF Fetch, AnalyticsTypeOK
  <2> HIDE <1>2
  <2> QED BY <2>5, <2>6 DEF tables, AnalyticsTypeOK
<1> QED BY <1>0, <1>1, <1>2, TypeWork, TypeError DEF Celery

\* The steps of the scripts that are not those of a task.
Scripted ==
    \/ StartSeeding
    \/ \E b \in Books : GetOrCreateBook(b)
    \/ \E b \in Books, u \in Readers : GetOrCreateRating(b, u)
    \/ \E S \in SUBSET Books : AddBooks(S) \/ ReserveBooks(S)
    \/ \E S \in SUBSET (Books \X Readers) : RateBooks(S)
    \/ GoOn

\* What both scripts do when they write books.
ListBooks(S) ==
    /\ At("books")
    /\ books' = books \cup S /\ unused' = unused \ S
    /\ task' = [task EXCEPT ![Seeder].todo = @ \cup S]
    /\ UNCHANGED <<ratings, reservations, analytics, queue, web, excused, spoiled, failures>>

LEMMA BooksListed ==
    ASSUME unused \cap books = {}
    PROVE  /\ \A b \in Books : GetOrCreateBook(b) => ListBooks({b})
           /\ \A S \in SUBSET Books : AddBooks(S) => ListBooks(S)
<1>1. ASSUME NEW b \in Books, GetOrCreateBook(b) PROVE ListBooks({b})
  <2>1. CASE b \in books
    BY <1>1, <2>1 DEF GetOrCreateBook, ListBooks
  <2>2. CASE b \notin books
    BY <1>1, <2>2 DEF GetOrCreateBook, ListBooks, NewBooks
  <2> QED BY <2>1, <2>2
<1>2. ASSUME NEW S \in SUBSET Books, AddBooks(S) PROVE ListBooks(S)
  BY <1>2 DEF AddBooks, ListBooks, NewBooks
<1> QED BY <1>1, <1>2

LEMMA TypeScripted ==
    ASSUME TypeInv, Scripted
    PROVE  TypeInv'
<1> USE IdleOK DEF TypeInv, At, Massive
<1> DEFINE t == task[Seeder]
<1>0. /\ Seeder \in Runners /\ t \in Task /\ Placed(Seeder, t)
      /\ unused \subseteq Books \ books /\ books \subseteq Books
      /\ \A b \in unused : t.book # b /\ t.kept[b] = None /\ b \notin t.todo
  BY DEF AnalyticsTypeOK, PlaceInv, FreshInv, Holds, Runners
<1>1. ASSUME NEW j \in Task, Placed(Seeder, j), task' = [task EXCEPT ![Seeder] = j],
             unused' \subseteq unused,
             \A b \in unused' : j.book # b /\ j.kept[b] = None /\ b \notin j.todo,
             UNCHANGED <<ratings, reservations, queue, web, failures>>,
             books' \subseteq Books \ unused', books \subseteq books',
             analytics' \in [Books -> Row \cup {None}],
             \A b \in Books \ books' : analytics'[b] = None,
             excused' \subseteq Books, spoiled' \subseteq Runners \X Books
      PROVE  TypeInv'
  <2>1. task' \in [Runners -> Task] /\ PlaceInv' /\ FreshInv'
    BY <1>0, <1>1, TaskOK
  <2> QED BY <1>0, <1>1, <2>1 DEF AnalyticsTypeOK
<1>2. ASSUME NEW j \in Task, Placed(Seeder, j), task' = [task EXCEPT ![Seeder] = j],
             \A b \in unused : j.book # b /\ j.kept[b] = None /\ b \notin j.todo,
             UNCHANGED <<tables, analytics, queue, web, excused, spoiled, failures>>
      PROVE  TypeInv'
  BY <1>0, <1>1, <1>2 DEF tables, AnalyticsTypeOK
<1>3. CASE StartSeeding
  <2> PICK m \in Scripts : task' = [task EXCEPT ![Seeder] = [Idle EXCEPT !.pc = "books", !.message = m]]
    BY <1>3 DEF StartSeeding
  <2> DEFINE j == [Idle EXCEPT !.pc = "books", !.message = m]
  <2>1. j \in Task
    BY DEF Task, PCs
  <2>2. Placed(Seeder, j)
    BY AnalyticsAssumption DEF Placed, Reading, Early, Idle, Scripts
  <2>3. \A b \in unused : j.book # b /\ j.kept[b] = None /\ b \notin j.todo
    BY <1>0 DEF Idle
  <2> HIDE DEF j
  <2> QED BY <1>2, <1>3, <2>1, <2>2, <2>3 DEF StartSeeding, j
<1>5. ASSUME NEW S \in SUBSET Books, ListBooks(S) PROVE TypeInv'
  <2> DEFINE j == [t EXCEPT !.todo = @ \cup S]
  <2>1. j \in Task
    BY <1>0 DEF Task
  <2>2. Placed(Seeder, j)
    BY <1>0, <1>5, AnalyticsAssumption DEF ListBooks, Task, Placed, Reading, Early, Scripts
  <2>3. \A c \in unused' : j.book # c /\ j.kept[c] = None /\ c \notin j.todo
    BY <1>0, <1>5 DEF ListBooks, Task
  <2>4. task' = [task EXCEPT ![Seeder] = j]
    BY <1>5 DEF ListBooks, AnalyticsTypeOK
  <2> HIDE DEF j
  <2> QED BY <1>0, <1>1, <1>5, <2>1, <2>2, <2>3, <2>4 DEF ListBooks, AnalyticsTypeOK
<1>6. ASSUME NEW S \in SUBSET Books, ReserveBooks(S) PROVE TypeInv'
  <2>1. CASE S \subseteq books
    <3>1. UNCHANGED task /\ UNCHANGED unused
      BY <1>6, <2>1 DEF ReserveBooks
    <3>2. PlaceInv' /\ FreshInv'
      BY <3>1, SameTasks
    <3> QED BY <1>6, <2>1, <3>1, <3>2 DEF ReserveBooks, AnalyticsTypeOK
  <2>2. CASE ~(S \subseteq books)
    BY <1>0, <1>6, <2>2, FailOK DEF ReserveBooks, AnalyticsTypeOK
  <2> QED BY <2>1, <2>2
<1>7. ASSUME NEW S \in SUBSET (Books \X Readers), WriteRatings(S) PROVE TypeInv'
  <2>1. CASE \A x \in S : x[1] \in books
    <3>1. UNCHANGED task /\ UNCHANGED unused
      BY <1>7, <2>1 DEF WriteRatings
    <3>2. PlaceInv' /\ FreshInv'
      BY <3>1, SameTasks
    <3>3. PICK rate \in [S -> Rates] :
             ratings' = [b \in Books |-> ratings[b] \cup
                           {<<x[2], rate[x]>> : x \in {y \in S : y[1] = b /\ y[2] \notin Rated(b)}}]
      BY <1>7, <2>1 DEF WriteRatings
    <3>4. ratings' \in [Books -> SUBSET (Readers \X Rates)]
      BY <3>3 DEF AnalyticsTypeOK
    <3>5. ASSUME NEW b \in Books \ books PROVE ratings'[b] = {}
      <4>1. {y \in S : y[1] = b /\ y[2] \notin Rated(b)} = {}
        BY <2>1
      <4>2. ratings'[b] = ratings[b] \cup
                           {<<x[2], rate[x]>> : x \in {y \in S : y[1] = b /\ y[2] \notin Rated(b)}}
        BY <3>3
      <4>3. ratings'[b] = ratings[b]
        BY <4>1, <4>2
      <4> QED BY <4>3 DEF AnalyticsTypeOK
    <3> QED BY <1>7, <2>1, <3>1, <3>2, <3>4, <3>5 DEF WriteRatings, AnalyticsTypeOK
  <2>2. CASE ~ \A x \in S : x[1] \in books
    BY <1>0, <1>7, <2>2, FailOK DEF WriteRatings, AnalyticsTypeOK
  <2> QED BY <2>1, <2>2
<1>8. CASE EndBooks
  <2>1. CASE Massive /\ books = {}
    BY <1>0, <1>8, <2>1, FailOK DEF EndBooks, tables, AnalyticsTypeOK
  <2>2. CASE ~(Massive /\ books = {})
    <3> DEFINE j == [t EXCEPT !.pc = "ratings", !.todo = IF Massive THEN books ELSE @]
    <3>1. j \in Task
      BY <1>0 DEF Task, PCs
    <3>2. Placed(Seeder, j)
      BY <1>0, <1>8, AnalyticsAssumption DEF EndBooks, Task, Placed, Reading, Early, Scripts
    <3>3. \A c \in unused : j.book # c /\ j.kept[c] = None /\ c \notin j.todo
      BY <1>0 DEF Task
    <3>4. task' = [task EXCEPT ![Seeder] = j]
      BY <1>8, <2>2 DEF EndBooks, AnalyticsTypeOK
    <3> HIDE DEF j
    <3> QED BY <1>2, <1>8, <2>2, <3>1, <3>2, <3>3, <3>4 DEF EndBooks
  <2> QED BY <2>1, <2>2
<1>9. ASSUME NEW pc \in PCs, Goto(pc), pc \notin Reading \cup {"idle"}, t.pc \notin Reading \cup {"idle"},
             pc = "insert" => t.todo = {},
             pc \in Early => t.pc \in Early \/ t.message # SeedMassive
      PROVE  LET j == [t EXCEPT !.pc = pc]
             IN  /\ j \in Task /\ Placed(Seeder, j) /\ task' = [task EXCEPT ![Seeder] = j]
                 /\ \A c \in unused : j.book # c /\ j.kept[c] = None /\ c \notin j.todo
  <2> DEFINE j == [t EXCEPT !.pc = pc]
  <2>1. j \in Task
    BY <1>0 DEF Task, PCs
  <2>2. Placed(Seeder, j)
    BY <1>0, <1>9 DEF Task, Placed
  <2>3. task' = [task EXCEPT ![Seeder] = j]
    BY <1>9 DEF Goto, AnalyticsTypeOK
  <2>4. \A c \in unused : j.book # c /\ j.kept[c] = None /\ c \notin j.todo
    BY <1>0 DEF Task
  <2> QED BY <2>1, <2>2, <2>3, <2>4
<1>10. CASE EndRatings
  <2> DEFINE pc == IF Massive THEN "reservations" ELSE "next"
  <2>1. /\ pc \in PCs /\ Goto(pc) /\ pc \notin Reading \cup {"idle"} /\ pc # "insert"
        /\ t.pc = "ratings" /\ t.pc \in Early /\ t.pc \notin Reading \cup {"idle"}
    BY <1>10 DEF EndRatings, PCs, Reading, Early
  <2> HIDE DEF pc
  <2> QED BY <1>2, <1>9, <1>10, <2>1 DEF EndRatings
<1>11. CASE EndReservations
  <2>1. /\ "compute" \in PCs /\ Goto("compute") /\ "compute" \notin Reading \cup {"idle"}
        /\ t.pc = "reservations" /\ t.pc \in Early /\ t.pc \notin Reading \cup {"idle"}
    BY <1>11 DEF EndReservations, PCs, Reading, Early
  <2> QED BY <1>2, <1>9, <1>11, <2>1 DEF EndReservations
<1>12. ASSUME NEW b \in Books, TakeBook(b) PROVE TypeInv'
  <2> DEFINE j == [t EXCEPT !.pc = "aggregate", !.book = b, !.todo = @ \ {b}]
  <2>1. j \in Task
    BY <1>0 DEF Task, PCs
  <2>2. Placed(Seeder, j)
    BY <1>0, <1>12, AnalyticsAssumption DEF TakeBook, Task, Placed, Reading, Early, Scripts
  <2>3. \A c \in unused : j.book # c /\ j.kept[c] = None /\ c \notin j.todo
    BY <1>0, <1>12 DEF TakeBook, Task
  <2>4. task' = [task EXCEPT ![Seeder] = j]
    BY <1>12 DEF TakeBook, AnalyticsTypeOK
  <2> HIDE DEF j
  <2> QED BY <1>2, <1>12, <2>1, <2>2, <2>3, <2>4 DEF TakeBook
<1>13. CASE KeepRow
  <2> DEFINE k == [t.kept EXCEPT ![t.book] = t.read]
             j == [t EXCEPT !.pc = "compute", !.book = None, !.read = NewRow, !.kept = k]
  <2>1. /\ t.pc = "save" /\ t.message = SeedMassive /\ t.book \in Books /\ t.book \notin unused
        /\ t.read \in Row
    BY <1>0, <1>13 DEF KeepRow, Placed, Reading, Task
  <2>2. /\ k \in [Books -> Row \cup {None}]
        /\ \A b \in Books \ {t.book} : k[b] = t.kept[b]
    BY <1>0, <2>1 DEF Task
  <2>3. task' = [task EXCEPT ![Seeder] = j]
    BY <1>13 DEF KeepRow
  <2>4. j \in Task
    BY <1>0, <2>2 DEF Task, PCs
  <2>5. Placed(Seeder, j)
    BY <1>0, <2>1, <2>2 DEF Task, Placed, Reading, Early
  <2>6. \A c \in unused : j.book # c /\ j.kept[c] = None /\ c \notin j.todo
    BY <1>0, <2>1, <2>2 DEF Task
  <2> HIDE DEF j
  <2> QED BY <1>2, <1>13, <2>3, <2>4, <2>5, <2>6 DEF KeepRow
<1>14. CASE DeleteRows
  <2>1. /\ "insert" \in PCs /\ Goto("insert") /\ "insert" \notin Reading \cup {"idle"}
        /\ "insert" \notin Early
        /\ t.pc = "compute" /\ t.todo = {} /\ t.pc \notin Reading \cup {"idle"}
    BY <1>14 DEF DeleteRows, PCs, Reading, Early
  <2> DEFINE j == [t EXCEPT !.pc = "insert"]
  <2>2. /\ j \in Task /\ Placed(Seeder, j) /\ task' = [task EXCEPT ![Seeder] = j]
        /\ \A c \in unused : j.book # c /\ j.kept[c] = None /\ c \notin j.todo
    BY <1>9, <2>1
  <2> HIDE DEF j
  <2>3. /\ UNCHANGED <<tables, queue, web, spoiled, failures>>
        /\ analytics' = [b \in Books |-> None] /\ excused' \subseteq Books
    BY <1>0, <1>14 DEF DeleteRows, AnalyticsTypeOK
  <2> QED BY <1>0, <1>1, <2>2, <2>3 DEF tables, AnalyticsTypeOK
<1>15. ASSUME NEW S \in SUBSET Books, InsertRows(S) PROVE TypeInv'
  <2>1. CASE S \subseteq books /\ \A b \in S : analytics[b] = None
    <3> DEFINE k == [b \in Books |-> IF b \in S THEN None ELSE t.kept[b]]
               j == [t EXCEPT !.kept = k]
    <3>1. k \in [Books -> Row \cup {None}] /\ \A b \in Books : k[b] # None => t.kept[b] # None
      BY <1>0 DEF Task
    <3>2. task' = [task EXCEPT ![Seeder] = j]
      BY <1>15, <2>1 DEF InsertRows, AnalyticsTypeOK
    <3>3. j \in Task
      BY <1>0, <3>1 DEF Task
    <3>4. Placed(Seeder, j)
      BY <1>0, <1>15, <3>1, AnalyticsAssumption DEF InsertRows, Task, Placed, Reading, Early, Scripts
    <3>5. \A c \in unused : j.book # c /\ j.kept[c] = None /\ c \notin j.todo
      BY <1>0, <3>1 DEF Task
    <3>6. analytics' \in [Books -> Row \cup {None}] /\ \A b \in Books \ books : analytics'[b] = None
      BY <1>0, <1>15, <2>1 DEF InsertRows, Task, AnalyticsTypeOK
    <3>7. /\ excused' = (excused \ S) \cup {b \in S : <<Seeder, b>> \in spoiled}
          /\ spoiled' = (spoiled \cup Doing(S)) \ ({Seeder} \X S)
          /\ UNCHANGED <<tables, queue, web, failures>>
      BY <1>15, <2>1 DEF InsertRows
    <3>8. excused' \subseteq Books
      BY <3>7 DEF AnalyticsTypeOK
    <3>9. spoiled' \subseteq Runners \X Books
      BY <3>7, DoingOK DEF AnalyticsTypeOK
    <3> HIDE DEF j
    <3> QED BY <1>0, <1>1, <3>2, <3>3, <3>4, <3>5, <3>6, <3>7, <3>8, <3>9 DEF tables
  <2>2. CASE ~(S \subseteq books /\ \A b \in S : analytics[b] = None)
    <3>1. Fail(Seeder) /\ UNCHANGED <<tables, analytics, queue, web, failures>>
      BY <1>15, <2>2 DEF InsertRows
    <3> QED BY <1>0, <3>1, FailOK DEF tables, AnalyticsTypeOK
  <2> QED BY <2>1, <2>2
<1>16. CASE EndSeeding
  <2>1. task' = [task EXCEPT ![Seeder] = Idle]
    BY <1>16 DEF EndSeeding
  <2>2. \A c \in unused : Idle.book # c /\ Idle.kept[c] = None /\ c \notin Idle.todo
    BY <1>0
  <2> QED BY <1>0, <1>2, <1>16, <2>1, <2>2 DEF EndSeeding
<1>17. ASSUME NEW b \in Books, GetOrCreateBook(b) PROVE TypeInv'
  BY <1>0, <1>5, <1>17, BooksListed
<1>18. ASSUME NEW S \in SUBSET Books, AddBooks(S) PROVE TypeInv'
  BY <1>0, <1>5, <1>18, BooksListed
<1>19. ASSUME NEW b \in Books, NEW u \in Readers, GetOrCreateRating(b, u) PROVE TypeInv'
  <2>1. {<<b, u>>} \in SUBSET (Books \X Readers) /\ WriteRatings({<<b, u>>})
    BY <1>19 DEF GetOrCreateRating
  <2> QED BY <1>7, <2>1
<1>20. ASSUME NEW S \in SUBSET (Books \X Readers), RateBooks(S) PROVE TypeInv'
  BY <1>7, <1>20 DEF RateBooks
<1> QED BY <1>3, <1>6, <1>8, <1>10, <1>11, <1>12, <1>13, <1>14, <1>15, <1>16, <1>17, <1>18,
           <1>19, <1>20
        DEF Scripted, GoOn

LEMMA TypeNext == TypeInv /\ [Next]_vars => TypeInv'
<1> SUFFICES ASSUME TypeInv, [Next]_vars PROVE TypeInv'
  OBVIOUS
<1>1. CASE StartRebuild
  BY <1>1, SameTasks DEF StartRebuild, tables, AnalyticsTypeOK, TypeInv, Messages
<1>2. CASE UNCHANGED vars
  BY <1>2, SameTasks DEF vars, AnalyticsTypeOK, TypeInv
<1>3. CASE Seeding
  BY <1>3, TypeScripted, TypeWork, TypeError DEF Seeding, Scripted, Runners
<1> QED BY <1>1, <1>2, <1>3, TypeRequest, TypeEdit, TypeCelery DEF Next, AnalyticsNext

\* Every variable has its type, and a book that has gone has no row
\* (consumers.py:17, models.py:11-16).
THEOREM TypeCorrect == Spec => []AnalyticsTypeOK
<1>1. TypeInv => AnalyticsTypeOK
  BY DEF TypeInv
<1> QED BY <1>1, TypeInit, TypeNext, PTL DEF Spec

-----------------------------------------------------------------------------
(***************************************************************************)
(* The summaries.                                                          *)
(***************************************************************************)

\* The tasks of the book go on as they were, and what is due for it is still due.
LEMMA SettledElsewhere ==
    ASSUME Inv, NEW b \in books, UNCHANGED task,
           \A w \in Runners : <<w, b>> \in spoiled => <<w, b>> \in spoiled',
           ratings'[b] = ratings[b], reservations'[b] = reservations[b],
           analytics'[b] = analytics[b],
           b \in excused => b \in excused',
           queue[b] > 0 \/ queue[Rebuild] > 0 \/ (\E h \in Handlers : web[h] = b) => Coming(b)'
    PROVE  Settled(b)'
<1>1. Settled(b) /\ b # None
  BY IdleOK DEF Inv, TypeInv, AnalyticsTypeOK, SettledInv
<1>2. \A w \in Runners : (Holds(w, b)' <=> Holds(w, b)) /\ (Spoils(w, b) => Spoils(w, b)')
  BY DEF Holds, Spoils
<1>3. Right(b) => Right(b)'
  BY DEF Right
<1>4. Coming(b) => Coming(b)'
  <2>1. ASSUME NEW w \in Runners, Brings(w, b) PROVE Coming(b)'
    BY <2>1 DEF Brings, UpToDate, Current, Coming
  <2> QED BY <2>1 DEF Coming
<1> QED BY <1>1, <1>2, <1>3, <1>4 DEF Settled

\* The book is excused, and all that are at it are known to be late.
LEMMA SettledExcused ==
    ASSUME NEW b, b \in excused', \A w \in Runners : Holds(w, b)' => <<w, b>> \in spoiled'
    PROVE  Settled(b)'
  BY DEF Settled

LEMMA DoingAll ==
    ASSUME NEW S, NEW b \in S \cap Books, NEW w \in Runners, Holds(w, b)
    PROVE  <<w, b>> \in Doing(S)
  BY DEF Doing

LEMMA DoingOnly ==
    ASSUME NEW S, NEW b, NEW w, <<w, b>> \in Doing(S)
    PROVE  b \in S
  BY DEF Doing

LEMMA SettledRequest ==
    ASSUME Inv, NEW h \in Handlers, Request(h), NEW b \in books'
    PROVE  Settled(b)'
<1> USE DEF Inv, TypeInv, AnalyticsTypeOK
<1>1. b \in books /\ b \in Books /\ b # None /\ UNCHANGED task
  BY IdleOK DEF Request, Reserve, Return, Rate, Delay, Drop, tables
<1>2. ASSUME NEW c \in Books, web[h] = None, web' = [web EXCEPT ![h] = c],
             UNCHANGED <<analytics, queue, task, excused, spoiled>>,
             b # c => ratings'[b] = ratings[b] /\ reservations'[b] = reservations[b]
      PROVE  Settled(b)'
  <2>1. CASE b = c
    BY <1>2, <2>1 DEF Settled, Coming
  <2>2. CASE b # c
    <3>1. queue[b] > 0 \/ queue[Rebuild] > 0 \/ (\E g \in Handlers : web[g] = b) => Coming(b)'
      BY <1>1, <1>2 DEF Coming
    <3> QED BY <1>1, <1>2, <2>2, <3>1, SettledElsewhere
  <2> QED BY <2>1, <2>2
<1>3. CASE \E c \in Books : Reserve(h, c) \/ Return(h, c)
  BY <1>1, <1>2, <1>3 DEF Reserve, Return, CanWrite, tables
<1>4. CASE \E c \in Books, u \in Readers, rate \in Rates : Rate(h, c, u, rate)
  BY <1>1, <1>2, <1>4 DEF Rate, CanWrite
<1>5. CASE Delay(h)
  <2>1. queue[b] > 0 \/ queue[Rebuild] > 0 \/ (\E g \in Handlers : web[g] = b) => Coming(b)'
    BY <1>1, <1>5 DEF Delay, Coming, Messages
  <2> QED BY <1>1, <1>5, <2>1, SettledElsewhere DEF Delay, tables
<1>6. CASE Drop(h)
  <2>1. CASE web[h] = b
    <3>1. b \in excused' /\ \A w \in Runners : Holds(w, b)' => <<w, b>> \in spoiled'
      BY <1>1, <1>6, <2>1 DEF Drop, Excuse, Doing, Holds
    <3> QED BY <3>1, SettledExcused
  <2>2. CASE web[h] # b
    <3>1. queue[b] > 0 \/ queue[Rebuild] > 0 \/ (\E g \in Handlers : web[g] = b) => Coming(b)'
      BY <1>1, <1>6, <2>2 DEF Drop, Coming
    <3> QED BY <1>1, <1>6, <3>1, SettledElsewhere DEF Drop, Excuse, tables
  <2> QED BY <2>1, <2>2
<1> QED BY <1>3, <1>4, <1>5, <1>6 DEF Request

LEMMA SettledEdit ==
    ASSUME Inv, Edit, NEW b \in books'
    PROVE  Settled(b)'
<1> USE DEF Inv, TypeInv, AnalyticsTypeOK
<1>1. b \in Books /\ b # None /\ UNCHANGED <<task, queue, web>>
  BY IdleOK DEF Edit, CreateBook, DeleteBook, MoveReservation
<1>2. queue[b] > 0 \/ queue[Rebuild] > 0 \/ (\E h \in Handlers : web[h] = b) => Coming(b)'
  BY <1>1 DEF Coming
<1>3. ASSUME NEW c \in Books, DeleteBook(c) PROVE Settled(b)'
  BY <1>1, <1>2, <1>3, SettledElsewhere DEF DeleteBook
<1>4. ASSUME NEW c \in Books, NEW to \in Books \cup {None}, MoveReservation(c, to)
      PROVE  Settled(b)'
  <2>0. b \in books
    BY <1>4 DEF MoveReservation
  <2>1. CASE b \in {c, to}
    <3>1. b \in excused' /\ \A w \in Runners : Holds(w, b)' => <<w, b>> \in spoiled'
      BY <1>1, <1>4, <2>0, <2>1 DEF MoveReservation, Excuse, Doing, Holds
    <3> QED BY <3>1, SettledExcused
  <2>2. CASE b \notin {c, to}
    <3>1. reservations'[b] = reservations[b]
      BY <1>1, <1>4, <2>2 DEF MoveReservation
    <3> QED BY <1>1, <1>2, <1>4, <2>0, <3>1, SettledElsewhere DEF MoveReservation, Excuse
  <2> QED BY <2>1, <2>2
<1>5. ASSUME NEW c \in Books, CreateBook(c) PROVE Settled(b)'
  <2>1. CASE b = c
    <3>1. Right(b)'
      BY <1>1, <1>5, <2>1 DEF CreateBook, Right, NewRow
    <3>2. \A w \in Runners : ~Holds(w, b)'
      BY <1>1, <1>5, <2>1 DEF CreateBook, FreshInv, Holds
    <3> QED BY <3>1, <3>2 DEF Settled
  <2>2. CASE b # c
    BY <1>1, <1>2, <1>5, <2>2, SettledElsewhere DEF CreateBook
  <2> QED BY <2>1, <2>2
<1> QED BY <1>3, <1>4, <1>5 DEF Edit

\* Of what is coming for a book, only the part of one task may go.
LEMMA ComingStep ==
    ASSUME NEW b, NEW w \in Runners, UNCHANGED <<tables, web>>,
           \A v \in Runners \ {w} : task'[v] = task[v],
           queue[b] > 0 \/ queue[Rebuild] > 0 => Coming(b)',
           Brings(w, b) => Coming(b)'
    PROVE  Coming(b) => Coming(b)'
<1>1. ASSUME NEW h \in Handlers, web[h] = b PROVE Coming(b)'
  BY <1>1 DEF Coming
<1>2. ASSUME NEW v \in Runners \ {w}, Brings(v, b) PROVE Coming(b)'
  <2>1. task'[v] = task[v]
    OBVIOUS
  <2> QED BY <1>2, <2>1 DEF Coming, Brings, UpToDate, Current, tables
<1> QED BY <1>1, <1>2 DEF Coming

\* A step of one task that leaves the tables and the rows alone.
LEMMA SettledReading ==
    ASSUME Inv, NEW w \in Runners, UNCHANGED <<tables, analytics, web, excused>>,
           NEW b \in books,
           \A v \in Runners \ {w} : /\ task'[v] = task[v]
                                    /\ <<v, b>> \in spoiled => <<v, b>> \in spoiled',
           Coming(b) => Coming(b)',
           Holds(w, b)' => Coming(b)' \/ Spoils(w, b)',
           Spoils(w, b) => Coming(b)' \/ Spoils(w, b)'
    PROVE  Settled(b)'
<1>1. Settled(b) /\ (Right(b) => Right(b)')
  BY DEF Inv, SettledInv, Right, tables
<1>2. ASSUME NEW v \in Runners \ {w}
      PROVE  (Holds(v, b)' <=> Holds(v, b)) /\ (Spoils(v, b) => Spoils(v, b)')
  <2>1. task'[v] = task[v] /\ (<<v, b>> \in spoiled => <<v, b>> \in spoiled')
    OBVIOUS
  <2> QED BY <2>1 DEF Holds, Spoils
<1>3. ASSUME NEW v \in Runners, Holds(v, b)' PROVE <<v, b>> \in spoiled' \/ Coming(b)'
  <2>1. CASE v = w
    BY <1>3, <2>1 DEF Spoils
  <2>2. CASE v # w
    BY <1>1, <1>2, <1>3, <2>2 DEF Settled, Spoils
  <2> QED BY <2>1, <2>2
<1>4. (\E v \in Runners : Spoils(v, b)) => Coming(b)' \/ \E v \in Runners : Spoils(v, b)'
  BY <1>2
<1> QED BY <1>1, <1>3, <1>4 DEF Settled

\* An exception excuses all books it leaves undone.
LEMMA SettledFail ==
    ASSUME Inv, NEW w \in Runners, Fail(w), UNCHANGED <<tables, analytics, queue, web>>,
           NEW b \in books
    PROVE  Settled(b)'
<1> DEFINE lost == task[w].todo \cup {c \in Books : Holds(w, c)}
<1>1. /\ excused' = excused \cup (lost \cap books)
      /\ spoiled' = (spoiled \cup Doing(lost)) \ ({w} \X Books)
  BY Zenon DEF Fail
<1>2. /\ b # None /\ b \in Books /\ Settled(b)
      /\ task'[w] = Idle /\ \A v \in Runners \ {w} : task'[v] = task[v]
  BY IdleOK DEF Fail, Inv, TypeInv, AnalyticsTypeOK, SettledInv
<1>3. ~Holds(w, b)'
  BY <1>2, IdleOK DEF Holds
<1>4. ASSUME NEW v \in Runners \ {w}
      PROVE  /\ Holds(v, b)' <=> Holds(v, b)
             /\ <<v, b>> \in spoiled \cup Doing(lost) => <<v, b>> \in spoiled'
  BY <1>1, <1>2 DEF Holds
<1> HIDE DEF lost
<1>5. CASE b \in lost
  <2>1. b \in excused'
    BY <1>1, <1>5
  <2>2. ASSUME NEW v \in Runners, Holds(v, b)' PROVE <<v, b>> \in spoiled'
    <3>1. v # w
      BY <1>3, <2>2
    <3>2. Holds(v, b)
      BY <1>4, <2>2, <3>1
    <3>3. <<v, b>> \in Doing(lost)
      BY <1>2, <1>5, <3>2, DoingAll
    <3> QED BY <1>4, <3>1, <3>3
  <2> QED BY <2>1, <2>2, SettledExcused
<1>6. CASE b \notin lost
  <2>1. b \notin task[w].todo /\ ~Holds(w, b)
    BY <1>2, <1>6 DEF lost
  <2>2. ~Brings(w, b)
    BY <1>2, <2>1, IdleOK DEF Brings, Holds, Current, Row, Inv, TypeInv, AnalyticsTypeOK
  <2>3. Coming(b) => Coming(b)'
    BY <2>2, <1>2, ComingStep DEF Coming
  <2>4. Right(b) => Right(b)'
    BY DEF Right, tables
  <2>5. \A v \in Runners : Spoils(v, b) => Spoils(v, b)'
    BY <1>4, <2>1 DEF Spoils
  <2>6. \A v \in Runners : Holds(v, b)' => Holds(v, b) /\ (<<v, b>> \in spoiled => <<v, b>> \in spoiled')
    BY <1>3, <1>4
  <2> QED BY <1>1, <1>2, <2>3, <2>4, <2>5, <2>6 DEF Settled
<1> QED BY <1>5, <1>6

LEMMA SettledWork ==
    ASSUME Inv, TypeInv', NEW w \in Runners, Work(w), NEW b \in books'
    PROVE  Settled(b)'
<1>1. /\ b \in books /\ b \in Books /\ Settled(b) /\ b # None /\ b # Rebuild
      /\ b \in Messages /\ Rebuild \in Messages
      /\ task \in [Runners -> Task] /\ task[w] \in Task /\ Placed(w, task[w])
      /\ Current(b) # None
  <2>1. books' = books
    BY DEF Work, GetBook, Acknowledge, GetOrCreate, Aggregate, Count, Save, tables
  <2> QED BY <2>1, AnalyticsAssumption
          DEF Inv, TypeInv, AnalyticsTypeOK, PlaceInv, SettledInv, Messages, Current, Row
<1>2. ASSUME NEW c \in Books, GetBook(w, c) PROVE Settled(b)'
  <2>1. /\ b \in task[w].todo => b \in task'[w].todo \/ task'[w].book = b
        /\ task'[w].book # None => task'[w].pc = "get_or_create"
        /\ task[w].book = None /\ task'[w].kept = task[w].kept /\ task[w].kept[b] = None
        /\ \A v \in Runners \ {w} : task'[v] = task[v]
    BY <1>1, <1>2 DEF GetBook, Task, Placed, Reading, Early
  <2>2. ~Holds(w, b) /\ (Holds(w, b)' => Coming(b)')
    BY <1>1, <2>1 DEF Coming, Brings, UpToDate, Holds
  <2>3. Coming(b) => Coming(b)'
    <3>1. UNCHANGED <<tables, web, queue>>
      BY <1>2 DEF GetBook
    <3>2. Brings(w, b) => Coming(b)'
      BY <1>1, <2>1 DEF Brings, Coming, UpToDate
    <3> QED BY <1>1, <2>1, <3>1, <3>2, ComingStep DEF Coming
  <2>4. UNCHANGED <<tables, analytics, web, excused, spoiled>>
    BY <1>2 DEF GetBook
  <2> QED BY <1>1, <2>1, <2>2, <2>3, <2>4, SettledReading DEF Spoils
<1>3. CASE Acknowledge(w)
  <2>1. /\ task[w].book = None /\ task[w].todo = {} /\ task[w].kept[b] = None /\ task'[w] = Idle
        /\ \A v \in Runners \ {w} : task'[v] = task[v]
    BY <1>1, <1>3 DEF Acknowledge, Placed, Reading, Early
  <2>2. ~Holds(w, b) /\ ~Holds(w, b)' /\ ~Brings(w, b)
    BY <1>1, <2>1, IdleOK DEF Holds, Brings
  <2>3. UNCHANGED <<tables, analytics, web, queue, excused, spoiled>>
    BY <1>3 DEF Acknowledge
  <2>4. Coming(b) => Coming(b)'
    BY <2>1, <2>2, <2>3, ComingStep DEF Coming
  <2> QED BY <1>1, <2>1, <2>2, <2>3, <2>4, SettledReading DEF Spoils
<1>4. CASE GetOrCreate(w)
  <2>1. CASE task[w].book \in books
    <3>1. /\ task'[w].book = task[w].book /\ task'[w].todo = task[w].todo
          /\ task'[w].kept = task[w].kept /\ task'[w].pc = "aggregate"
          /\ \A v \in Runners \ {w} : task'[v] = task[v]
          /\ UNCHANGED <<tables, queue, web, excused, spoiled>>
      BY <1>1, <1>4, <2>1 DEF GetOrCreate, Task
    <3>2. Right(b) => Right(b)'
      BY <1>1, <1>4, <2>1 DEF GetOrCreate, Right, tables, Inv, TypeInv, AnalyticsTypeOK
    <3>3. Coming(b) => Coming(b)'
      <4>1. Brings(w, b) => Coming(b)'
        BY <3>1 DEF Brings, Coming, UpToDate, Current, tables
      <4> QED BY <3>1, <4>1, ComingStep DEF Coming
    <3>4. \A v \in Runners : (Holds(v, b)' <=> Holds(v, b)) /\ (Spoils(v, b) => Spoils(v, b)')
      BY <3>1 DEF Holds, Spoils
    <3> QED BY <1>1, <3>1, <3>2, <3>3, <3>4 DEF Settled
  <2>2. CASE task[w].book \notin books
    BY <1>1, <1>4, <2>2, SettledFail DEF GetOrCreate
  <2> QED BY <2>1, <2>2
<1>5. CASE Aggregate(w)
  <2>1. /\ task'[w].book = task[w].book /\ task'[w].todo = task[w].todo
        /\ task'[w].kept = task[w].kept
        /\ task'[w].pc = "count" /\ task'[w].read.rated = ratings[task[w].book]
        /\ \A v \in Runners \ {w} : task'[v] = task[v]
        /\ UNCHANGED <<tables, analytics, queue, web, excused, spoiled>>
    BY <1>1, <1>5 DEF Aggregate, Task, Row
  <2>2. Brings(w, b) \/ task[w].book = b => Coming(b)'
    BY <2>1 DEF Brings, Coming, UpToDate, Current, tables
  <2>3. Coming(b) => Coming(b)'
    BY <2>1, <2>2, ComingStep DEF Coming
  <2>4. (Holds(w, b)' <=> Holds(w, b)) /\ (Spoils(w, b) => Spoils(w, b)')
    BY <2>1 DEF Holds, Spoils
  <2>5. Holds(w, b) => <<w, b>> \in spoiled \/ Coming(b)
    BY <1>1 DEF Settled
  <2> QED BY <1>1, <2>1, <2>2, <2>3, <2>4, <2>5, SettledReading DEF Spoils
<1>6. CASE Count(w)
  <2>1. /\ task'[w].book = task[w].book /\ task'[w].todo = task[w].todo
        /\ task'[w].kept = task[w].kept
        /\ task[w].pc = "count" /\ task'[w].pc = "save"
        /\ task'[w].read.rated = task[w].read.rated
        /\ task'[w].read.reserved = reservations[task[w].book]
        /\ \A v \in Runners \ {w} : task'[v] = task[v]
        /\ UNCHANGED <<tables, analytics, queue, web, excused, spoiled>>
    BY <1>1, <1>6 DEF Count, Task, Row
  <2>2. Brings(w, b) => Coming(b)'
    <3>1. UpToDate(w) /\ task[w].book = b => UpToDate(w)'
      BY <2>1 DEF UpToDate, tables
    <3> QED BY <2>1, <3>1 DEF Brings, Coming, Current, tables
  <2>3. Coming(b) => Coming(b)'
    BY <2>1, <2>2, ComingStep DEF Coming
  <2>4. (Holds(w, b)' <=> Holds(w, b)) /\ (Spoils(w, b) => Spoils(w, b)')
    BY <2>1 DEF Holds, Spoils
  <2>5. Holds(w, b) => <<w, b>> \in spoiled \/ Coming(b)
    BY <1>1 DEF Settled
  <2> QED BY <1>1, <2>1, <2>3, <2>4, <2>5, SettledReading DEF Spoils
<1>7. CASE Save(w)
  <2>1. CASE task[w].book \in books
    <3>1. /\ SaveRow(w) /\ task[w].pc = "save" /\ UNCHANGED <<tables, queue, web>>
          /\ task[w].read = [rated |-> task[w].read.rated, reserved |-> task[w].read.reserved]
          /\ task[w].read # None
          /\ task[w].kept[b] = None /\ task[w].book \in Books
      BY <1>1, <1>7, <2>1, AnalyticsAssumption DEF Save, Task, Row, Placed, Reading
    <3>2. /\ task'[w].book = None /\ task'[w].todo = task[w].todo /\ task'[w].kept = task[w].kept
          /\ \A v \in Runners \ {w} : task'[v] = task[v]
      BY <1>1, <3>1 DEF SaveRow, Task
    <3>3. /\ analytics' = [analytics EXCEPT ![task[w].book] = task[w].read]
          /\ excused' = IF <<w, task[w].book>> \in spoiled THEN excused \cup {task[w].book}
                                                       ELSE excused \ {task[w].book}
          /\ spoiled' = (spoiled \cup Doing({task[w].book})) \ {<<w, task[w].book>>}
      BY <3>1, Zenon DEF SaveRow
    <3>4. ~Holds(w, b)'
      BY <1>1, <3>1, <3>2 DEF Holds
    <3>5. \A v \in Runners \ {w} : Holds(v, b)' <=> Holds(v, b)
      BY <3>2 DEF Holds
    <3>6. CASE task[w].book # b
      <4>1. ~Holds(w, b) /\ (Brings(w, b) => Coming(b)')
        BY <1>1, <3>1, <3>2, <3>6 DEF Holds, Brings, Coming
      <4>2. Coming(b) => Coming(b)'
        BY <3>1, <3>2, <4>1, ComingStep DEF Coming
      <4>3. (Right(b) => Right(b)') /\ (b \in excused => b \in excused')
        BY <1>1, <3>1, <3>3, <3>6 DEF Right, tables, Inv, TypeInv, AnalyticsTypeOK
      <4>4. \A v \in Runners : <<v, b>> \in spoiled => <<v, b>> \in spoiled'
        BY <3>3, <3>6
      <4> QED BY <1>1, <3>4, <3>5, <4>1, <4>2, <4>3, <4>4 DEF Settled, Spoils
    <3>7. CASE task[w].book = b
      <4>1. ASSUME NEW v \in Runners, Holds(v, b)' PROVE <<v, b>> \in spoiled'
        <5>1. v # w /\ Holds(v, b)
          BY <3>4, <3>5, <4>1
        <5>2. <<v, b>> \in Doing({b})
          BY <1>1, <5>1, DoingAll
        <5> QED BY <3>3, <3>7, <5>1, <5>2
      <4>2. CASE <<w, b>> \in spoiled
        BY <3>3, <3>7, <4>1, <4>2, SettledExcused
      <4>3. CASE UpToDate(w)
        <5>1. Right(b)'
          BY <1>1, <3>1, <3>3, <3>7, <4>3 DEF UpToDate, Right, tables, Inv, TypeInv, AnalyticsTypeOK
        <5> QED BY <4>1, <5>1 DEF Settled
      <4>4. CASE <<w, b>> \notin spoiled /\ ~UpToDate(w)
        <5>1. Coming(b)
          BY <1>1, <3>7, <4>4 DEF Settled, Holds
        <5>2. Brings(w, b) => Coming(b)'
          BY <1>1, <3>1, <3>2, <4>4 DEF Brings, Coming
        <5>3. Coming(b)'
          BY <3>1, <3>2, <5>1, <5>2, ComingStep DEF Coming
        <5> QED BY <4>1, <5>3 DEF Settled
      <4> QED BY <4>2, <4>3, <4>4
    <3> QED BY <3>6, <3>7
  <2>2. CASE task[w].book \notin books
    BY <1>1, <1>7, <2>2, SettledFail DEF Save
  <2> QED BY <2>1, <2>2
<1> QED BY <1>2, <1>3, <1>4, <1>5, <1>6, <1>7 DEF Work

LEMMA SettledError ==
    ASSUME Inv, NEW w \in Runners, Error(w), NEW b \in books'
    PROVE  Settled(b)'
<1>1. Fail(w) /\ UNCHANGED <<tables, analytics, queue, web>>
  BY DEF Error
<1> QED BY <1>1, SettledFail DEF tables

LEMMA SettledCelery ==
    ASSUME Inv, TypeInv', NEW w \in Workers, Celery(w), NEW b \in books'
    PROVE  Settled(b)'
<1>0. w \in Runners /\ w # Seeder
  BY AnalyticsAssumption DEF Runners
<1>1. CASE Crash(w)
  <2>1. /\ b \in books /\ b \in Books /\ b # None /\ b \in Messages
        /\ task[w] \in Task /\ Placed(w, task[w]) /\ queue \in [Messages -> Nat]
        /\ UNCHANGED <<tables, analytics, web, excused>>
        /\ Current(b) # None
    BY <1>0, <1>1, AnalyticsAssumption
       DEF Crash, tables, Inv, TypeInv, AnalyticsTypeOK, PlaceInv, Messages, Current, Row
  <2>2. /\ task'[w] = Idle /\ \A v \in Runners \ {w} : task'[v] = task[v]
        /\ task[w].message \in Messages
        /\ \A v \in Runners \ {w} : <<v, b>> \in spoiled => <<v, b>> \in spoiled'
    BY <1>0, <1>1, <2>1 DEF Crash, Placed, Inv, TypeInv, AnalyticsTypeOK
  <2>3. task[w].message # SeedMassive /\ task[w].kept[b] = None
    BY <2>1, <2>2, AnalyticsAssumption DEF Placed, Messages
  <2>4. b \in task[w].todo \/ task[w].book = b => task[w].message \in {b, Rebuild}
    BY <2>1, <2>2 DEF Placed, Messages
  <2>5. /\ \A m \in Messages : queue[m] > 0 => queue'[m] > 0
        /\ queue'[task[w].message] > 0
    BY <1>1, <2>1, <2>2 DEF Crash
  <2>6. Brings(w, b) \/ Holds(w, b) => Coming(b)'
    BY <2>1, <2>3, <2>4, <2>5 DEF Brings, Holds, Coming
  <2>7. Coming(b) => Coming(b)'
    <3>1. queue[b] > 0 \/ queue[Rebuild] > 0 => Coming(b)'
      BY <2>1, <2>5 DEF Coming, Messages
    <3> QED BY <1>0, <2>1, <2>2, <2>6, <3>1, ComingStep
  <2>8. ~Holds(w, b)'
    BY <2>1, <2>2, IdleOK DEF Holds
  <2> QED BY <1>0, <2>1, <2>2, <2>6, <2>7, <2>8, SettledReading DEF Spoils
<1>2. ASSUME NEW m \in Messages, Fetch(w, m) PROVE Settled(b)'
  <2>1. /\ b \in books /\ b \in Books /\ b # None /\ b \in Messages /\ b # Rebuild
        /\ task[w] = Idle /\ queue \in [Messages -> Nat]
        /\ UNCHANGED <<tables, analytics, web, excused, spoiled>>
        /\ Current(b) # None
    BY <1>0, <1>2, AnalyticsAssumption
       DEF Fetch, MayStart, tables, Inv, TypeInv, AnalyticsTypeOK, PlaceInv, Placed, Messages, Current, Row
  <2>2. /\ task'[w].todo = IF m = Rebuild THEN books ELSE {m}
        /\ task'[w].book = None /\ task'[w].kept = Idle.kept
        /\ \A v \in Runners \ {w} : task'[v] = task[v]
    BY <1>0, <1>2 DEF Fetch, Idle, Inv, TypeInv, AnalyticsTypeOK
  <2>3. \A n \in Messages \ {m} : queue'[n] = queue[n]
    BY <1>2, <2>1 DEF Fetch
  <2>4. ~Brings(w, b) /\ ~Holds(w, b) /\ ~Holds(w, b)'
    BY <2>1, <2>2, IdleOK DEF Brings, Holds
  <2>5. queue[b] > 0 \/ queue[Rebuild] > 0 => Coming(b)'
    <3>1. m \in {b, Rebuild} => b \in task'[w].todo
      BY <2>1, <2>2
    <3> QED BY <1>0, <2>1, <2>3, <3>1 DEF Coming, Brings, Messages
  <2>6. Coming(b) => Coming(b)'
    BY <1>0, <2>1, <2>2, <2>4, <2>5, ComingStep
  <2> QED BY <1>0, <2>1, <2>2, <2>4, <2>6, SettledReading DEF Spoils
<1> QED BY <1>0, <1>1, <1>2, SettledWork, SettledError DEF Celery

\* The script has the book on its list: it will still see to it.
LEMMA SettledListed ==
    ASSUME NEW b, b \in task'[Seeder].todo
    PROVE  Settled(b)'
  BY DEF Settled, Coming, Brings, Runners

LEMMA SettledScripted ==
    ASSUME Inv, TypeInv', Scripted, NEW b \in books'
    PROVE  Settled(b)'
<1> USE DEF At, Massive
<1> DEFINE t == task[Seeder]
<1>0. /\ Seeder \in Runners /\ t \in Task /\ Placed(Seeder, t) /\ task \in [Runners -> Task]
      /\ b \in Books /\ b # None /\ Current(b) # None /\ b # Rebuild
      /\ b \in books => Settled(b)
      /\ unused \cap books = {}
  BY AnalyticsAssumption
     DEF Inv, TypeInv, AnalyticsTypeOK, PlaceInv, SettledInv, Runners, Current, Row
<1>1. ASSUME b \in books, UNCHANGED <<tables, analytics, web, queue, excused, spoiled>>,
             \A v \in Runners \ {Seeder} : task'[v] = task[v],
             b \in t.todo => b \in task'[Seeder].todo,
             t.book # b, task'[Seeder].book # b, task'[Seeder].kept = t.kept
      PROVE  Settled(b)'
  <2>1. (Holds(Seeder, b)' <=> Holds(Seeder, b)) /\ (Spoils(Seeder, b) => Spoils(Seeder, b)')
    BY <1>1 DEF Holds, Spoils
  <2>2. Brings(Seeder, b) => Coming(b)'
    BY <1>0, <1>1 DEF Brings, Coming, Current, tables
  <2>3. Coming(b) => Coming(b)'
    BY <1>0, <1>1, <2>2, ComingStep DEF Coming
  <2>4. Holds(Seeder, b) => <<Seeder, b>> \in spoiled \/ Coming(b)
    BY <1>0, <1>1 DEF Settled
  <2> QED BY <1>0, <1>1, <2>1, <2>3, <2>4, SettledReading DEF Spoils
<1>2. CASE StartSeeding
  <2>1. /\ t = Idle /\ b \in books
        /\ UNCHANGED <<tables, analytics, web, queue, excused, spoiled>>
        /\ \A v \in Runners \ {Seeder} : task'[v] = task[v]
        /\ task'[Seeder].book = Idle.book /\ task'[Seeder].kept = Idle.kept
    BY <1>0, <1>2 DEF StartSeeding, MayStart, tables, Placed, Idle
  <2> QED BY <1>0, <1>1, <2>1, IdleOK
<1>4. ASSUME NEW S \in SUBSET Books, ListBooks(S) PROVE Settled(b)'
  <2>1. /\ task'[Seeder].todo = t.todo \cup S
        /\ task'[Seeder].book = None /\ task'[Seeder].kept = t.kept /\ t.book = None
        /\ \A v \in Runners \ {Seeder} : task'[v] = task[v]
        /\ UNCHANGED <<ratings, reservations, analytics, queue, web, excused, spoiled>>
    BY <1>0, <1>4 DEF ListBooks, Placed, Reading, Task
  <2>2. CASE b \in S
    BY <2>1, <2>2, SettledListed
  <2>3. CASE b \notin S
    <3>1. b \in books
      BY <1>4, <2>3 DEF ListBooks
    <3>2. \A v \in Runners : (Holds(v, b)' <=> Holds(v, b)) /\ (Spoils(v, b) => Spoils(v, b)')
      BY <2>1 DEF Holds, Spoils
    <3>3. ASSUME NEW v \in Runners, Brings(v, b) PROVE Brings(v, b)'
      <4>1. CASE v = Seeder
        BY <1>0, <2>1, <3>3, <4>1 DEF Brings, Current
      <4>2. CASE v # Seeder
        BY <2>1, <3>3, <4>2 DEF Brings, Current, UpToDate
      <4> QED BY <4>1, <4>2
    <3>4. Coming(b) => Coming(b)'
      BY <2>1, <3>3 DEF Coming
    <3>5. Right(b) => Right(b)'
      BY <2>1 DEF Right
    <3> QED BY <1>0, <2>1, <3>1, <3>2, <3>4, <3>5 DEF Settled
  <2> QED BY <2>2, <2>3
<1>5. ASSUME Fail(Seeder), UNCHANGED <<tables, analytics, queue, web>> PROVE Settled(b)'
  BY <1>0, <1>5, SettledFail DEF tables
<1>6. ASSUME NEW S \in SUBSET Books, ReserveBooks(S) PROVE Settled(b)'
  <2>1. CASE S \subseteq books
    <3>1. /\ reservations' = [c \in Books |-> IF c \in S THEN reservations[c] + 1 ELSE reservations[c]]
          /\ S \subseteq t.todo
          /\ UNCHANGED <<books, ratings, analytics, queue, web, task, excused, spoiled>>
      BY <1>6, <2>1 DEF ReserveBooks
    <3>2. CASE b \in S
      BY <3>1, <3>2, SettledListed
    <3>3. CASE b \notin S
      BY <1>0, <3>1, <3>3, SettledElsewhere DEF Coming
    <3> QED BY <3>2, <3>3
  <2>2. CASE ~(S \subseteq books)
    BY <1>5, <1>6, <2>2 DEF ReserveBooks, tables
  <2> QED BY <2>1, <2>2
<1>7. ASSUME NEW S \in SUBSET (Books \X Readers), S \subseteq t.todo \X Readers, WriteRatings(S)
      PROVE  Settled(b)'
  <2>1. CASE \A x \in S : x[1] \in books
    <3>1. /\ S \subseteq t.todo \X Readers
          /\ UNCHANGED <<books, reservations, analytics, queue, web, task, excused, spoiled>>
      BY <1>7, <2>1 DEF WriteRatings
    <3>2. PICK rate \in [S -> Rates] :
             ratings' = [c \in Books |-> ratings[c] \cup
                           {<<x[2], rate[x]>> : x \in {y \in S : y[1] = c /\ y[2] \notin Rated(c)}}]
      BY <1>7, <2>1 DEF WriteRatings
    <3>3. CASE b \in t.todo
      BY <3>1, <3>3, SettledListed
    <3>4. CASE b \notin t.todo
      <4>1. {y \in S : y[1] = b /\ y[2] \notin Rated(b)} = {}
        BY <3>1, <3>4
      <4>2. ratings'[b] = ratings[b] \cup
                           {<<x[2], rate[x]>> : x \in {y \in S : y[1] = b /\ y[2] \notin Rated(b)}}
        BY <1>0, <3>2
      <4>3. ratings'[b] = ratings[b]
        BY <4>1, <4>2
      <4> QED BY <1>0, <3>1, <4>3, SettledElsewhere DEF Coming
    <3> QED BY <3>3, <3>4
  <2>2. CASE ~ \A x \in S : x[1] \in books
    BY <1>5, <1>7, <2>2 DEF WriteRatings, tables
  <2> QED BY <2>1, <2>2
<1>8. CASE EndBooks
  <2>1. CASE Massive /\ books = {}
    BY <1>5, <1>8, <2>1 DEF EndBooks
  <2>2. CASE ~(Massive /\ books = {})
    <3>1. /\ b \in books /\ t.book = None
          /\ UNCHANGED <<tables, analytics, web, queue, excused, spoiled>>
          /\ \A v \in Runners \ {Seeder} : task'[v] = task[v]
          /\ task'[Seeder].book = t.book /\ task'[Seeder].kept = t.kept
          /\ task'[Seeder].todo = IF Massive THEN books ELSE t.todo
      BY <1>0, <1>8, <2>2 DEF EndBooks, tables, Placed, Reading, Task
    <3> QED BY <1>0, <1>1, <3>1
  <2> QED BY <2>1, <2>2
<1>9. ASSUME NEW pc \in PCs, Goto(pc), t.pc \notin Reading,
             UNCHANGED <<tables, analytics, web, queue, excused, spoiled>>
      PROVE  Settled(b)'
  <2>1. /\ b \in books /\ t.book = None
        /\ \A v \in Runners \ {Seeder} : task'[v] = task[v]
        /\ task'[Seeder].book = t.book /\ task'[Seeder].kept = t.kept
        /\ task'[Seeder].todo = t.todo
    BY <1>0, <1>9 DEF Goto, tables, Placed, Task
  <2> QED BY <1>0, <1>1, <1>9, <2>1
<1>10. CASE EndRatings
  <2> DEFINE pc == IF Massive THEN "reservations" ELSE "next"
  <2>1. pc \in PCs /\ Goto(pc) /\ t.pc \notin Reading
    BY <1>10 DEF EndRatings, PCs, Reading
  <2> HIDE DEF pc
  <2> QED BY <1>9, <1>10, <2>1 DEF EndRatings
<1>11. CASE EndReservations
  BY <1>9, <1>11 DEF EndReservations, PCs, Reading
<1>12. ASSUME NEW c \in Books, TakeBook(c) PROVE Settled(b)'
  <2>1. /\ b \in books /\ t.book = None /\ c \in t.todo
        /\ UNCHANGED <<tables, analytics, web, queue, excused, spoiled>>
        /\ \A v \in Runners \ {Seeder} : task'[v] = task[v]
        /\ task'[Seeder].book = c /\ task'[Seeder].kept = t.kept
        /\ task'[Seeder].todo = t.todo \ {c} /\ task'[Seeder].pc = "aggregate"
    BY <1>0, <1>12 DEF TakeBook, tables, Placed, Reading, Task
  <2>2. CASE b # c
    BY <1>0, <1>1, <2>1, <2>2
  <2>3. CASE b = c
    <3>1. Coming(b)'
      BY <1>0, <2>1, <2>3 DEF Coming, Brings, UpToDate
    <3> QED BY <3>1 DEF Settled
  <2> QED BY <2>2, <2>3
<1>13. CASE KeepRow
  <2>1. /\ b \in books /\ t.book \in Books /\ t.pc = "save" /\ t.read \in Row
        /\ t.kept \in [Books -> Row \cup {None}]
        /\ UNCHANGED <<tables, analytics, web, queue, excused, spoiled>>
        /\ t.book = b => t.kept[b] = None
    BY <1>0, <1>13 DEF KeepRow, tables, Placed, Reading, Task
  <2>2. task' = [task EXCEPT ![Seeder] = [t EXCEPT !.pc = "compute", !.book = None, !.read = NewRow,
                                                   !.kept = [t.kept EXCEPT ![t.book] = t.read]]]
    BY <1>13 DEF KeepRow
  <2>3. /\ \A v \in Runners \ {Seeder} : task'[v] = task[v]
        /\ task'[Seeder].book = None /\ task'[Seeder].todo = t.todo
        /\ task'[Seeder].kept = [t.kept EXCEPT ![t.book] = t.read]
    BY <1>0, <2>2 DEF Task
  <2>4. CASE t.book # b
    <3>1. task'[Seeder].kept[b] = t.kept[b]
      BY <1>0, <2>1, <2>3, <2>4
    <3>2. (Holds(Seeder, b)' <=> Holds(Seeder, b)) /\ (Spoils(Seeder, b) => Spoils(Seeder, b)')
      BY <1>0, <2>1, <2>3, <2>4, <3>1 DEF Holds, Spoils
    <3>3. Brings(Seeder, b) => Coming(b)'
      BY <1>0, <2>1, <2>3, <2>4, <3>1 DEF Brings, Coming, Current, tables
    <3>4. Coming(b) => Coming(b)'
      BY <1>0, <2>1, <2>3, <3>3, ComingStep DEF Coming
    <3>5. Holds(Seeder, b) => <<Seeder, b>> \in spoiled \/ Coming(b)
      BY <1>0, <2>1 DEF Settled
    <3> QED BY <1>0, <2>1, <2>3, <3>2, <3>4, <3>5, SettledReading DEF Spoils
  <2>5. CASE t.book = b
    <3>1. task'[Seeder].kept[b] = t.read /\ t.read # None
      BY <1>0, <2>1, <2>3, <2>5, IdleOK
    <3>2. Holds(Seeder, b)' /\ Holds(Seeder, b) /\ (Spoils(Seeder, b) => Spoils(Seeder, b)')
      BY <2>1, <2>5, <3>1 DEF Holds, Spoils
    <3>3. Brings(Seeder, b) => Coming(b)'
      <4>1. CASE b \in t.todo
        BY <1>0, <2>3, <4>1 DEF Coming, Brings
      <4>2. CASE UpToDate(Seeder)
        <5>1. t.read = [rated |-> t.read.rated, reserved |-> t.read.reserved]
          BY <2>1 DEF Row
        <5>2. t.read = Current(b)'
          BY <2>1, <2>5, <4>2, <5>1 DEF UpToDate, Current, tables
        <5> QED BY <1>0, <3>1, <5>2 DEF Coming, Brings
      <4> QED BY <1>0, <2>1, <2>5, <4>1, <4>2 DEF Brings
    <3>4. Coming(b) => Coming(b)'
      BY <1>0, <2>1, <2>3, <3>3, ComingStep DEF Coming
    <3>5. <<Seeder, b>> \in spoiled \/ Coming(b)
      BY <1>0, <2>1, <3>2 DEF Settled
    <3> QED BY <1>0, <2>1, <2>3, <3>2, <3>4, <3>5, SettledReading DEF Spoils
  <2> QED BY <2>4, <2>5
<1>14. CASE DeleteRows
  <2>1. /\ b \in books /\ t.book = None
        /\ UNCHANGED <<tables, web, queue, spoiled>>
        /\ \A v \in Runners \ {Seeder} : task'[v] = task[v]
        /\ task'[Seeder].book = t.book /\ task'[Seeder].kept = t.kept
        /\ task'[Seeder].todo = t.todo
        /\ analytics'[b] = None
        /\ excused' = excused \cup {c \in books \ Kept : analytics[c] # None}
    BY <1>0, <1>14 DEF DeleteRows, Goto, tables, Placed, Reading, Task
  <2>2. \A v \in Runners : (Holds(v, b)' <=> Holds(v, b)) /\ (Spoils(v, b)' <=> Spoils(v, b))
    BY <2>1 DEF Holds, Spoils
  <2>3. Coming(b) => Coming(b)'
    <3>1. Brings(Seeder, b) => Coming(b)'
      BY <1>0, <2>1 DEF Brings, Coming, Current, tables
    <3> QED BY <1>0, <2>1, <3>1, ComingStep DEF Coming
  <2>4. CASE b \in Kept
    <3>1. Holds(Seeder, b)
      BY <2>4 DEF Kept, Holds
    <3>2. Coming(b) \/ Spoils(Seeder, b)
      BY <1>0, <2>1, <3>1 DEF Settled, Spoils
    <3> QED BY <1>0, <2>1, <2>2, <2>3, <3>2 DEF Settled
  <2>5. CASE b \notin Kept
    <3>1. Right(b) => Right(b)' \/ b \in excused'
      BY <1>0, <2>1, <2>5 DEF Right, tables
    <3> QED BY <1>0, <2>1, <2>2, <2>3, <3>1 DEF Settled
  <2> QED BY <2>4, <2>5
<1>15. ASSUME NEW S \in SUBSET Books, InsertRows(S) PROVE Settled(b)'
  <2>1. CASE S \subseteq books /\ \A c \in S : analytics[c] = None
    <3>1. /\ UNCHANGED <<tables, web, queue>> /\ b \in books /\ t.book = None
          /\ analytics' = [c \in Books |-> IF c \in S THEN t.kept[c] ELSE analytics[c]]
          /\ excused' = (excused \ S) \cup {c \in S : <<Seeder, c>> \in spoiled}
          /\ spoiled' = (spoiled \cup Doing(S)) \ ({Seeder} \X S)
      BY <1>0, <1>15, <2>1 DEF InsertRows, tables, Placed, Reading
    <3>2. task' = [task EXCEPT ![Seeder].kept = [c \in Books |-> IF c \in S THEN None ELSE t.kept[c]]]
      BY <1>15, <2>1 DEF InsertRows
    <3> DEFINE k == [c \in Books |-> IF c \in S THEN None ELSE t.kept[c]]
    <3>3. /\ \A v \in Runners \ {Seeder} : task'[v] = task[v]
          /\ task'[Seeder].book = None /\ task'[Seeder].todo = t.todo
          /\ task'[Seeder].kept = k
      <4> HIDE DEF k
      <4> QED BY <1>0, <3>1, <3>2 DEF Task, k
    <3>4. \A v \in Runners \ {Seeder} : Holds(v, b)' <=> Holds(v, b)
      BY <3>3 DEF Holds
    <3>5. CASE b \in S
      <4>1. task'[Seeder].kept[b] = None /\ t.kept[b] # None /\ analytics'[b] = t.kept[b]
        BY <1>0, <1>15, <3>1, <3>3, <3>5 DEF InsertRows, Kept
      <4>2. ~Holds(Seeder, b)' /\ Holds(Seeder, b)
        BY <1>0, <3>3, <4>1 DEF Holds
      <4>3. ASSUME NEW v \in Runners, Holds(v, b)' PROVE <<v, b>> \in spoiled'
        <5>1. v # Seeder /\ Holds(v, b)
          BY <3>4, <4>2, <4>3
        <5>2. <<v, b>> \in Doing(S)
          BY <1>0, <3>5, <5>1, DoingAll
        <5> QED BY <3>1, <5>1, <5>2
      <4>4. CASE <<Seeder, b>> \in spoiled
        BY <3>1, <3>5, <4>3, <4>4, SettledExcused
      <4>5. CASE t.kept[b] = Current(b)
        <5>1. Right(b)'
          BY <1>0, <3>1, <4>1, <4>5 DEF Right, Current, tables
        <5> QED BY <4>3, <5>1 DEF Settled
      <4>6. CASE <<Seeder, b>> \notin spoiled /\ t.kept[b] # Current(b)
        <5>1. Coming(b)
          BY <1>0, <3>1, <4>2, <4>6 DEF Settled
        <5>2. Brings(Seeder, b) => Coming(b)'
          BY <1>0, <3>1, <3>3, <4>6 DEF Brings, Coming
        <5>3. Coming(b)'
          BY <1>0, <3>1, <3>3, <5>1, <5>2, ComingStep DEF Coming
        <5> QED BY <4>3, <5>3 DEF Settled
      <4> QED BY <4>4, <4>5, <4>6
    <3>6. CASE b \notin S
      <4>1. task'[Seeder].kept[b] = t.kept[b] /\ analytics'[b] = analytics[b]
        BY <1>0, <3>1, <3>3, <3>6
      <4>2. \A v \in Runners : <<v, b>> \in spoiled => <<v, b>> \in spoiled'
        BY <3>1, <3>6
      <4>3. \A v \in Runners : (Holds(v, b)' <=> Holds(v, b)) /\ (Spoils(v, b) => Spoils(v, b)')
        BY <3>1, <3>3, <3>4, <4>1, <4>2 DEF Holds, Spoils
      <4>4. Brings(Seeder, b) => Coming(b)'
        BY <1>0, <3>1, <3>3, <4>1 DEF Brings, Coming, Current, tables
      <4>5. Coming(b) => Coming(b)'
        BY <1>0, <3>1, <3>3, <4>4, ComingStep DEF Coming
      <4>6. (Right(b) => Right(b)') /\ (b \in excused => b \in excused')
        BY <3>1, <3>6, <4>1 DEF Right, tables
      <4> QED BY <1>0, <3>1, <4>2, <4>3, <4>5, <4>6 DEF Settled
    <3> QED BY <3>5, <3>6
  <2>2. CASE ~(S \subseteq books /\ \A c \in S : analytics[c] = None)
    BY <1>5, <1>15, <2>2 DEF InsertRows
  <2> QED BY <2>1, <2>2
<1>16. CASE EndSeeding
  <2>1. /\ b \in books /\ t.book = None /\ t.todo = {} /\ task'[Seeder] = Idle
        /\ UNCHANGED <<tables, analytics, web, queue, excused, spoiled>>
        /\ \A v \in Runners \ {Seeder} : task'[v] = task[v]
        /\ t.kept[b] = None
    BY <1>0, <1>16 DEF EndSeeding, tables, Placed, Reading, Kept
  <2>2. ~Holds(Seeder, b) /\ ~Holds(Seeder, b)' /\ ~Brings(Seeder, b)
    BY <1>0, <2>1, IdleOK DEF Holds, Brings
  <2>3. Coming(b) => Coming(b)'
    BY <1>0, <2>1, <2>2, ComingStep DEF Coming
  <2> QED BY <1>0, <2>1, <2>2, <2>3, SettledReading DEF Spoils
<1>17. ASSUME NEW c \in Books, GetOrCreateBook(c) PROVE Settled(b)'
  BY <1>0, <1>4, <1>17, BooksListed
<1>18. ASSUME NEW S \in SUBSET Books, AddBooks(S) PROVE Settled(b)'
  BY <1>0, <1>4, <1>18, BooksListed
<1>19. ASSUME NEW c \in Books, NEW u \in Readers, GetOrCreateRating(c, u) PROVE Settled(b)'
  <2>1. /\ {<<c, u>>} \in SUBSET (Books \X Readers) /\ {<<c, u>>} \subseteq t.todo \X Readers
        /\ WriteRatings({<<c, u>>})
    BY <1>19 DEF GetOrCreateRating
  <2> QED BY <1>7, <2>1
<1>20. ASSUME NEW S \in SUBSET (Books \X Readers), RateBooks(S) PROVE Settled(b)'
  BY <1>7, <1>20 DEF RateBooks
<1> QED BY <1>2, <1>6, <1>8, <1>10, <1>11, <1>12, <1>13, <1>14, <1>15, <1>16, <1>17, <1>18,
           <1>19, <1>20
        DEF Scripted, GoOn

LEMMA SettledNext == Inv /\ [Next]_vars => Inv'
<1> SUFFICES ASSUME Inv, [Next]_vars PROVE Inv'
  OBVIOUS
<1>1. TypeInv'
  BY TypeNext DEF Inv
<1>2. ASSUME NEW b \in books' PROVE Settled(b)'
  <2>1. CASE StartRebuild
    <3>1. queue[b] > 0 \/ queue[Rebuild] > 0 \/ (\E h \in Handlers : web[h] = b) => Coming(b)'
      BY <1>2, <2>1 DEF StartRebuild, Inv, TypeInv, AnalyticsTypeOK, tables, Coming, Messages
    <3> QED BY <1>2, <2>1, <3>1, SettledElsewhere DEF StartRebuild, tables
  <2>2. CASE UNCHANGED vars
    BY <1>2, <2>2, SettledElsewhere DEF vars, Coming
  <2>3. CASE Seeding
    BY <1>1, <1>2, <2>3, SettledScripted, SettledWork, SettledError
       DEF Seeding, Scripted, Runners
  <2> QED BY <1>1, <1>2, <2>1, <2>2, <2>3, SettledRequest, SettledEdit, SettledCelery
          DEF Next, AnalyticsNext
<1> QED BY <1>1, <1>2 DEF Inv, SettledInv

\* A book that nobody has anything left to do for has a row that agrees with the tables,
\* also when a script has replaced the row, unless it is excused (consumers.py:7-27,
\* services.py:78, commands.py:83, seed_massive.py:726-757).
THEOREM SummariesStayRight == Spec => []SummariesAreRight
<1>1. Init => Inv
  <2> SUFFICES ASSUME Init PROVE Inv
    OBVIOUS
  <2>1. ASSUME NEW b \in books PROVE Settled(b)
    <3>1. Right(b)
      BY DEF Init, AnalyticsInit, Right, NewRow
    <3>2. \A w \in Runners : ~Holds(w, b)
      BY IdleOK DEF Init, AnalyticsInit, Holds
    <3> QED BY <3>1, <3>2 DEF Settled
  <2> QED BY <2>1, TypeInit DEF Inv, SettledInv
<1>2. Inv => SummariesAreRight
  <2> SUFFICES ASSUME Inv, NEW b \in books
               PROVE  \/ Right(b) \/ b \in excused
                      \/ queue[b] + queue[Rebuild] > 0
                      \/ \E h \in Handlers : web[h] = b
                      \/ \E w \in Runners : b \in task[w].todo \/ Holds(w, b)
    BY DEF SummariesAreRight
  <2>1. queue[b] \in Nat /\ queue[Rebuild] \in Nat /\ Current(b) # None
    BY AnalyticsAssumption DEF Inv, TypeInv, AnalyticsTypeOK, Messages, Current, Row
  <2>2. \A w \in Runners : Brings(w, b) => b \in task[w].todo \/ Holds(w, b)
    BY <2>1 DEF Brings, Holds
  <2>3. Right(b) \/ b \in excused \/ Coming(b) \/ \E w \in Runners : Holds(w, b)
    BY DEF Inv, SettledInv, Settled, Spoils
  <2> QED BY <2>1, <2>2, <2>3 DEF Coming
<1> QED BY <1>1, <1>2, SettledNext, PTL DEF Spec

=============================================================================
