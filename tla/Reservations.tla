---------------------------- MODULE Reservations ----------------------------
(***************************************************************************)
(* The reservation service: the three commands of                          *)
(* apps/reservations/commands.py, the overdue task of                      *)
(* apps/notifications/tasks.py, and the update and delete routes that      *)
(* ReservationViewSet and BookViewSet inherit from ModelViewSet.           *)
(*                                                                         *)
(* No handler opens a transaction and no query takes a row lock, so every  *)
(* database statement commits alone and two processes interleave between   *)
(* any two of them.  A step of this module is one database statement (or   *)
(* one call to a broker) with the Python code up to the next one.  What a  *)
(* handler read earlier lives in its own memory: the fields `book` and     *)
(* `rows` of its job.  Django's save() writes the WHOLE row from memory.   *)
(***************************************************************************)
EXTENDS Integers, FiniteSets

CONSTANTS
    Users, Books,
    Workers,        \* web and Celery processes: threads of control
    Copies,         \* [Books -> Nat]: copies_total of each book row at the start
    LoanDays,       \* length of a loan, in ticks of the clock
    ExtraDays,      \* the values of "days" that extend() is called with
    Routes,         \* the operations this instance offers
    Faults,         \* may processes die and brokers fail?
    None,           \* Python's None
    MaxNow, MaxDue, MaxReservations, MaxCopies   \* bounds for model checking

VARIABLES
    book,      \* table books_book: id -> [total, avail]
    res,       \* table reservations_reservation: id -> row
    nextId,    \* the id sequence of that table
    now,       \* the clock
    dirty,     \* books changed since the last "books" cache invalidation
    effects,   \* messages and audit rows sent: <<operation, reservation, kind>>
    job,       \* what each worker is doing
    mishaps,   \* history: what went wrong so far, <<kind, book, row or reader>>
    mislaid    \* history: [Books -> Nat]: copies that no row accounts for any more

history == <<mishaps, mislaid>>

vars == <<book, res, nextId, now, dirty, effects, job, history>>

Operations == {"reserve", "return", "extend", "overdue",
               "patch_reservation", "delete_reservation",
               "patch_book", "delete_book"}

ASSUME ConstantsAssumption ==
    /\ Copies \in [Books -> Nat]
    /\ LoanDays \in Nat \ {0}
    /\ ExtraDays \subseteq Int
    /\ Routes \subseteq Operations
    /\ Faults \in BOOLEAN
    /\ None \notin Users \cup Books \cup Int
    /\ MaxNow \in Nat /\ MaxDue \in Nat
    /\ MaxReservations \in Nat /\ MaxCopies \in Nat

BookRow == [total : Nat, avail : Nat]

Status == {"ACTIVE", "RETURNED", "OVERDUE"}     \* PENDING is never written

Row == [user : Users, book : Books, status : Status, due : Int,
        returned_at : {"null", "set"}]

Ids == Nat \ {0}

NoRows == [r \in {} |-> None]

Idle == [pc |-> "idle", op |-> "none", user |-> None, bid |-> None,
         rid |-> None, book |-> None, rows |-> NoRows, arg |-> None]

-----------------------------------------------------------------------------
(***************************************************************************)
(* The database and the worker's memory.  The `book` and `rows` of a job   *)
(* are the rows as they were read, `arg` is what the request sets in them. *)
(***************************************************************************)

\* Model.save(): UPDATE by primary key, INSERT when no row was updated.
Save(table, id, row) ==
    [x \in DOMAIN table \cup {id} |-> IF x = id THEN row ELSE table[x]]

Delete(table, ids) == [x \in DOMAIN table \ ids |-> table[x]]

Only(table, ids) == [x \in ids |-> table[x]]

\* The two CHECK constraints of Book.Meta.
BookConstraints(row) == row.avail >= 0 /\ row.avail <= row.total

\* A loan that still holds a copy of its book.
Outstanding(b) == {r \in DOMAIN res : res[r].book = b /\ res[r].status # "RETURNED"}

Busy(w) == job[w].pc # "idle"

MayStart(w, op) == op \in Routes /\ ~Busy(w)

Goto(w, pc) == job' = [job EXCEPT ![w].pc = pc]

Finish(w) == job' = [job EXCEPT ![w] = Idle]

\* Copies neither on the shelf nor on a reservation row: taken and the row not
\* created yet, or the row closed and the copy not counted back yet.
InHand(b) ==
    {w \in Workers : /\ job[w].bid = b
                     /\ \/ job[w].op = "reserve" /\ job[w].pc \in {"invalidate", "r_create"}
                        \/ job[w].pc = "t_shelve"}

\* A handler ends half-way: the copy in its hands is on no row, and the e-mail it
\* was about to send is not sent.
Drop(w) ==
    /\ Finish(w)
    /\ mislaid' = [b \in Books |-> IF w \in InHand(b) THEN mislaid[b] + 1 ELSE mislaid[b]]
    /\ mishaps' = mishaps \cup (IF job[w].pc = "o_notify"
                                  THEN {<<"unsent", None, job[w].rid>>} ELSE {})

\* The copy in memory is still what the table holds.
Current(table, id, copy) == id \in DOMAIN table /\ table[id] = copy

\* The handler works on a copy of r that is older than the row.
Outdated(w, r) == r \in DOMAIN job[w].rows /\ ~Current(res, r, job[w].rows[r])

\* What is wrong with a save of this book row: it overwrites a change it has not
\* seen, or a reader changes the number of copies by hand.
BookMishaps(w, row) ==
    {k \in {"lost_update", "patched"} :
        /\ k = "lost_update" => ~Current(book, job[w].bid, job[w].book)
        /\ k = "patched" => job[w].op = "patch_book" /\ row # job[w].book}

\* book.save().  A row that breaks a constraint raises IntegrityError, and the
\* request ends there.
SaveBook(w, row, next) ==
    /\ \/ /\ BookConstraints(row)
          /\ book' = Save(book, job[w].bid, row)
          /\ dirty' = dirty \cup {job[w].bid}
          /\ job' = [job EXCEPT ![w] = next]
          /\ mishaps' = mishaps \cup {<<k, job[w].bid, None>> : k \in BookMishaps(w, row)}
          /\ UNCHANGED mislaid
       \/ /\ ~BookConstraints(row)
          /\ Drop(w)
          /\ UNCHANGED <<book, dirty>>
    /\ UNCHANGED <<res, nextId, now, effects>>

\* The same for a reservation row: it overwrites a change it has not seen, or moves
\* the loan to another book.
RowMishaps(w, id, row) ==
    {k \in {"stale_row", "moved"} :
        /\ k = "stale_row" => Outdated(w, id)
        /\ k = "moved" => id \in DOMAIN res /\ res[id].book # row.book}

\* The books that a save of this row concerns.
Concerned(id, row) == {row.book} \cup {res[r].book : r \in DOMAIN res \cap {id}}

\* reservation.save().  The database checks the foreign key to the book.
SaveRow(w, id, row, next) ==
    /\ \/ /\ row.book \in DOMAIN book
          /\ res' = Save(res, id, row)
          /\ job' = [job EXCEPT ![w] = next]
          /\ mishaps' = mishaps \cup RowMishaps(w, id, row) \X Concerned(id, row) \X {id}
          /\ UNCHANGED mislaid
       \/ /\ row.book \notin DOMAIN book
          /\ Drop(w)
          /\ UNCHANGED res
    /\ UNCHANGED <<book, now, dirty, effects>>

-----------------------------------------------------------------------------
(***************************************************************************)
(* POST /reservations/: ReserveBookCommand.                                *)
(***************************************************************************)

Asking(u, b) ==
    {v \in Workers : job[v].op = "reserve" /\ job[v].user = u /\ job[v].bid = b}

\* The serializer's PrimaryKeyRelatedField loads the book.
Reserve(w, u, b) ==
    /\ MayStart(w, "reserve")
    /\ b \in DOMAIN book
    /\ nextId + Cardinality({v \in Workers : job[v].op = "reserve"}) <= MaxReservations
    /\ job' = [job EXCEPT ![w] = [pc |-> "r_validate", op |-> "reserve", user |-> u,
                                  bid |-> b, rid |-> None, book |-> book[b],
                                  rows |-> NoRows, arg |-> None]]
    /\ mishaps' = mishaps \cup (IF Asking(u, b) = {} THEN {} ELSE {<<"twice", b, u>>})
    /\ UNCHANGED <<book, res, nextId, now, dirty, effects, mislaid>>

\* MUTANT: validate() without the EXISTS query.
ReserveValidateCopiesOnly(w) ==
    /\ job[w].pc = "r_validate"
    /\ IF job[w].book.avail <= 0 THEN Finish(w) ELSE Goto(w, "r_take")
    /\ UNCHANGED <<book, res, nextId, now, dirty, effects, history>>

\* validate(): the copies of the book in memory, then one EXISTS query.
ReserveValidate(w) ==
    /\ job[w].pc = "r_validate"
    /\ LET rejected == \/ job[w].book.avail <= 0
                       \/ \E r \in DOMAIN res : /\ res[r].user = job[w].user
                                                /\ res[r].book = job[w].bid
                                                /\ res[r].status = "ACTIVE"
       IN  IF rejected THEN Finish(w) ELSE Goto(w, "r_take")
    /\ UNCHANGED <<book, res, nextId, now, dirty, effects, history>>

\* MUTANT: saves the book without decrementing it.
TakeNothing(w) ==
    /\ job[w].pc = "r_take"
    /\ SaveBook(w, job[w].book, [job[w] EXCEPT !.pc = "invalidate"])

TakeCopy(w) ==
    /\ job[w].pc = "r_take"
    /\ SaveBook(w, [job[w].book EXCEPT !.avail = @ - 1],
                   [job[w] EXCEPT !.pc = "invalidate"])

\* cache_invalidate_pattern("books"), in both commands.  Redis errors are swallowed.
Invalidate(w) ==
    /\ job[w].pc = "invalidate"
    /\ dirty' = {} \/ (Faults /\ dirty' = dirty)
    /\ Goto(w, IF job[w].op = "reserve" THEN "r_create" ELSE "confirm")
    /\ UNCHANGED <<book, res, nextId, now, effects, history>>

CreateReservation(w) ==
    /\ job[w].pc = "r_create"
    /\ SaveRow(w, nextId,
               [user |-> job[w].user, book |-> job[w].bid, status |-> "ACTIVE",
                due |-> now + LoanDays, returned_at |-> "null"],
               [job[w] EXCEPT !.pc = "confirm", !.rid = nextId])
    /\ nextId' = nextId + 1

\* MUTANT: the analytics task is not queued.
TailWithoutAnalytics == [confirm |-> "event", event |-> "audit", audit |-> "idle"]

\* The common tail of both commands: the confirmation task, the Kafka event, the
\* analytics task, the audit row.
Tail == [confirm |-> "event", event |-> "analytics", analytics |-> "audit",
         audit |-> "idle"]

\* One call of the tail.  publish_event() swallows a Kafka failure.
Emit(w) ==
    /\ job[w].pc \in DOMAIN Tail
    /\ \/ effects' = effects \cup {<<job[w].op, job[w].rid, job[w].pc>>}
       \/ Faults /\ job[w].pc = "event" /\ UNCHANGED effects
    /\ IF job[w].pc = "audit" THEN Finish(w) ELSE Goto(w, Tail[job[w].pc])
    /\ UNCHANGED <<book, res, nextId, now, dirty, history>>

-----------------------------------------------------------------------------
(***************************************************************************)
(* The operations on an existing reservation.  get_object() reads the row  *)
(* and, with select_related, its book in one query; users see their own    *)
(* reservations only.  validate() looks at this copy, so a rejected        *)
(* request changes nothing and is not a step.                              *)
(***************************************************************************)
Load(w, op, pc, u, r, arg) ==
    /\ MayStart(w, op)
    /\ res[r].user = u
    /\ job' = [job EXCEPT ![w] = [pc |-> pc, op |-> op, user |-> u,
                                  bid |-> res[r].book, rid |-> r,
                                  book |-> book[res[r].book],
                                  rows |-> Only(res, {r}), arg |-> arg]]
    /\ UNCHANGED <<book, res, nextId, now, dirty, effects, history>>

\* The row this handler is working on.
Mem(w) == job[w].rows[job[w].rid]

\* POST /reservations/{r}/return_book/: ReturnBookCommand.
Return(w, u, r) ==
    /\ res[r].status # "RETURNED"
    /\ Load(w, "return", "t_close", u, r, None)

\* MUTANT: the closed reservation is not saved.
CloseInMemory(w) ==
    /\ job[w].pc = "t_close"
    /\ Goto(w, "t_shelve")
    /\ UNCHANGED <<book, res, nextId, now, dirty, effects, history>>

\* MUTANT: returned_at is forgotten.
CloseUnstamped(w) ==
    /\ job[w].pc = "t_close"
    /\ SaveRow(w, job[w].rid, [Mem(w) EXCEPT !.status = "RETURNED"],
               [job[w] EXCEPT !.pc = "t_shelve"])
    /\ UNCHANGED nextId

CloseReservation(w) ==
    /\ job[w].pc = "t_close"
    /\ SaveRow(w, job[w].rid, [Mem(w) EXCEPT !.status = "RETURNED", !.returned_at = "set"],
               [job[w] EXCEPT !.pc = "t_shelve"])
    /\ UNCHANGED nextId

\* MUTANT: saves the book without incrementing it.
ShelveNothing(w) ==
    /\ job[w].pc = "t_shelve"
    /\ SaveBook(w, job[w].book, [job[w] EXCEPT !.pc = "invalidate"])

\* MUTANT: the cache is not invalidated.
ShelveQuietly(w) ==
    /\ job[w].pc = "t_shelve"
    /\ SaveBook(w, [job[w].book EXCEPT !.avail = @ + 1], [job[w] EXCEPT !.pc = "confirm"])

ShelveCopy(w) ==
    /\ job[w].pc = "t_shelve"
    /\ SaveBook(w, [job[w].book EXCEPT !.avail = @ + 1],
                   [job[w] EXCEPT !.pc = "invalidate"])

\* POST /reservations/{r}/extend/: ExtendReservationCommand.
Extend(w, u, r, days) ==
    /\ res[r].status = "ACTIVE"
    /\ res[r].due + days \in 0 .. MaxDue
    /\ Load(w, "extend", "e_save", u, r, days)

SaveExtension(w) ==
    /\ job[w].pc = "e_save"
    /\ SaveRow(w, job[w].rid, [Mem(w) EXCEPT !.due = @ + job[w].arg], Idle)
    /\ UNCHANGED nextId

-----------------------------------------------------------------------------
(***************************************************************************)
(* The Celery task check_overdue_reservations.  The queryset is fetched as *)
(* a whole before the loop, so each row is saved from the copy read then.  *)
(***************************************************************************)
\* MUTANT: the query does not filter by status.
CheckAllLate(w) ==
    /\ MayStart(w, "overdue")
    /\ LET late == {r \in DOMAIN res : res[r].due < now}
       IN  /\ late # {}
           /\ job' = [job EXCEPT ![w] = [pc |-> "o_save", op |-> "overdue", user |-> None,
                                         bid |-> None, rid |-> None, book |-> None,
                                         rows |-> Only(res, late), arg |-> None]]
    /\ UNCHANGED <<book, res, nextId, now, dirty, effects, history>>

CheckOverdue(w) ==
    /\ MayStart(w, "overdue")
    /\ LET late == {r \in DOMAIN res : res[r].status = "ACTIVE" /\ res[r].due < now}
       IN  /\ late # {}
           /\ job' = [job EXCEPT ![w] = [pc |-> "o_save", op |-> "overdue", user |-> None,
                                         bid |-> None, rid |-> None, book |-> None,
                                         rows |-> Only(res, late), arg |-> None]]
    /\ UNCHANGED <<book, res, nextId, now, dirty, effects, history>>

MarkOverdue(w) ==
    /\ job[w].pc = "o_save"
    /\ \E r \in DOMAIN job[w].rows :
         SaveRow(w, r, [job[w].rows[r] EXCEPT !.status = "OVERDUE"],
                 [job[w] EXCEPT !.pc = "o_notify", !.rid = r])
    /\ UNCHANGED nextId

\* MUTANT: the e-mail is sent after the loop, for its last row.
NotifyLastOverdue(w) ==
    /\ job[w].pc = "o_notify"
    /\ LET left == DOMAIN job[w].rows \ {job[w].rid}
       IN  IF left = {}
             THEN /\ effects' = effects \cup {<<"overdue", job[w].rid, "email">>}
                  /\ Finish(w)
             ELSE /\ job' = [job EXCEPT ![w].pc = "o_save",
                                        ![w].rows = Only(job[w].rows, left)]
                  /\ UNCHANGED effects
    /\ UNCHANGED <<book, res, nextId, now, dirty, history>>

\* The e-mail; a failing mail server is swallowed by the strategy.
NotifyOverdue(w) ==
    /\ job[w].pc = "o_notify"
    /\ effects' = effects \cup {<<"overdue", job[w].rid, "email">>}
    /\ LET left == DOMAIN job[w].rows \ {job[w].rid}
       IN  IF left = {}
             THEN Finish(w)
             ELSE job' = [job EXCEPT ![w].pc = "o_save",
                                     ![w].rows = Only(job[w].rows, left)]
    /\ UNCHANGED <<book, res, nextId, now, dirty, history>>

-----------------------------------------------------------------------------
(***************************************************************************)
(* The routes inherited from ModelViewSet.  None of them looks at copies.  *)
(***************************************************************************)

\* PATCH /reservations/{r}/: `book` is the only writable field.
PatchReservation(w, u, r, b) ==
    /\ b \in DOMAIN book
    /\ Load(w, "patch_reservation", "p_save", u, r, b)

SavePatchedReservation(w) ==
    /\ job[w].pc = "p_save"
    /\ SaveRow(w, job[w].rid, [Mem(w) EXCEPT !.book = job[w].arg], Idle)
    /\ UNCHANGED nextId

\* DELETE /reservations/{r}/, whatever its status.
DeleteReservation(w, u, r) ==
    /\ MayStart(w, "delete_reservation")
    /\ res[r].user = u
    /\ res' = Delete(res, {r})
    /\ mishaps' = mishaps \cup {<<"deleted", res[r].book, r>>}
    /\ mislaid' = [b \in Books |-> IF r \in Outstanding(b) THEN mislaid[b] + 1 ELSE mislaid[b]]
    /\ UNCHANGED <<book, nextId, now, dirty, effects, job>>

\* PATCH /books/{b}/: copies_total and copies_available are writable, and a patch
\* of another field writes back the copies read here.
PatchBook(w, b) ==
    /\ MayStart(w, "patch_book")
    /\ b \in DOMAIN book
    /\ \E row \in {book[b]} \cup [total : 0 .. MaxCopies, avail : 0 .. MaxCopies] :
         job' = [job EXCEPT ![w] = [pc |-> "b_save", op |-> "patch_book", user |-> None,
                                    bid |-> b, rid |-> None, book |-> book[b],
                                    rows |-> NoRows, arg |-> row]]
    /\ UNCHANGED <<book, res, nextId, now, dirty, effects, history>>

SavePatchedBook(w) ==
    /\ job[w].pc = "b_save"
    /\ SaveBook(w, job[w].arg, Idle)

\* MUTANT: on_delete does not cascade.
DeleteBookOnly(w, b) ==
    /\ MayStart(w, "delete_book")
    /\ b \in DOMAIN book
    /\ book' = Delete(book, {b})
    /\ dirty' = dirty \cup {b}
    /\ UNCHANGED <<res, nextId, now, effects, job, history>>

\* DELETE /books/{b}/ cascades to the reservations in one transaction.
DeleteBook(w, b) ==
    /\ MayStart(w, "delete_book")
    /\ b \in DOMAIN book
    /\ book' = Delete(book, {b})
    /\ res' = Delete(res, {r \in DOMAIN res : res[r].book = b})
    /\ dirty' = dirty \cup {b}
    /\ mishaps' = mishaps \cup ({"deleted"} \X {b} \X
                       ({None} \cup {r \in DOMAIN res : res[r].book = b}))
    /\ UNCHANGED <<nextId, now, effects, job, mislaid>>

-----------------------------------------------------------------------------
(***************************************************************************)
(* The environment.                                                        *)
(***************************************************************************)

\* The process dies, a broker refuses .delay(), the database connection drops:
\* what was committed stays, the rest of the handler never happens.
Abort(w) ==
    /\ Faults /\ Busy(w)
    /\ Drop(w)
    /\ UNCHANGED <<book, res, nextId, now, dirty, effects>>

Tick ==
    /\ now < MaxNow
    /\ now' = now + 1
    /\ UNCHANGED <<book, res, nextId, dirty, effects, job, history>>

Init ==
    /\ book = [b \in Books |-> [total |-> Copies[b], avail |-> Copies[b]]]
    /\ res = NoRows
    /\ nextId = 1
    /\ now = 0
    /\ dirty = {}
    /\ effects = {}
    /\ job = [w \in Workers |-> Idle]
    /\ mishaps = {}
    /\ mislaid = [b \in Books |-> 0]

Request(w) ==
    \/ \E u \in Users, b \in Books : Reserve(w, u, b)
    \/ \E u \in Users, r \in DOMAIN res : Return(w, u, r)
    \/ \E u \in Users, r \in DOMAIN res, days \in ExtraDays : Extend(w, u, r, days)
    \/ CheckOverdue(w)
    \/ \E u \in Users, r \in DOMAIN res, b \in Books : PatchReservation(w, u, r, b)
    \/ \E u \in Users, r \in DOMAIN res : DeleteReservation(w, u, r)
    \/ \E b \in Books : PatchBook(w, b) \/ DeleteBook(w, b)

Step(w) ==
    \/ ReserveValidate(w) \/ TakeCopy(w) \/ Invalidate(w) \/ CreateReservation(w)
    \/ Emit(w)
    \/ CloseReservation(w) \/ ShelveCopy(w)
    \/ SaveExtension(w)
    \/ MarkOverdue(w) \/ NotifyOverdue(w)
    \/ SavePatchedReservation(w) \/ SavePatchedBook(w)

Next == \/ \E w \in Workers : Request(w) \/ Step(w) \/ Abort(w)
        \/ Tick

Spec == Init /\ [][Next]_vars

\* A process that runs keeps running; nobody has to send requests.
FairSpec == Spec /\ \A w \in Workers : WF_vars(Step(w))

-----------------------------------------------------------------------------
(***************************************************************************)
(* Types.                                                                  *)
(***************************************************************************)
ReservePCs == {"r_validate", "r_take", "r_create"}
TailPCs    == {"confirm", "event", "analytics", "audit"}
PCs == {"idle", "invalidate", "t_close", "t_shelve", "e_save", "p_save", "b_save",
        "o_save", "o_notify"} \cup ReservePCs \cup TailPCs

\* What the history tells of: book rows saved over a change not seen, or patched;
\* reservation rows saved over a change not seen, moved to another book, or deleted;
\* two requests of a reader for one book at the same time; an e-mail that a dying
\* task did not send.
MishapKinds == {"lost_update", "patched", "stale_row", "moved", "deleted", "twice", "unsent"}

\* A job holds what the handler at that point of the code has in its variables.
JobOK(j) ==
    /\ j = [pc |-> j.pc, op |-> j.op, user |-> j.user, bid |-> j.bid,
            rid |-> j.rid, book |-> j.book, rows |-> j.rows, arg |-> j.arg]
    /\ j.pc \in PCs /\ j.op \in Operations \cup {"none"}
    /\ j.pc = "idle" => j = Idle
    /\ j.pc \in ReservePCs \cup {"t_close", "t_shelve", "invalidate", "b_save"} =>
         j.bid \in Books /\ j.book \in BookRow
    /\ j.pc \in ReservePCs => j.op = "reserve"
    /\ j.pc \in {"t_close", "t_shelve"} => j.op = "return"
    /\ j.pc \in {"o_save", "o_notify"} => j.op = "overdue"
    /\ j.pc = "e_save" => j.op = "extend"
    /\ j.pc = "p_save" => j.op = "patch_reservation"
    /\ j.pc = "b_save" => j.op = "patch_book"
    /\ j.op = "reserve" => j.user \in Users
    /\ j.pc \in TailPCs \cup {"invalidate"} => j.op \in {"reserve", "return"}
    /\ j.pc \in TailPCs \cup {"o_notify"} => j.rid \in Ids
    /\ j.pc \in {"t_close", "t_shelve", "e_save", "p_save"} => j.rid \in DOMAIN j.rows
    /\ j.op = "return" => j.rid \in Ids
    /\ j.pc = "e_save" => j.arg \in Int
    /\ j.pc = "p_save" => j.arg \in Books
    /\ j.pc = "b_save" => j.arg \in BookRow
    /\ DOMAIN j.rows \subseteq Ids /\ j.rows \in [DOMAIN j.rows -> Row]

\* Every variable has its type, the book rows satisfy their CHECK constraints,
\* and every reservation row refers to an existing book.
TypeOK ==
    /\ DOMAIN book \subseteq Books /\ book \in [DOMAIN book -> BookRow]
    /\ \A b \in DOMAIN book : BookConstraints(book[b])
    /\ DOMAIN res \subseteq Ids /\ res \in [DOMAIN res -> Row]
    /\ \A r \in DOMAIN res : res[r].book \in DOMAIN book
    /\ nextId \in Ids /\ now \in Nat
    /\ dirty \subseteq Books
    /\ effects \subseteq Operations \X Ids \X (TailPCs \cup {"email"})
    /\ DOMAIN job = Workers /\ \A w \in Workers : JobOK(job[w])
    /\ mishaps \subseteq MishapKinds \X (Books \cup {None}) \X (Ids \cup Users \cup {None})
    /\ mislaid \in [Books -> Nat]

-----------------------------------------------------------------------------
(***************************************************************************)
(* What holds however the processes interleave, with every route, and      *)
(* whichever of them die.  No lock keeps the handlers apart, so what the   *)
(* library promises can break; these properties say by what, and for which *)
(* book or row: nothing else breaks it.                                    *)
(***************************************************************************)

\* One of these things has happened to b.
Struck(b, kinds) == \E m \in mishaps : m[1] \in kinds /\ m[2] = b

\* One of these things has happened to reservation r.
Hit(r, kinds) == \E m \in mishaps : m[1] \in kinds /\ m[3] = r

\* returned_at is set exactly on the rows whose status is RETURNED.  A stale save
\* may bring an old row back, but never mixes the columns of two versions,
\* because save() writes the whole row (commands.py:126-128, tasks.py:64-65).
ReturnedIffStamped ==
    \A r \in DOMAIN res : res[r].status = "RETURNED" <=> res[r].returned_at = "set"

\* An OVERDUE row has been announced to its reader, or the task that marked it is
\* about to, or died between the two (tasks.py:63-73).  The next run of the task
\* selects ACTIVE rows only, so nobody else would.
Announced(r) ==
    \/ <<"overdue", r, "email">> \in effects
    \/ \E w \in Workers : job[w].pc = "o_notify" /\ job[w].rid = r
    \/ Hit(r, {"unsent"})

OverdueIsAnnounced ==
    \A r \in DOMAIN res : res[r].status = "OVERDUE" => Announced(r)

\* Every copy of a book is on the shelf, on a loan, in the hands of a command that
\* has taken it from the one and not put it on the other yet, or was mislaid: by a
\* command that ended half-way with it, or by the deletion of a loan that held it.
\* So no copy is made up, and the library never lends more than it owns, unless this
\* very book was hit: its row, or a row of one of its loans, was saved over a change
\* that its writer had not seen, or was patched (commands.py:50-66 and 126-131).
CopiesAccounted ==
    \A b \in DOMAIN book :
        \/ book[b].avail + Cardinality(Outstanding(b)) + Cardinality(InHand(b)) + mislaid[b]
              = book[b].total
        \/ Struck(b, {"lost_update", "patched", "stale_row", "moved"})

\* A reader has at most one ACTIVE reservation of a book, unless two requests of
\* this reader for this book were in flight at once, or a row of one of its loans
\* was saved over a change or moved (commands.py:35-44).
OneActivePerReader ==
    \A r, q \in DOMAIN res :
        /\ res[r].status = "ACTIVE" /\ res[q].status = "ACTIVE"
        /\ res[r].user = res[q].user /\ res[r].book = res[q].book
        => \/ r = q
           \/ <<"twice", res[r].book, res[r].user>> \in mishaps
           \/ Struck(res[r].book, {"stale_row", "moved"})

\* `new` is a later version of the loan `old`.
Follows(old, new) ==
    /\ old.user = new.user
    /\ \/ old.status = new.status
       \/ old.status = "ACTIVE" /\ new.status = "OVERDUE"
       \/ old.status # "RETURNED" /\ new.status = "RETURNED"

\* This step writes the next version of r.
MovesOn(r) ==
    /\ Follows(res[r], res'[r])
    /\ \/ res'[r].book = res[r].book
       \/ \E w \in Workers : job[w].op = "patch_reservation"

\* This step writes the next version of an outdated copy of r.
Reopens(r) == \E w \in Workers : Outdated(w, r) /\ Follows(job[w].rows[r], res'[r])

\* A loan only moves on, from ACTIVE to OVERDUE and from either to RETURNED, with the
\* same reader, and with the same book unless a PATCH of it is under way.  However two
\* returns, a return and an extension, or either and the overdue task overlap, a
\* returned loan is reopened by nothing but a handler whose copy of the row is
\* outdated, and then only to what may follow that copy (commands.py:118-128 and
\* 193-202, tasks.py:49-65).
OnlyForward ==
    [][\A r \in DOMAIN res \cap DOMAIN res' : MovesOn(r) \/ Reopens(r)]_vars

\* What was confirmed, published or audited is so in the database: a reservation
\* exists, a returned one is RETURNED.  Only a deletion of this row, or a save over
\* a change of it, undoes that (commands.py:61-88 and 126-161).
Kept(op, r) ==
    \/ r \in DOMAIN res /\ (op = "return" => res[r].status = "RETURNED")
    \/ Hit(r, {"stale_row", "deleted"})

PromisesKept == \A e \in effects : e[1] # "overdue" => Kept(e[1], e[2])

-----------------------------------------------------------------------------
(***************************************************************************)
(* Between the commands and the overdue task alone, when nothing fails.    *)
(***************************************************************************)

\* While a book row differs from what the cache may hold, the command that
\* changed it has its cache_invalidate_pattern("books") still ahead
\* (commands.py:51-56 and 131-136): no interleaving of commands ends stale.
StaleOnlyInFlight ==
    \A b \in dirty : \E w \in Workers : job[w].pc = "invalidate" /\ job[w].bid = b

-----------------------------------------------------------------------------
(***************************************************************************)
(* What the messages of the code promise, and its races break.             *)
(***************************************************************************)

\* The library never lends more copies than it owns: 'No copies available.'
\* (commands.py:32-34 and 50).
NoOverlending ==
    \A b \in DOMAIN book : book[b].avail + Cardinality(Outstanding(b)) <= book[b].total

\* A RETURNED reservation stays RETURNED: 'Can only extend active reservations.'
\* (commands.py:118-120 and 193-195).
ReturnedIsFinal ==
    [][\A r \in DOMAIN res \cap DOMAIN res' :
          res[r].status = "RETURNED" => res'[r].status = "RETURNED"]_vars

-----------------------------------------------------------------------------
(***************************************************************************)
(* Under FairSpec, without faults.                                         *)
(***************************************************************************)

\* A reservation in the database gets its confirmation, event, analytics task and
\* audit row, and an OVERDUE one its e-mail, whatever the other processes do
\* (commands.py:71-103, tasks.py:63-73).
EffectsFollow ==
    \A r \in 1 .. MaxReservations :
        /\ r \in DOMAIN res ~> \A e \in TailPCs : <<"reserve", r, e>> \in effects
        /\ (r \in DOMAIN res /\ res[r].status = "OVERDUE")
              ~> <<"overdue", r, "email">> \in effects

=============================================================================
