------------------------- MODULE ReservationsProofs -------------------------
(***************************************************************************)
(* Theorems about the reservation service as deployed: for every number of *)
(* users, books, workers and reservations, every choice of routes, every   *)
(* overlap of the handlers, with or without faults.  Only NoStaleEnd has   *)
(* hypotheses.                                                             *)
(*                                                                         *)
(* The first half is types, the stamps of returned loans, invalidations    *)
(* and e-mails.  The second half is what the history tells: how a loan     *)
(* moves on, what the promises of the commands and the count of the copies *)
(* rest on, and that until the first mishap the service is the library of  *)
(* Lending.  It goes over the actions once, in JobNext (what a step does   *)
(* to a job) and RowsStep (what it does to the rows).                      *)
(***************************************************************************)
EXTENDS Reservations, ReservationsLending, FiniteSetTheorems, TLAPS

-----------------------------------------------------------------------------
(***************************************************************************)
(* Type correctness.                                                       *)
(***************************************************************************)

JobsOK == DOMAIN job = Workers /\ \A w \in Workers : JobOK(job[w])

LEMMA NoRowsOK == DOMAIN NoRows \subseteq Ids /\ NoRows \in [DOMAIN NoRows -> Row]
  BY DEF NoRows

LEMMA IdleOK == JobOK(Idle)
  BY DEF JobOK, Idle, NoRows, PCs, ReservePCs, TailPCs

\* A step that gives one worker a well-formed job keeps all jobs well-formed.
LEMMA OneJob ==
    ASSUME JobsOK, NEW w \in Workers, NEW j, JobOK(j), job' = [job EXCEPT ![w] = j]
    PROVE  JobsOK'
  BY DEF JobsOK

LEMMA FinishOK ==
    ASSUME JobsOK, NEW w \in Workers, Finish(w)
    PROVE  JobsOK'
  BY IdleOK, OneJob DEF Finish

HistoryOK ==
    /\ mishaps \subseteq MishapKinds \X (Books \cup {None}) \X (Ids \cup Users \cup {None})
    /\ mislaid \in [Books -> Nat]

LEMMA DropOK ==
    ASSUME TypeOK, NEW w \in Workers, Drop(w)
    PROVE  JobsOK' /\ HistoryOK'
<1>1. JobsOK'
  BY FinishOK DEF Drop, TypeOK, JobsOK
<1>2. mislaid' \in [Books -> Nat]
  BY DEF Drop, TypeOK
<1>3. job[w].pc = "o_notify" => job[w].rid \in Ids
  BY DEF TypeOK, JobOK
<1>4. mishaps' \subseteq MishapKinds \X (Books \cup {None}) \X (Ids \cup Users \cup {None})
  BY <1>3 DEF Drop, TypeOK, MishapKinds
<1> QED BY <1>1, <1>2, <1>4 DEF HistoryOK

\* What book.save() does to the types.
LEMMA SaveBookOK ==
    ASSUME TypeOK, NEW w \in Workers, NEW row, NEW next,
           row.total \in Nat, row.avail \in Int, row = [total |-> row.total, avail |-> row.avail],
           job[w].bid \in Books, JobOK(next), SaveBook(w, row, next)
    PROVE  TypeOK'
<1>1. UNCHANGED <<res, nextId, now, effects>>
  BY DEF SaveBook
<1>2. CASE BookConstraints(row)
  <2>1. row \in BookRow
    BY <1>2 DEF BookConstraints, BookRow
  <2>2. /\ book' = Save(book, job[w].bid, row) /\ dirty' = dirty \cup {job[w].bid}
        /\ job' = [job EXCEPT ![w] = next]
    BY <1>2 DEF SaveBook
  <2>5. JobsOK'
    BY <2>2, OneJob DEF TypeOK, JobsOK
  <2>6. HistoryOK'
    BY <1>2 DEF SaveBook, TypeOK, HistoryOK, BookMishaps, MishapKinds
  <2>3. DOMAIN book' \subseteq Books /\ book' \in [DOMAIN book' -> BookRow]
        /\ DOMAIN book \subseteq DOMAIN book'
    BY <2>1, <2>2 DEF TypeOK, Save
  <2>4. \A b \in DOMAIN book' : BookConstraints(book'[b])
    BY <1>2, <2>1, <2>2 DEF TypeOK, Save
  <2> QED BY <1>1, <2>2, <2>3, <2>4, <2>5, <2>6 DEF TypeOK, JobsOK, HistoryOK
<1>3. CASE ~BookConstraints(row)
  <2>1. UNCHANGED <<book, dirty>> /\ JobsOK' /\ HistoryOK'
    BY <1>3, DropOK DEF SaveBook
  <2> QED BY <1>1, <2>1 DEF TypeOK, JobsOK, HistoryOK
<1> QED BY <1>2, <1>3

\* What reservation.save() does to the types.
LEMMA SaveRowOK ==
    ASSUME TypeOK, NEW w \in Workers, NEW id \in Ids, NEW row \in Row, NEW next,
           JobOK(next), nextId' \in Ids, SaveRow(w, id, row, next)
    PROVE  TypeOK'
<1>1. UNCHANGED <<book, now, dirty, effects>>
  BY DEF SaveRow
<1>2. CASE row.book \in DOMAIN book
  <2>1. res' = Save(res, id, row) /\ job' = [job EXCEPT ![w] = next]
    BY <1>2 DEF SaveRow
  <2>4. JobsOK'
    BY <2>1, OneJob DEF TypeOK, JobsOK
  <2>5. HistoryOK'
    <3>1. Concerned(id, row) \subseteq Books /\ RowMishaps(w, id, row) \subseteq MishapKinds
      BY <1>2 DEF Concerned, RowMishaps, MishapKinds, TypeOK, Row
    <3> QED BY <1>2, <3>1 DEF SaveRow, TypeOK, HistoryOK
  <2>2. DOMAIN res' \subseteq Ids /\ res' \in [DOMAIN res' -> Row]
    BY <2>1 DEF TypeOK, Save
  <2>3. \A r \in DOMAIN res' : res'[r].book \in DOMAIN book
    BY <1>2, <2>1 DEF TypeOK, Save
  <2> QED BY <1>1, <2>2, <2>3, <2>4, <2>5 DEF TypeOK, JobsOK, HistoryOK
<1>3. CASE row.book \notin DOMAIN book
  <2>1. UNCHANGED res /\ JobsOK' /\ HistoryOK'
    BY <1>3, DropOK DEF SaveRow
  <2> QED BY <1>1, <2>1 DEF TypeOK, JobsOK, HistoryOK
<1> QED BY <1>2, <1>3

\* An operation that picks up a reservation: the row it will save is well-formed.
LEMMA LoadOK ==
    ASSUME TypeOK, NEW w \in Workers, NEW op \in Operations,
           NEW pc \in {"t_close", "e_save", "p_save"}, NEW u \in Users,
           NEW r \in DOMAIN res, NEW arg, op # "reserve",
           pc = "t_close" => op = "return",
           pc = "e_save" => op = "extend" /\ arg \in Int,
           pc = "p_save" => op = "patch_reservation" /\ arg \in Books,
           Load(w, op, pc, u, r, arg)
    PROVE  TypeOK'
<1> DEFINE j == [pc |-> pc, op |-> op, user |-> u, bid |-> res[r].book, rid |-> r,
                 book |-> book[res[r].book], rows |-> Only(res, {r}), arg |-> arg]
<1>1. /\ UNCHANGED <<book, res, nextId, now, dirty, effects, history>>
      /\ job' = [job EXCEPT ![w] = j]
  BY DEF Load
<1>2. r \in Ids /\ res[r].book \in Books /\ book[res[r].book] \in BookRow
  BY DEF TypeOK, Row
<1>0. DOMAIN Only(res, {r}) = {r} /\ Only(res, {r}) \in [{r} -> Row]
  BY DEF TypeOK, Only
<1>3. JobOK(j)
  BY <1>0, <1>2 DEF JobOK, PCs, ReservePCs, TailPCs
<1>4. JobsOK'
  BY <1>1, <1>3, OneJob DEF TypeOK, JobsOK
<1> QED BY <1>1, <1>4 DEF TypeOK, JobsOK, history

LEMMA TypeInit == Init => TypeOK
<1> SUFFICES ASSUME Init PROVE TypeOK
  OBVIOUS
<1>1. DOMAIN book \subseteq Books /\ book \in [DOMAIN book -> BookRow]
      /\ \A b \in DOMAIN book : BookConstraints(book[b])
  BY ConstantsAssumption DEF Init, BookRow, BookConstraints
<1>2. DOMAIN res \subseteq Ids /\ res \in [DOMAIN res -> Row]
      /\ \A r \in DOMAIN res : res[r].book \in DOMAIN book
  BY DEF Init, NoRows
<1>3. nextId \in Ids /\ now \in Nat /\ dirty \subseteq Books
      /\ effects \subseteq Operations \X Ids \X (TailPCs \cup {"email"})
  BY DEF Init, Ids
<1>4. DOMAIN job = Workers /\ \A w \in Workers : JobOK(job[w])
  BY IdleOK DEF Init
<1>5. HistoryOK
  BY DEF Init, HistoryOK
<1> QED BY <1>1, <1>2, <1>3, <1>4, <1>5 DEF TypeOK, HistoryOK

\* One case per operation a worker can start.
LEMMA TypeRequest ==
    ASSUME TypeOK, NEW w \in Workers, Request(w)
    PROVE  TypeOK'
<1> USE DEF Operations
<1>1. ASSUME NEW u \in Users, NEW b \in Books, Reserve(w, u, b) PROVE TypeOK'
  <2> DEFINE j == [pc |-> "r_validate", op |-> "reserve", user |-> u, bid |-> b,
                   rid |-> None, book |-> book[b], rows |-> NoRows, arg |-> None]
  <2>1. /\ UNCHANGED <<book, res, nextId, now, dirty, effects>>
        /\ job' = [job EXCEPT ![w] = j] /\ book[b] \in BookRow
    BY <1>1 DEF Reserve, TypeOK
  <2>4. HistoryOK'
    BY <1>1 DEF Reserve, TypeOK, HistoryOK, MishapKinds
  <2>2. JobOK(j)
    BY <2>1, NoRowsOK DEF JobOK, PCs, ReservePCs, TailPCs
  <2>3. JobsOK'
    BY <2>1, <2>2, OneJob DEF TypeOK, JobsOK
  <2> QED BY <2>1, <2>3, <2>4 DEF TypeOK, JobsOK, HistoryOK
<1>2. ASSUME NEW u \in Users, NEW r \in DOMAIN res, Return(w, u, r) PROVE TypeOK'
  BY <1>2, LoadOK DEF Return
<1>3. ASSUME NEW u \in Users, NEW r \in DOMAIN res, NEW days \in ExtraDays,
             Extend(w, u, r, days)
      PROVE  TypeOK'
  BY <1>3, LoadOK, ConstantsAssumption DEF Extend
<1>4. CASE CheckOverdue(w)
  <2> DEFINE late == {r \in DOMAIN res : res[r].status = "ACTIVE" /\ res[r].due < now}
             j == [pc |-> "o_save", op |-> "overdue", user |-> None, bid |-> None,
                   rid |-> None, book |-> None, rows |-> Only(res, late), arg |-> None]
  <2>1. /\ UNCHANGED <<book, res, nextId, now, dirty, effects, mishaps, mislaid>>
        /\ job' = [job EXCEPT ![w] = j]
    BY <1>4 DEF CheckOverdue, history
  <2>2. DOMAIN Only(res, late) \subseteq Ids
        /\ Only(res, late) \in [DOMAIN Only(res, late) -> Row]
    BY DEF TypeOK, Only
  <2>3. JobOK(j)
    BY <2>2 DEF JobOK, PCs, ReservePCs, TailPCs
  <2>4. JobsOK'
    BY <2>1, <2>3, OneJob DEF TypeOK, JobsOK
  <2> QED BY <2>1, <2>4 DEF TypeOK, JobsOK
<1>5. ASSUME NEW u \in Users, NEW r \in DOMAIN res, NEW b \in Books,
             PatchReservation(w, u, r, b)
      PROVE  TypeOK'
  BY <1>5, LoadOK DEF PatchReservation
<1>6. ASSUME NEW u \in Users, NEW r \in DOMAIN res, DeleteReservation(w, u, r)
      PROVE  TypeOK'
  <2>1. res[r].book \in Books /\ r \in Ids
    BY DEF TypeOK, Row
  <2>2. HistoryOK'
    BY <1>6, <2>1 DEF DeleteReservation, TypeOK, HistoryOK, MishapKinds
  <2> QED BY <1>6, <2>2 DEF DeleteReservation, Delete, TypeOK, HistoryOK
<1>7. ASSUME NEW b \in Books, PatchBook(w, b) PROVE TypeOK'
  <2>1. PICK row \in {book[b]} \cup [total : 0 .. MaxCopies, avail : 0 .. MaxCopies] :
           job' = [job EXCEPT ![w] = [pc |-> "b_save", op |-> "patch_book", user |-> None,
                                      bid |-> b, rid |-> None, book |-> book[b],
                                      rows |-> NoRows, arg |-> row]]
    BY <1>7 DEF PatchBook
  <2> DEFINE j == [pc |-> "b_save", op |-> "patch_book", user |-> None, bid |-> b,
                   rid |-> None, book |-> book[b], rows |-> NoRows, arg |-> row]
  <2>2. /\ UNCHANGED <<book, res, nextId, now, dirty, effects, mishaps, mislaid>>
        /\ row \in BookRow /\ book[b] \in BookRow
    BY <1>7, ConstantsAssumption DEF PatchBook, TypeOK, BookRow, history
  <2>3. JobOK(j)
    BY <2>2, NoRowsOK DEF JobOK, PCs, ReservePCs, TailPCs
  <2>4. JobsOK'
    BY <2>1, <2>3, OneJob DEF TypeOK, JobsOK
  <2> QED BY <2>2, <2>4 DEF TypeOK, JobsOK
<1>8. ASSUME NEW b \in Books, DeleteBook(w, b) PROVE TypeOK'
  <2>1. HistoryOK'
    BY <1>8 DEF DeleteBook, TypeOK, HistoryOK, MishapKinds
  <2> QED BY <1>8, <2>1 DEF DeleteBook, Delete, TypeOK, HistoryOK
<1> QED BY <1>1, <1>2, <1>3, <1>4, <1>5, <1>6, <1>7, <1>8 DEF Request

\* Moving a handler to its next statement changes nothing else in its job, but
\* the field that is assigned with it.
LEMMA MovePC ==
    ASSUME NEW j, NEW pc, NEW x,
           j = [pc |-> j.pc, op |-> j.op, user |-> j.user, bid |-> j.bid,
                rid |-> j.rid, book |-> j.book, rows |-> j.rows, arg |-> j.arg]
    PROVE  /\ [j EXCEPT !.pc = pc] =
                 [pc |-> pc, op |-> j.op, user |-> j.user, bid |-> j.bid,
                  rid |-> j.rid, book |-> j.book, rows |-> j.rows, arg |-> j.arg]
           /\ [j EXCEPT !.pc = pc, !.rid = x] =
                 [pc |-> pc, op |-> j.op, user |-> j.user, bid |-> j.bid,
                  rid |-> x, book |-> j.book, rows |-> j.rows, arg |-> j.arg]
           /\ [j EXCEPT !.pc = pc, !.rows = x] =
                 [pc |-> pc, op |-> j.op, user |-> j.user, bid |-> j.bid,
                  rid |-> j.rid, book |-> j.book, rows |-> x, arg |-> j.arg]
<1> DEFINE k == [pc |-> pc, op |-> j.op, user |-> j.user, bid |-> j.bid,
                 rid |-> j.rid, book |-> j.book, rows |-> j.rows, arg |-> j.arg]
<1>1. [j EXCEPT !.pc = pc] = k
  OBVIOUS
<1>2. [j EXCEPT !.pc = pc, !.rid = x] = [k EXCEPT !.rid = x]
  BY <1>1
<1>3. [j EXCEPT !.pc = pc, !.rows = x] = [k EXCEPT !.rows = x]
  BY <1>1
<1> QED BY <1>1, <1>2, <1>3

LEMMA GotoOK ==
    ASSUME TypeOK, NEW w \in Workers, NEW pc, Goto(w, pc), JobOK([job[w] EXCEPT !.pc = pc])
    PROVE  JobsOK'
<1>1. job' = [job EXCEPT ![w] = [job[w] EXCEPT !.pc = pc]]
  BY DEF Goto
<1> QED BY <1>1, OneJob DEF TypeOK, JobsOK

\* One case per statement of a handler.
LEMMA TypeStep ==
    ASSUME TypeOK, NEW w \in Workers, Step(w)
    PROVE  TypeOK'
<1> DEFINE j == job[w]
<1>0. JobOK(j) /\ JobsOK
  BY DEF TypeOK, JobsOK
<1>1. CASE ReserveValidate(w)
  <2>1. JobOK([j EXCEPT !.pc = "r_take"])
    BY <1>0, <1>1, MovePC DEF ReserveValidate, JobOK, PCs, ReservePCs, TailPCs
  <2>2. JobsOK'
    BY <1>0, <1>1, <2>1, FinishOK, GotoOK DEF ReserveValidate
  <2> QED BY <1>1, <2>2 DEF ReserveValidate, TypeOK, JobsOK, history
<1>2. CASE TakeCopy(w)
  <2>1. JobOK([j EXCEPT !.pc = "invalidate"])
    BY <1>0, <1>2, MovePC DEF TakeCopy, JobOK, PCs, ReservePCs, TailPCs
  <2>2. j.bid \in Books /\ j.book \in BookRow
    BY <1>0, <1>2 DEF TakeCopy, JobOK, ReservePCs
  <2> DEFINE row == [j.book EXCEPT !.avail = @ - 1]
  <2>3. row.total \in Nat /\ row.avail \in Int
        /\ row = [total |-> row.total, avail |-> row.avail]
    BY <2>2 DEF BookRow
  <2> QED BY <1>2, <2>1, <2>2, <2>3, SaveBookOK DEF TakeCopy
<1>3. CASE Invalidate(w)
  <2> DEFINE pc == IF j.op = "reserve" THEN "r_create" ELSE "confirm"
  <2>1. JobOK([j EXCEPT !.pc = pc])
    BY <1>0, <1>3, MovePC DEF Invalidate, JobOK, PCs, ReservePCs, TailPCs
  <2>2. JobsOK'
    BY <1>3, <2>1, GotoOK DEF Invalidate
  <2> QED BY <1>3, <2>2 DEF Invalidate, TypeOK, JobsOK, history
<1>4. CASE CreateReservation(w)
  <2> DEFINE row == [user |-> j.user, book |-> j.bid, status |-> "ACTIVE",
                     due |-> now + LoanDays, returned_at |-> "null"]
             next == [j EXCEPT !.pc = "confirm", !.rid = nextId]
  <2>1. j.pc = "r_create" /\ j.op = "reserve" /\ j.user \in Users /\ j.bid \in Books
        /\ nextId \in Ids
    BY <1>0, <1>4 DEF CreateReservation, JobOK, ReservePCs, TypeOK
  <2>2. row \in Row
    BY <2>1, ConstantsAssumption DEF Row, Status, TypeOK
  <2>3. next = [pc |-> "confirm", op |-> j.op, user |-> j.user, bid |-> j.bid,
                rid |-> nextId, book |-> j.book, rows |-> j.rows, arg |-> j.arg]
    BY <1>0, MovePC DEF JobOK
  <2>4. JobOK(next)
    BY <1>0, <2>1, <2>3 DEF JobOK, PCs, ReservePCs, TailPCs
  <2>5. nextId' \in Ids /\ SaveRow(w, nextId, row, next)
    BY <1>4, <2>1 DEF CreateReservation, Ids
  <2> QED BY <2>1, <2>2, <2>4, <2>5, SaveRowOK
<1>5. CASE Emit(w)
  <2>1. j.pc \in TailPCs /\ j.op \in {"reserve", "return"} /\ j.rid \in Ids
    BY <1>0, <1>5 DEF Emit, Tail, JobOK, TailPCs
  <2>2. effects' \subseteq Operations \X Ids \X (TailPCs \cup {"email"})
    BY <1>5, <2>1 DEF Emit, TypeOK, Operations
  <2>3. ASSUME NEW pc \in {"event", "analytics", "audit"}
        PROVE  JobOK([j EXCEPT !.pc = pc])
    BY <1>0, <2>1, MovePC DEF JobOK, PCs, ReservePCs, TailPCs
  <2>4. JobsOK'
    <3>1. CASE j.pc = "audit"
      BY <1>0, <1>5, <3>1, FinishOK DEF Emit
    <3>2. CASE j.pc # "audit"
      <4>1. Tail[j.pc] \in {"event", "analytics", "audit"}
        BY <2>1, <3>2 DEF Tail, TailPCs
      <4> QED BY <1>5, <3>2, <4>1, <2>3, GotoOK DEF Emit
    <3> QED BY <3>1, <3>2
  <2> QED BY <1>5, <2>2, <2>4 DEF Emit, TypeOK, JobsOK, history
<1>6. CASE CloseReservation(w)
  <2>1. JobOK([j EXCEPT !.pc = "t_shelve"])
    BY <1>0, <1>6, MovePC DEF CloseReservation, JobOK, PCs, ReservePCs, TailPCs
  <2> DEFINE row == [Mem(w) EXCEPT !.status = "RETURNED", !.returned_at = "set"]
  <2>2. j.rid \in Ids /\ row \in Row
    <3>1. j.rid \in Ids /\ Mem(w) \in Row
      BY <1>0, <1>6 DEF CloseReservation, JobOK, Mem
    <3> QED BY <3>1 DEF Row, Status
  <2>3. nextId' \in Ids
    BY <1>6 DEF CloseReservation, TypeOK
  <2> QED BY <1>6, <2>1, <2>2, <2>3, SaveRowOK DEF CloseReservation
<1>7. CASE ShelveCopy(w)
  <2>1. JobOK([j EXCEPT !.pc = "invalidate"])
    BY <1>0, <1>7, MovePC DEF ShelveCopy, JobOK, PCs, ReservePCs, TailPCs
  <2>2. j.bid \in Books /\ j.book \in BookRow
    BY <1>0, <1>7 DEF ShelveCopy, JobOK
  <2> DEFINE row == [j.book EXCEPT !.avail = @ + 1]
  <2>3. row.total \in Nat /\ row.avail \in Int
        /\ row = [total |-> row.total, avail |-> row.avail]
    BY <2>2 DEF BookRow
  <2> QED BY <1>7, <2>1, <2>2, <2>3, SaveBookOK DEF ShelveCopy
<1>8. CASE SaveExtension(w)
  <2> DEFINE row == [Mem(w) EXCEPT !.due = @ + j.arg]
  <2>1. j.rid \in Ids /\ row \in Row
    <3>1. j.rid \in Ids /\ Mem(w) \in Row /\ j.arg \in Int
      BY <1>0, <1>8 DEF SaveExtension, JobOK, Mem
    <3> QED BY <3>1 DEF Row
  <2> QED BY <1>8, <2>1, IdleOK, SaveRowOK DEF SaveExtension, TypeOK
<1>9. CASE SavePatchedReservation(w)
  <2> DEFINE row == [Mem(w) EXCEPT !.book = j.arg]
  <2>1. j.rid \in Ids /\ row \in Row
    <3>1. j.rid \in Ids /\ Mem(w) \in Row /\ j.arg \in Books
      BY <1>0, <1>9 DEF SavePatchedReservation, JobOK, Mem
    <3> QED BY <3>1 DEF Row
  <2> QED BY <1>9, <2>1, IdleOK, SaveRowOK DEF SavePatchedReservation, TypeOK
<1>10. CASE SavePatchedBook(w)
  <2>1. j.bid \in Books /\ j.arg \in BookRow
    BY <1>0, <1>10 DEF SavePatchedBook, JobOK
  <2>2. j.arg.total \in Nat /\ j.arg.avail \in Int
        /\ j.arg = [total |-> j.arg.total, avail |-> j.arg.avail]
    BY <2>1 DEF BookRow
  <2> QED BY <1>10, <2>1, <2>2, IdleOK, SaveBookOK DEF SavePatchedBook
<1>11. CASE MarkOverdue(w)
  <2>1. PICK r \in DOMAIN j.rows :
           SaveRow(w, r, [j.rows[r] EXCEPT !.status = "OVERDUE"],
                   [j EXCEPT !.pc = "o_notify", !.rid = r])
    BY <1>11 DEF MarkOverdue
  <2> DEFINE next == [j EXCEPT !.pc = "o_notify", !.rid = r]
  <2>2. /\ r \in Ids /\ [j.rows[r] EXCEPT !.status = "OVERDUE"] \in Row
        /\ j.op = "overdue"
    BY <1>0, <1>11, <2>1 DEF MarkOverdue, JobOK, Row, Status
  <2>3. next = [pc |-> "o_notify", op |-> j.op, user |-> j.user, bid |-> j.bid,
                rid |-> r, book |-> j.book, rows |-> j.rows, arg |-> j.arg]
    BY <1>0, MovePC DEF JobOK
  <2>4. JobOK(next)
    BY <1>0, <2>2, <2>3 DEF JobOK, PCs, ReservePCs, TailPCs
  <2>5. nextId' \in Ids
    BY <1>11 DEF MarkOverdue, TypeOK
  <2> QED BY <2>1, <2>2, <2>4, <2>5, SaveRowOK
<1>12. CASE NotifyOverdue(w)
  <2> DEFINE left == DOMAIN j.rows \ {j.rid}
             next == [j EXCEPT !.pc = "o_save", !.rows = Only(j.rows, left)]
  <2>1. j.rid \in Ids /\ j.op = "overdue"
    BY <1>0, <1>12 DEF NotifyOverdue, JobOK
  <2>2. effects' \subseteq Operations \X Ids \X (TailPCs \cup {"email"})
    BY <1>12, <2>1 DEF NotifyOverdue, TypeOK, Operations
  <2>3. next = [pc |-> "o_save", op |-> j.op, user |-> j.user, bid |-> j.bid,
                rid |-> j.rid, book |-> j.book, rows |-> Only(j.rows, left), arg |-> j.arg]
    <3> HIDE DEF left
    <3>1. \A x : [j EXCEPT !.pc = "o_save", !.rows = x] =
                    [pc |-> "o_save", op |-> j.op, user |-> j.user, bid |-> j.bid,
                     rid |-> j.rid, book |-> j.book, rows |-> x, arg |-> j.arg]
      BY <1>0, MovePC DEF JobOK
    <3> QED BY <3>1
  <2>4. DOMAIN Only(j.rows, left) \subseteq Ids
        /\ Only(j.rows, left) \in [DOMAIN Only(j.rows, left) -> Row]
    BY <1>0 DEF JobOK, Only
  <2>5. JobOK(next)
    BY <1>0, <2>1, <2>3, <2>4 DEF JobOK, PCs, ReservePCs, TailPCs
  <2>6. JobsOK'
    <3>1. CASE left = {}
      BY <1>0, <1>12, <3>1, FinishOK DEF NotifyOverdue
    <3>2. CASE left # {}
      <4>1. job' = [job EXCEPT ![w] = next]
        BY <1>12, <3>2 DEF NotifyOverdue
      <4> QED BY <1>0, <2>5, <4>1, OneJob
    <3> QED BY <3>1, <3>2
  <2> QED BY <1>12, <2>2, <2>6 DEF NotifyOverdue, TypeOK, JobsOK, history
<1> QED BY <1>1, <1>2, <1>3, <1>4, <1>5, <1>6, <1>7, <1>8, <1>9, <1>10, <1>11, <1>12
        DEF Step

LEMMA TypeNext == TypeOK /\ [Next]_vars => TypeOK'
<1> SUFFICES ASSUME TypeOK, [Next]_vars PROVE TypeOK'
  OBVIOUS
<1>1. ASSUME NEW w \in Workers, Abort(w) PROVE TypeOK'
  BY <1>1, DropOK DEF Abort, TypeOK, JobsOK, HistoryOK
<1>2. CASE Tick
  BY <1>2 DEF Tick, TypeOK, history
<1>3. CASE UNCHANGED vars
  BY <1>3 DEF vars, TypeOK, history
<1> QED BY <1>1, <1>2, <1>3, TypeRequest, TypeStep DEF Next

\* All tables, messages and handlers keep their types, the book rows satisfy their
\* CHECK constraints, and no reservation row refers to a deleted book, however
\* many processes interleave (models.py:35-44, reservations/models.py:12-21).
THEOREM TypeCorrect == Spec => []TypeOK
<1>1. Init => TypeOK
  BY TypeInit
<1>2. TypeOK /\ [Next]_vars => TypeOK'
  BY TypeNext
<1> QED BY <1>1, <1>2, PTL DEF Spec

-----------------------------------------------------------------------------
(***************************************************************************)
(* RETURNED exactly on the rows with a returned_at.  Inductive once it is  *)
(* also stated of the rows in the memory of the handlers, which is what    *)
(* they will save; the overdue task holds no RETURNED row.                 *)
(***************************************************************************)
Stamped(row) == row.status = "RETURNED" <=> row.returned_at = "set"

RowsStamped(j) ==
    \A r \in DOMAIN j.rows : /\ Stamped(j.rows[r])
                             /\ j.op = "overdue" => j.rows[r].status # "RETURNED"

StampedInv ==
    /\ \A r \in DOMAIN res : Stamped(res[r])
    /\ \A w \in Workers : RowsStamped(job[w])

LEMMA IdleStamped == RowsStamped(Idle)
  BY DEF RowsStamped, Idle, NoRows

\* Only the rows and the operation of a job matter.
LEMMA SameStamped ==
    ASSUME NEW j, NEW k, RowsStamped(j), k.rows = j.rows, k.op = j.op
    PROVE  RowsStamped(k)
  BY DEF RowsStamped

LEMMA StampedJob ==
    ASSUME TypeOK, StampedInv, NEW w \in Workers, NEW j, RowsStamped(j),
           job' = [job EXCEPT ![w] = j], UNCHANGED res
    PROVE  StampedInv'
  BY DEF StampedInv, TypeOK

LEMMA StampedGoto ==
    ASSUME TypeOK, StampedInv, NEW w \in Workers, NEW pc, Goto(w, pc), UNCHANGED res
    PROVE  StampedInv'
<1>1. job' = [job EXCEPT ![w] = [job[w] EXCEPT !.pc = pc]]
  BY DEF Goto
<1> DEFINE k == [job[w] EXCEPT !.pc = pc]
<1>2. k.rows = job[w].rows /\ k.op = job[w].op
  <2>1. JobOK(job[w])
    BY DEF TypeOK
  <2> QED BY <2>1, MovePC DEF JobOK
<1>3. RowsStamped(k)
  BY <1>2, SameStamped DEF StampedInv
<1> QED BY <1>1, <1>3, StampedJob

LEMMA StampedFinish ==
    ASSUME TypeOK, StampedInv, NEW w \in Workers, Finish(w), UNCHANGED res
    PROVE  StampedInv'
  BY IdleStamped, StampedJob DEF Finish

LEMMA StampedSaveRow ==
    ASSUME TypeOK, StampedInv, NEW w \in Workers, NEW id, NEW row, NEW next,
           Stamped(row), RowsStamped(next), SaveRow(w, id, row, next)
    PROVE  StampedInv'
<1>1. CASE row.book \in DOMAIN book
  <2>1. res' = Save(res, id, row) /\ job' = [job EXCEPT ![w] = next]
    BY <1>1 DEF SaveRow
  <2>2. \A r \in DOMAIN res' : Stamped(res'[r])
    BY <2>1 DEF Save, StampedInv
  <2>3. \A v \in Workers : RowsStamped(job'[v])
    BY <2>1 DEF StampedInv, TypeOK
  <2> QED BY <2>2, <2>3 DEF StampedInv
<1>2. CASE row.book \notin DOMAIN book
  BY <1>2, StampedFinish DEF SaveRow, Drop
<1> QED BY <1>1, <1>2

LEMMA StampedSaveBook ==
    ASSUME TypeOK, StampedInv, NEW w \in Workers, NEW row, NEW next,
           RowsStamped(next), SaveBook(w, row, next)
    PROVE  StampedInv'
<1>1. CASE BookConstraints(row)
  BY <1>1, StampedJob DEF SaveBook
<1>2. CASE ~BookConstraints(row)
  BY <1>2, StampedFinish DEF SaveBook, Drop
<1> QED BY <1>1, <1>2

LEMMA StampedRequest ==
    ASSUME TypeOK, StampedInv, NEW w \in Workers, Request(w)
    PROVE  StampedInv'
<1>1. ASSUME NEW u \in Users, NEW b \in Books, Reserve(w, u, b) PROVE StampedInv'
  <2>1. RowsStamped([pc |-> "r_validate", op |-> "reserve", user |-> u, bid |-> b,
                     rid |-> None, book |-> book[b], rows |-> NoRows, arg |-> None])
    BY DEF RowsStamped, NoRows
  <2> QED BY <1>1, <2>1, StampedJob DEF Reserve
<1>2. ASSUME NEW op, NEW pc, NEW u, NEW r \in DOMAIN res, NEW arg, op # "overdue",
             Load(w, op, pc, u, r, arg)
      PROVE  StampedInv'
  <2>1. RowsStamped([pc |-> pc, op |-> op, user |-> u, bid |-> res[r].book, rid |-> r,
                     book |-> book[res[r].book], rows |-> Only(res, {r}), arg |-> arg])
    BY <1>2 DEF RowsStamped, Only, StampedInv
  <2> QED BY <1>2, <2>1, StampedJob DEF Load
<1>3. ASSUME NEW r \in DOMAIN res
      PROVE  Stamped(res[r]) /\ res[r] \in Row
  BY DEF StampedInv, TypeOK
<1>4. ASSUME NEW u \in Users, NEW r \in DOMAIN res, Return(w, u, r) PROVE StampedInv'
  BY <1>2, <1>4 DEF Return
<1>5. ASSUME NEW u \in Users, NEW r \in DOMAIN res, NEW days \in ExtraDays,
             Extend(w, u, r, days)
      PROVE  StampedInv'
  BY <1>2, <1>5 DEF Extend
<1>6. CASE CheckOverdue(w)
  <2> DEFINE late == {r \in DOMAIN res : res[r].status = "ACTIVE" /\ res[r].due < now}
  <2>1. RowsStamped([pc |-> "o_save", op |-> "overdue", user |-> None, bid |-> None,
                     rid |-> None, book |-> None, rows |-> Only(res, late), arg |-> None])
    BY <1>3 DEF RowsStamped, Only
  <2> QED BY <1>6, <2>1, StampedJob DEF CheckOverdue
<1>7. ASSUME NEW u \in Users, NEW r \in DOMAIN res, NEW b \in Books,
             PatchReservation(w, u, r, b)
      PROVE  StampedInv'
  BY <1>2, <1>7 DEF PatchReservation
<1>8. ASSUME NEW u \in Users, NEW r \in DOMAIN res, DeleteReservation(w, u, r)
      PROVE  StampedInv'
  BY <1>8 DEF DeleteReservation, Delete, StampedInv
<1>9. ASSUME NEW b \in Books, PatchBook(w, b) PROVE StampedInv'
  <2>1. PICK row : job' = [job EXCEPT ![w] =
                      [pc |-> "b_save", op |-> "patch_book", user |-> None, bid |-> b,
                       rid |-> None, book |-> book[b], rows |-> NoRows, arg |-> row]]
    BY <1>9 DEF PatchBook
  <2>2. RowsStamped([pc |-> "b_save", op |-> "patch_book", user |-> None, bid |-> b,
                     rid |-> None, book |-> book[b], rows |-> NoRows, arg |-> row])
    BY DEF RowsStamped, NoRows
  <2> QED BY <1>9, <2>1, <2>2, StampedJob DEF PatchBook
<1>10. ASSUME NEW b \in Books, DeleteBook(w, b) PROVE StampedInv'
  BY <1>10 DEF DeleteBook, Delete, StampedInv
<1> QED BY <1>1, <1>4, <1>5, <1>6, <1>7, <1>8, <1>9, <1>10 DEF Request

LEMMA StampedStep ==
    ASSUME TypeOK, StampedInv, NEW w \in Workers, Step(w)
    PROVE  StampedInv'
<1> DEFINE j == job[w]
<1>0. JobOK(j) /\ RowsStamped(j)
  BY DEF TypeOK, StampedInv
<1>1. ASSUME NEW pc PROVE RowsStamped([j EXCEPT !.pc = pc])
  <2> DEFINE k == [j EXCEPT !.pc = pc]
  <2>1. k.rows = j.rows /\ k.op = j.op
    BY <1>0, MovePC DEF JobOK
  <2> QED BY <1>0, <2>1, SameStamped
<1>2. ASSUME NEW pc, NEW x PROVE RowsStamped([j EXCEPT !.pc = pc, !.rid = x])
  <2> DEFINE k == [j EXCEPT !.pc = pc, !.rid = x]
  <2>1. k.rows = j.rows /\ k.op = j.op
    BY <1>0, MovePC DEF JobOK
  <2> QED BY <1>0, <2>1, SameStamped
<1>3. CASE ReserveValidate(w)
  BY <1>3, StampedFinish, StampedGoto DEF ReserveValidate
<1>4. CASE TakeCopy(w)
  BY <1>1, <1>4, StampedSaveBook DEF TakeCopy
<1>5. CASE Invalidate(w)
  BY <1>5, StampedGoto DEF Invalidate
<1>6. CASE CreateReservation(w)
  <2>1. Stamped([user |-> j.user, book |-> j.bid, status |-> "ACTIVE",
                 due |-> now + LoanDays, returned_at |-> "null"])
    BY DEF Stamped
  <2> QED BY <1>2, <1>6, <2>1, StampedSaveRow DEF CreateReservation
<1>7. CASE Emit(w)
  BY <1>7, StampedFinish, StampedGoto DEF Emit
<1>8. j.rid \in DOMAIN j.rows => Stamped(Mem(w)) /\ Mem(w) \in Row
  BY <1>0 DEF RowsStamped, Mem, JobOK
<1>9. CASE CloseReservation(w)
  <2>1. Stamped([Mem(w) EXCEPT !.status = "RETURNED", !.returned_at = "set"])
    BY <1>0, <1>8, <1>9 DEF CloseReservation, JobOK, Stamped, Row
  <2> QED BY <1>1, <1>9, <2>1, StampedSaveRow DEF CloseReservation
<1>10. CASE ShelveCopy(w)
  BY <1>1, <1>10, StampedSaveBook DEF ShelveCopy
<1>11. CASE SaveExtension(w)
  <2>1. Stamped([Mem(w) EXCEPT !.due = @ + j.arg])
    BY <1>0, <1>8, <1>11 DEF SaveExtension, JobOK, Stamped, Row
  <2> QED BY <1>11, <2>1, IdleStamped, StampedSaveRow DEF SaveExtension
<1>12. CASE SavePatchedReservation(w)
  <2>1. Stamped([Mem(w) EXCEPT !.book = j.arg])
    BY <1>0, <1>8, <1>12 DEF SavePatchedReservation, JobOK, Stamped, Row
  <2> QED BY <1>12, <2>1, IdleStamped, StampedSaveRow DEF SavePatchedReservation
<1>13. CASE SavePatchedBook(w)
  BY <1>13, IdleStamped, StampedSaveBook DEF SavePatchedBook
<1>14. CASE MarkOverdue(w)
  <2>1. PICK r \in DOMAIN j.rows :
           SaveRow(w, r, [j.rows[r] EXCEPT !.status = "OVERDUE"],
                   [j EXCEPT !.pc = "o_notify", !.rid = r])
    BY <1>14 DEF MarkOverdue
  <2>2. j.op = "overdue" /\ j.rows[r] \in Row
    BY <1>0, <1>14 DEF MarkOverdue, JobOK
  <2>3. Stamped([j.rows[r] EXCEPT !.status = "OVERDUE"])
    BY <1>0, <2>2 DEF RowsStamped, Stamped, Row
  <2> QED BY <1>2, <2>1, <2>3, StampedSaveRow
<1>15. CASE NotifyOverdue(w)
  <2> DEFINE left == DOMAIN j.rows \ {j.rid}
  <2>1. \A x : [j EXCEPT !.pc = "o_save", !.rows = x] =
                  [pc |-> "o_save", op |-> j.op, user |-> j.user, bid |-> j.bid,
                   rid |-> j.rid, book |-> j.book, rows |-> x, arg |-> j.arg]
    BY <1>0, MovePC DEF JobOK
  <2>2. RowsStamped([pc |-> "o_save", op |-> j.op, user |-> j.user, bid |-> j.bid,
                     rid |-> j.rid, book |-> j.book, rows |-> Only(j.rows, left), arg |-> j.arg])
    BY <1>0 DEF RowsStamped, Only
  <2>3. CASE left = {}
    BY <1>15, <2>3, StampedFinish DEF NotifyOverdue
  <2>4. CASE left # {}
    <3>1. job' = [job EXCEPT ![w] = [j EXCEPT !.pc = "o_save", !.rows = Only(j.rows, left)]]
      BY <1>15, <2>4 DEF NotifyOverdue
    <3> QED BY <1>15, <2>1, <2>2, <3>1, StampedJob DEF NotifyOverdue
  <2> QED BY <2>3, <2>4
<1> QED BY <1>3, <1>4, <1>5, <1>6, <1>7, <1>9, <1>10, <1>11, <1>12, <1>13, <1>14, <1>15
        DEF Step

\* However the handlers interleave and whichever fail, RETURNED and returned_at
\* go together: no save mixes the columns of two versions of a row
\* (commands.py:126-128 and 201-202, tasks.py:63-65).
THEOREM ReturnedStamped == Spec => []ReturnedIffStamped
<1>1. Init => TypeOK /\ StampedInv
  BY TypeInit, IdleStamped DEF Init, StampedInv, NoRows
<1>2. TypeOK /\ StampedInv /\ [Next]_vars => TypeOK' /\ StampedInv'
  <2> SUFFICES ASSUME TypeOK, StampedInv, [Next]_vars PROVE StampedInv'
    BY TypeNext
  <2>1. ASSUME NEW w \in Workers, Abort(w) PROVE StampedInv'
    BY <2>1, StampedFinish DEF Abort, Drop
  <2>2. CASE Tick \/ UNCHANGED vars
    BY <2>2 DEF Tick, vars, StampedInv
  <2> QED BY <2>1, <2>2, StampedRequest, StampedStep DEF Next
<1>3. StampedInv => ReturnedIffStamped
  BY DEF StampedInv, ReturnedIffStamped, Stamped
<1> QED BY <1>1, <1>2, <1>3, PTL DEF Spec

-----------------------------------------------------------------------------
(***************************************************************************)
(* What every step of a worker has in common.                              *)
(***************************************************************************)
LEMMA OneWorker ==
    ASSUME TypeOK, NEW w \in Workers, Request(w) \/ Step(w) \/ Abort(w)
    PROVE  /\ \A v \in Workers : v # w => job'[v] = job[v]
           /\ effects \subseteq effects' /\ mishaps \subseteq mishaps'
<1>0. DOMAIN job = Workers
  BY DEF TypeOK
<1>1. CASE Request(w)
  BY <1>0, <1>1 DEF Request, Reserve, Return, Extend, Load, CheckOverdue, PatchReservation,
     DeleteReservation, PatchBook, DeleteBook, history
<1>2. CASE Step(w)
  <2>1. CASE ReserveValidate(w) \/ TakeCopy(w) \/ Invalidate(w) \/ CreateReservation(w)
    BY <1>0, <2>1 DEF ReserveValidate, TakeCopy, Invalidate, CreateReservation, SaveBook,
       SaveRow, Goto, Finish, Drop, history
  <2>2. CASE Emit(w) \/ NotifyOverdue(w)
    BY <1>0, <2>2 DEF Emit, NotifyOverdue, Goto, Finish, history
  <2>3. CASE CloseReservation(w) \/ ShelveCopy(w) \/ SaveExtension(w)
    BY <1>0, <2>3 DEF CloseReservation, ShelveCopy, SaveExtension, SaveBook, SaveRow, Finish,
       Drop
  <2>4. CASE MarkOverdue(w) \/ SavePatchedReservation(w) \/ SavePatchedBook(w)
    BY <1>0, <2>4 DEF MarkOverdue, SavePatchedReservation, SavePatchedBook, SaveBook,
       SaveRow, Finish, Drop
  <2> QED BY <1>2, <2>1, <2>2, <2>3, <2>4 DEF Step
<1>3. CASE Abort(w)
  BY <1>0, <1>3 DEF Abort, Finish, Drop
<1> QED BY <1>1, <1>2, <1>3

-----------------------------------------------------------------------------
(***************************************************************************)
(* No interleaving of commands ends with a stale cache, when neither a     *)
(* process nor Redis fails and no book is patched or deleted: those routes *)
(* invalidate nothing.                                                     *)
(***************************************************************************)
OpsOffered == \A w \in Workers : Busy(w) => job[w].op \in Routes

LEMMA OpsOfferedNext ==
    ASSUME TypeOK, OpsOffered, [Next]_vars
    PROVE  OpsOffered'
<1>1. ASSUME NEW w \in Workers, Request(w) \/ Step(w) \/ Abort(w) PROVE OpsOffered'
  <2>1. \A v \in Workers : v # w => job'[v] = job[v]
    BY <1>1, OneWorker
  <2>2. job'[w].pc # "idle" => job'[w].op \in Routes
    <3>0. JobOK(job[w]) /\ DOMAIN job = Workers
      BY DEF TypeOK
    <3>1. CASE Request(w)
      <4>1. ASSUME NEW u \in Users, NEW b \in Books, Reserve(w, u, b)
            PROVE  job'[w].op \in Routes
        BY <3>0, <4>1 DEF Reserve, MayStart
      <4>2. ASSUME NEW op, NEW pc, NEW u, NEW r, NEW row, Load(w, op, pc, u, r, row)
            PROVE  job'[w].op \in Routes
        BY <3>0, <4>2 DEF Load, MayStart
      <4>3. ASSUME NEW u \in Users, NEW r \in DOMAIN res,
                   \/ Return(w, u, r) \/ DeleteReservation(w, u, r)
                   \/ \E days \in ExtraDays : Extend(w, u, r, days)
                   \/ \E b \in Books : PatchReservation(w, u, r, b)
            PROVE  job'[w].pc # "idle" => job'[w].op \in Routes
        BY <4>2, <4>3 DEF Return, Extend, PatchReservation, DeleteReservation, MayStart, Busy
      <4>4. CASE CheckOverdue(w)
        BY <3>0, <4>4 DEF CheckOverdue, MayStart
      <4>5. ASSUME NEW b \in Books, PatchBook(w, b) \/ DeleteBook(w, b)
            PROVE  job'[w].pc # "idle" => job'[w].op \in Routes
        BY <3>0, <4>5 DEF PatchBook, DeleteBook, MayStart, Busy
      <4> QED BY <3>1, <4>1, <4>3, <4>4, <4>5 DEF Request
    <3>2. ASSUME NEW pc, NEW x, Busy(w),
                 \/ job' = [job EXCEPT ![w] = [job[w] EXCEPT !.pc = pc]]
                 \/ job' = [job EXCEPT ![w] = [job[w] EXCEPT !.pc = pc, !.rid = x]]
                 \/ job' = [job EXCEPT ![w] = [job[w] EXCEPT !.pc = pc, !.rows = x]]
                 \/ Goto(w, pc) \/ Finish(w)
          PROVE  job'[w].pc # "idle" => job'[w].op \in Routes
      <4>1. /\ [job[w] EXCEPT !.pc = pc].op = job[w].op
            /\ [job[w] EXCEPT !.pc = pc, !.rid = x].op = job[w].op
            /\ [job[w] EXCEPT !.pc = pc, !.rows = x].op = job[w].op
        BY <3>0, MovePC DEF JobOK
      <4>2. job[w].op \in Routes
        BY <3>2 DEF OpsOffered
      <4>3. \/ job' = [job EXCEPT ![w] = [job[w] EXCEPT !.pc = pc]]
            \/ job' = [job EXCEPT ![w] = [job[w] EXCEPT !.pc = pc, !.rid = x]]
            \/ job' = [job EXCEPT ![w] = [job[w] EXCEPT !.pc = pc, !.rows = x]]
            \/ job' = [job EXCEPT ![w] = Idle]
        BY <3>2 DEF Goto, Finish
      <4>4. PICK k : job' = [job EXCEPT ![w] = k] /\ (k.pc = "idle" \/ k.op = job[w].op)
        BY <4>1, <4>3, Zenon DEF Idle
      <4>5. job'[w] = k
        BY <3>0, <4>4
      <4> QED BY <4>2, <4>4, <4>5
    <3>3. CASE Step(w)
      <4>1. Busy(w)
        BY <3>3 DEF Step, ReserveValidate, TakeCopy, Invalidate, CreateReservation, Emit, Tail,
           CloseReservation, ShelveCopy, SaveExtension, MarkOverdue, NotifyOverdue,
           SavePatchedReservation, SavePatchedBook, Busy
      <4>2. \E pc, x :
                 \/ job' = [job EXCEPT ![w] = [job[w] EXCEPT !.pc = pc]]
                 \/ job' = [job EXCEPT ![w] = [job[w] EXCEPT !.pc = pc, !.rid = x]]
                 \/ job' = [job EXCEPT ![w] = [job[w] EXCEPT !.pc = pc, !.rows = x]]
                 \/ Goto(w, pc) \/ Finish(w)
        <5>1. CASE ReserveValidate(w) \/ Invalidate(w) \/ Emit(w)
          BY <5>1 DEF ReserveValidate, Invalidate, Emit
        <5>2. CASE TakeCopy(w) \/ ShelveCopy(w) \/ SavePatchedBook(w)
          BY <5>2 DEF TakeCopy, ShelveCopy, SavePatchedBook, SaveBook, Finish, Drop
        <5>3. CASE CreateReservation(w) \/ CloseReservation(w)
          BY <5>3 DEF CreateReservation, CloseReservation, SaveRow, Drop
        <5>4. CASE SaveExtension(w) \/ SavePatchedReservation(w)
          BY <5>4 DEF SaveExtension, SavePatchedReservation, SaveRow, Finish, Drop
        <5>5. CASE MarkOverdue(w)
          BY <5>5 DEF MarkOverdue, SaveRow, Drop
        <5>6. CASE NotifyOverdue(w)
          <6> DEFINE left == DOMAIN job[w].rows \ {job[w].rid}
          <6>1. CASE left = {}
            BY <5>6, <6>1 DEF NotifyOverdue
          <6>2. CASE left # {}
            <7>1. job' = [job EXCEPT ![w] = [job[w] EXCEPT !.pc = "o_save",
                                                !.rows = Only(job[w].rows, left)]]
              BY <5>6, <6>2 DEF NotifyOverdue
            <7> QED BY <7>1, Zenon
          <6> QED BY <6>1, <6>2
        <5> QED BY <3>3, <5>1, <5>2, <5>3, <5>4, <5>5, <5>6 DEF Step
      <4> QED BY <3>2, <4>1, <4>2
    <3>4. CASE Abort(w)
      BY <3>2, <3>4 DEF Abort, Drop
    <3> QED BY <1>1, <3>1, <3>3, <3>4
  <2> QED BY <2>1, <2>2 DEF OpsOffered, Busy
<1>2. CASE Tick \/ UNCHANGED vars
  BY <1>2 DEF Tick, vars, OpsOffered, Busy
<1> QED BY <1>1, <1>2 DEF Next

LEMMA StaleNext ==
    ASSUME TypeOK, OpsOffered, StaleOnlyInFlight, [Next]_vars,
           Faults = FALSE, Routes \cap {"patch_book", "delete_book"} = {}
    PROVE  StaleOnlyInFlight'
<1>1. ASSUME NEW w \in Workers, Request(w) \/ Step(w) \/ Abort(w) PROVE StaleOnlyInFlight'
  <2> DEFINE j == job[w]
  <2>0. JobOK(j) /\ DOMAIN job = Workers /\ \A v \in Workers : v # w => job'[v] = job[v]
    BY <1>1, OneWorker DEF TypeOK
  <2>1. CASE j.pc # "invalidate" /\ dirty' = dirty
    BY <2>0, <2>1 DEF StaleOnlyInFlight
  <2>2. CASE dirty' = {}
    BY <2>2 DEF StaleOnlyInFlight
  <2>3. CASE /\ j.pc # "invalidate" /\ dirty' = dirty \cup {j.bid}
             /\ job' = [job EXCEPT ![w] = [j EXCEPT !.pc = "invalidate"]]
    <3>1. job'[w].pc = "invalidate" /\ job'[w].bid = j.bid
      BY <2>0, <2>3, MovePC DEF JobOK
    <3> QED BY <2>0, <2>3, <3>1 DEF StaleOnlyInFlight
  <2>4. CASE Request(w)
    BY <2>1, <2>4 DEF Request, Reserve, Return, Extend, Load, CheckOverdue, PatchReservation,
       DeleteReservation, PatchBook, DeleteBook, MayStart, Busy
  <2>5. CASE Step(w)
    <3>1. CASE ReserveValidate(w) \/ CreateReservation(w) \/ CloseReservation(w)
               \/ SaveExtension(w) \/ SavePatchedReservation(w) \/ MarkOverdue(w)
               \/ Emit(w) \/ NotifyOverdue(w)
      BY <2>1, <3>1 DEF ReserveValidate, CreateReservation, CloseReservation, SaveExtension,
         SavePatchedReservation, MarkOverdue, Emit, Tail, NotifyOverdue, SaveRow
    <3>2. CASE Invalidate(w)
      BY <2>2, <3>2 DEF Invalidate
    <3>3. CASE TakeCopy(w) \/ ShelveCopy(w)
      BY <2>1, <2>3, <3>3 DEF TakeCopy, ShelveCopy, SaveBook
    <3>4. ~SavePatchedBook(w)
      BY <2>0 DEF SavePatchedBook, JobOK, OpsOffered, Busy
    <3> QED BY <2>5, <3>1, <3>2, <3>3, <3>4 DEF Step
  <2> QED BY <1>1, <2>4, <2>5 DEF Abort
<1>2. CASE Tick \/ UNCHANGED vars
  BY <1>2 DEF Tick, vars, StaleOnlyInFlight
<1> QED BY <1>1, <1>2 DEF Next

\* Without faults, and without the inherited routes that write books, the command
\* whose book row the cache may not show yet is on its way to invalidating it: any
\* number of reserves, returns, extensions and overdue tasks may overlap
\* (commands.py:51-56 and 131-136).
THEOREM NoStaleEnd ==
    ASSUME Faults = FALSE, Routes \cap {"patch_book", "delete_book"} = {}
    PROVE  Spec => []StaleOnlyInFlight
<1>1. Init => TypeOK /\ OpsOffered /\ StaleOnlyInFlight
  BY TypeInit DEF Init, OpsOffered, Busy, Idle, StaleOnlyInFlight
<1>2. TypeOK /\ OpsOffered /\ StaleOnlyInFlight /\ [Next]_vars
        => TypeOK' /\ OpsOffered' /\ StaleOnlyInFlight'
  BY TypeNext, OpsOfferedNext, StaleNext
<1> QED BY <1>1, <1>2, PTL DEF Spec

-----------------------------------------------------------------------------
(***************************************************************************)
(* Every OVERDUE row is announced, or about to be, unless the task that    *)
(* marked it died in between: with all routes, overlapping as they like.   *)
(* An OVERDUE row that a handler holds in memory was so when it was read,  *)
(* and stays so.                                                           *)
(***************************************************************************)
AnnouncedRows(j) ==
    \A r \in DOMAIN j.rows : j.rows[r].status = "OVERDUE" => Announced(r)

AnnouncedInv == OverdueIsAnnounced /\ \A w \in Workers : AnnouncedRows(job[w])

LEMMA StaysAnnounced ==
    ASSUME TypeOK, NEW w \in Workers, Request(w) \/ Step(w) \/ Abort(w),
           NEW r, Announced(r)
    PROVE  Announced(r)'
<1>1. /\ \A v \in Workers : v # w => job'[v] = job[v]
      /\ effects \subseteq effects' /\ mishaps \subseteq mishaps'
  BY OneWorker
<1>2. CASE job[w].pc = "o_notify" /\ job[w].rid = r
  <2>1. JobOK(job[w])
    BY DEF TypeOK
  <2>2. ~Request(w)
    BY <1>2 DEF Request, Reserve, Return, Extend, Load, CheckOverdue, PatchReservation,
       DeleteReservation, PatchBook, DeleteBook, MayStart, Busy
  <2>3. Step(w) => NotifyOverdue(w)
    BY <1>2 DEF Step, ReserveValidate, TakeCopy, Invalidate, CreateReservation, Emit, Tail,
       CloseReservation, ShelveCopy, SaveExtension, MarkOverdue, SavePatchedReservation,
       SavePatchedBook
  <2>4. Step(w) => <<"overdue", r, "email">> \in effects'
    BY <1>2, <2>3 DEF NotifyOverdue
  <2>5. Abort(w) => Hit(r, {"unsent"})'
    <3> DEFINE m == <<"unsent", None, r>>
    <3>1. Abort(w) => m \in mishaps'
      BY <1>2 DEF Abort, Drop
    <3>2. m[1] \in {"unsent"} /\ m[3] = r
      OBVIOUS
    <3> QED BY <3>1, <3>2 DEF Hit
  <2> QED BY <2>2, <2>4, <2>5 DEF Announced
<1>3. CASE ~(job[w].pc = "o_notify" /\ job[w].rid = r)
  BY <1>1, <1>3 DEF Announced, Hit
<1> QED BY <1>2, <1>3

\* An OVERDUE row that is in the database or in the memory of w.
Seen(w, r) == \/ r \in DOMAIN res /\ res[r].status = "OVERDUE"
              \/ r \in DOMAIN job[w].rows /\ job[w].rows[r].status = "OVERDUE"

\* A step of w that reads or writes OVERDUE rows has them from there, but for the
\* row it has just marked.
Traced(w) ==
    /\ \A r \in DOMAIN res' : res'[r].status = "OVERDUE" => Seen(w, r) \/ Announced(r)'
    /\ \A r \in DOMAIN job'[w].rows : job'[w].rows[r].status = "OVERDUE" => Seen(w, r)

LEMMA TracedAnnounced ==
    ASSUME TypeOK, AnnouncedInv, NEW w \in Workers,
           Request(w) \/ Step(w) \/ Abort(w), Traced(w)
    PROVE  AnnouncedInv'
<1>1. \A r : Announced(r) => Announced(r)'
  BY StaysAnnounced
<1>2. \A r : Seen(w, r) => Announced(r)
  BY DEF AnnouncedInv, OverdueIsAnnounced, AnnouncedRows, Seen
<1>3. OverdueIsAnnounced'
  BY <1>1, <1>2 DEF Traced, OverdueIsAnnounced
<1>4. ASSUME NEW v \in Workers PROVE AnnouncedRows(job[v])'
  <2>1. CASE v = w
    BY <1>1, <1>2, <2>1 DEF Traced, AnnouncedRows
  <2>2. CASE v # w
    BY <1>1, <2>2, OneWorker DEF AnnouncedInv, AnnouncedRows
  <2> QED BY <2>1, <2>2
<1> QED BY <1>3, <1>4 DEF AnnouncedInv

LEMMA TracedJob ==
    ASSUME TypeOK, NEW w \in Workers, NEW k, UNCHANGED res, job' = [job EXCEPT ![w] = k],
           \A r \in DOMAIN k.rows : k.rows[r].status = "OVERDUE" => Seen(w, r)
    PROVE  Traced(w)
<1>1. job'[w] = k
  BY DEF TypeOK
<1> QED BY <1>1 DEF Traced, Seen

LEMMA TracedFinish ==
    ASSUME TypeOK, NEW w \in Workers, UNCHANGED res, Finish(w)
    PROVE  Traced(w)
<1>1. job'[w] = Idle
  BY DEF TypeOK, Finish
<1> QED BY <1>1 DEF Traced, Seen, Idle, NoRows

LEMMA TracedGoto ==
    ASSUME TypeOK, NEW w \in Workers, NEW pc, UNCHANGED res, Goto(w, pc)
    PROVE  Traced(w)
<1> DEFINE k == [job[w] EXCEPT !.pc = pc]
<1>1. job' = [job EXCEPT ![w] = k] /\ JobOK(job[w])
  BY DEF Goto, TypeOK
<1>2. k.rows = job[w].rows
  BY <1>1, MovePC DEF JobOK
<1> HIDE DEF k
<1>3. \A r \in DOMAIN k.rows : k.rows[r].status = "OVERDUE" => Seen(w, r)
  BY <1>2 DEF Seen
<1> QED BY <1>1, <1>3, TracedJob

\* Saving a row that is not OVERDUE, or is OVERDUE in memory.
LEMMA TracedSaveRow ==
    ASSUME TypeOK, NEW w \in Workers, NEW id, NEW row, NEW pc, NEW x, NEW next,
           next \in {Idle, [job[w] EXCEPT !.pc = pc], [job[w] EXCEPT !.pc = pc, !.rid = x]},
           SaveRow(w, id, row, next),
           row.status = "OVERDUE" => Seen(w, id) \/ Announced(id)'
    PROVE  Traced(w)
<1>1. CASE row.book \in DOMAIN book
  <2>1. res' = Save(res, id, row) /\ job' = [job EXCEPT ![w] = next] /\ JobOK(job[w])
    BY <1>1 DEF SaveRow, TypeOK
  <2>2. next.rows = job[w].rows \/ next.rows = NoRows
    <3>1. /\ [job[w] EXCEPT !.pc = pc].rows = job[w].rows
          /\ [job[w] EXCEPT !.pc = pc, !.rid = x].rows = job[w].rows
      BY <2>1, MovePC DEF JobOK
    <3>2. Idle.rows = NoRows
      BY DEF Idle
    <3> QED BY <3>1, <3>2, Zenon
  <2>3. job'[w] = next
    BY <2>1 DEF TypeOK
  <2>4. \A r \in DOMAIN job'[w].rows : job'[w].rows[r].status = "OVERDUE" => Seen(w, r)
    <3>1. \A r \in DOMAIN next.rows : next.rows[r].status = "OVERDUE" => Seen(w, r)
      BY <2>2, Zenon DEF Seen, NoRows
    <3> QED BY <2>3, <3>1
  <2>5. \A r \in DOMAIN res' : res'[r].status = "OVERDUE" => Seen(w, r) \/ Announced(r)'
    BY <2>1 DEF Save, Seen
  <2> QED BY <2>4, <2>5 DEF Traced
<1>2. CASE row.book \notin DOMAIN book
  BY <1>2, TracedFinish DEF SaveRow, Drop
<1> QED BY <1>1, <1>2

LEMMA TracedRequest ==
    ASSUME TypeOK, NEW w \in Workers, Request(w)
    PROVE  Traced(w)
<1>1. ASSUME NEW u \in Users, NEW b \in Books, Reserve(w, u, b) PROVE Traced(w)
  BY <1>1, TracedJob DEF Reserve, NoRows
<1>2. ASSUME NEW op, NEW pc, NEW u, NEW r \in DOMAIN res, NEW arg,
             Load(w, op, pc, u, r, arg)
      PROVE  Traced(w)
  <2> DEFINE k == [pc |-> pc, op |-> op, user |-> u, bid |-> res[r].book, rid |-> r,
                   book |-> book[res[r].book], rows |-> Only(res, {r}), arg |-> arg]
  <2>1. job' = [job EXCEPT ![w] = k] /\ UNCHANGED res
    BY <1>2 DEF Load
  <2>2. \A y \in DOMAIN k.rows : k.rows[y].status = "OVERDUE" => Seen(w, y)
    BY <1>2 DEF Seen, Only
  <2> HIDE DEF k
  <2> QED BY <2>1, <2>2, TracedJob
<1>4. ASSUME NEW u \in Users, NEW r \in DOMAIN res,
             \/ Return(w, u, r)
             \/ \E days \in ExtraDays : Extend(w, u, r, days)
             \/ \E b \in Books : PatchReservation(w, u, r, b)
      PROVE  Traced(w)
  BY <1>2, <1>4 DEF Return, Extend, PatchReservation
<1>5. CASE CheckOverdue(w)
  <2> DEFINE late == {r \in DOMAIN res : res[r].status = "ACTIVE" /\ res[r].due < now}
             k == [pc |-> "o_save", op |-> "overdue", user |-> None, bid |-> None,
                   rid |-> None, book |-> None, rows |-> Only(res, late), arg |-> None]
  <2>1. job' = [job EXCEPT ![w] = k] /\ UNCHANGED res
    BY <1>5 DEF CheckOverdue
  <2>2. \A r \in DOMAIN k.rows : k.rows[r].status = "OVERDUE" => Seen(w, r)
    BY DEF Only
  <2> HIDE DEF k
  <2> QED BY <2>1, <2>2, TracedJob
<1>6. CASE \/ \E u \in Users, r \in DOMAIN res : DeleteReservation(w, u, r)
           \/ \E b \in Books : DeleteBook(w, b)
  BY <1>6 DEF DeleteReservation, DeleteBook, Delete, Traced, Seen
<1>7. ASSUME NEW b \in Books, PatchBook(w, b) PROVE Traced(w)
  BY <1>7, TracedJob DEF PatchBook, NoRows
<1> QED BY <1>1, <1>4, <1>5, <1>6, <1>7 DEF Request

LEMMA TracedStep ==
    ASSUME TypeOK, NEW w \in Workers, Step(w)
    PROVE  Traced(w)
<1> DEFINE j == job[w]
<1>0. JobOK(j) /\ DOMAIN job = Workers
  BY DEF TypeOK
<1>1. CASE ReserveValidate(w) \/ Invalidate(w) \/ Emit(w)
  BY <1>1, TracedFinish, TracedGoto DEF ReserveValidate, Invalidate, Emit
<1>2. ASSUME NEW row, NEW pc, NEW next,
             next \in {Idle, [job[w] EXCEPT !.pc = pc]}, SaveBook(w, row, next)
      PROVE  Traced(w)
  <2>1. CASE BookConstraints(row) /\ next = [job[w] EXCEPT !.pc = pc]
    BY <1>2, <2>1, TracedGoto DEF SaveBook, Goto
  <2>2. CASE ~(BookConstraints(row) /\ next = [job[w] EXCEPT !.pc = pc])
    BY <1>2, <2>2, TracedFinish DEF SaveBook, Finish, Drop
  <2> QED BY <2>1, <2>2
<1>3. CASE TakeCopy(w) \/ ShelveCopy(w) \/ SavePatchedBook(w)
  BY <1>2, <1>3 DEF TakeCopy, ShelveCopy, SavePatchedBook
<1>4. CASE CreateReservation(w)
  <2>1. [user |-> j.user, book |-> j.bid, status |-> "ACTIVE",
         due |-> now + LoanDays, returned_at |-> "null"].status # "OVERDUE"
    OBVIOUS
  <2> QED BY <1>4, <2>1, TracedSaveRow DEF CreateReservation
<1>5. j.rid \in DOMAIN j.rows =>
        /\ Mem(w) \in Row
        /\ Mem(w).status = "OVERDUE" => Seen(w, j.rid)
  BY <1>0 DEF Seen, Mem, JobOK
<1>9. CASE CloseReservation(w)
  <2>1. [Mem(w) EXCEPT !.status = "RETURNED", !.returned_at = "set"].status # "OVERDUE"
    BY <1>0, <1>5, <1>9 DEF CloseReservation, JobOK, Row
  <2> QED BY <1>9, <2>1, TracedSaveRow DEF CloseReservation
<1>10. CASE SaveExtension(w)
  <2>1. [Mem(w) EXCEPT !.due = @ + j.arg].status = Mem(w).status
    BY <1>0, <1>5, <1>10 DEF SaveExtension, JobOK, Row
  <2> QED BY <1>0, <1>5, <1>10, <2>1, TracedSaveRow DEF SaveExtension, JobOK
<1>11. CASE SavePatchedReservation(w)
  <2>1. [Mem(w) EXCEPT !.book = j.arg].status = Mem(w).status
    BY <1>0, <1>5, <1>11 DEF SavePatchedReservation, JobOK, Row
  <2> QED BY <1>0, <1>5, <1>11, <2>1, TracedSaveRow DEF SavePatchedReservation, JobOK
<1>7. CASE MarkOverdue(w)
  <2>1. PICK r \in DOMAIN j.rows :
           SaveRow(w, r, [j.rows[r] EXCEPT !.status = "OVERDUE"],
                   [j EXCEPT !.pc = "o_notify", !.rid = r])
    BY <1>7 DEF MarkOverdue
  <2> DEFINE row == [j.rows[r] EXCEPT !.status = "OVERDUE"]
             k == [j EXCEPT !.pc = "o_notify", !.rid = r]
  <2>2. CASE row.book \in DOMAIN book
    <3>1. job'[w] = k
      BY <1>0, <2>1, <2>2 DEF SaveRow
    <3>2. k.pc = "o_notify" /\ k.rid = r
      BY <1>0, MovePC DEF JobOK
    <3>3. Announced(r)'
      BY <3>1, <3>2 DEF Announced
    <3> HIDE DEF row
    <3> QED BY <2>1, <3>3, TracedSaveRow DEF row
  <2>3. CASE row.book \notin DOMAIN book
    BY <2>1, <2>3, TracedFinish DEF SaveRow, Drop
  <2> QED BY <2>2, <2>3
<1>8. CASE NotifyOverdue(w)
  <2> DEFINE left == DOMAIN j.rows \ {j.rid}
             k == [j EXCEPT !.pc = "o_save", !.rows = Only(j.rows, left)]
  <2>1. CASE left = {}
    BY <1>8, <2>1, TracedFinish DEF NotifyOverdue
  <2>2. CASE left # {}
    <3>1. job' = [job EXCEPT ![w] = k] /\ UNCHANGED res
      BY <1>8, <2>2 DEF NotifyOverdue
    <3>2. \A x : [j EXCEPT !.pc = "o_save", !.rows = x] =
                    [pc |-> "o_save", op |-> j.op, user |-> j.user, bid |-> j.bid,
                     rid |-> j.rid, book |-> j.book, rows |-> x, arg |-> j.arg]
      BY <1>0, MovePC DEF JobOK
    <3>3. k.rows = Only(j.rows, left)
      BY <3>2
    <3> HIDE DEF k
    <3>4. \A r \in DOMAIN k.rows : k.rows[r].status = "OVERDUE" => Seen(w, r)
      BY <3>3 DEF Only, Seen
    <3> QED BY <3>1, <3>4, TracedJob
  <2> QED BY <2>1, <2>2
<1> QED BY <1>1, <1>3, <1>4, <1>7, <1>8, <1>9, <1>10, <1>11 DEF Step

\* Whatever overlaps and dies, all routes included, a reader whose reservation is
\* OVERDUE has been sent the e-mail, or the task that marked the row is about to send
\* it or died before that.  No other process's save or death silences an OVERDUE row
\* (tasks.py:63-73).
THEOREM OverdueAnnounced == Spec => []OverdueIsAnnounced
<1>1. Init => TypeOK /\ AnnouncedInv
  BY TypeInit DEF Init, AnnouncedInv, OverdueIsAnnounced, AnnouncedRows, Idle, NoRows
<1>2. TypeOK /\ AnnouncedInv /\ [Next]_vars => TypeOK' /\ AnnouncedInv'
  <2> SUFFICES ASSUME TypeOK, AnnouncedInv, [Next]_vars PROVE AnnouncedInv'
    BY TypeNext
  <2>1. ASSUME NEW w \in Workers, Request(w) \/ Step(w) \/ Abort(w) PROVE AnnouncedInv'
    <3>1. Traced(w)
      BY <2>1, TracedRequest, TracedStep, TracedFinish DEF Abort, Drop
    <3> QED BY <2>1, <3>1, TracedAnnounced
  <2>2. CASE Tick \/ UNCHANGED vars
    BY <2>2 DEF Tick, vars, AnnouncedInv, OverdueIsAnnounced, AnnouncedRows, Announced,
       Hit, history
  <2> QED BY <2>1, <2>2 DEF Next
<1>3. AnnouncedInv => OverdueIsAnnounced
  BY DEF AnnouncedInv
<1> QED BY <1>1, <1>2, <1>3, PTL DEF Spec

-----------------------------------------------------------------------------
(***************************************************************************)
(* What a step of a worker does to its job: it ends, leaves it alone, goes *)
(* on with it, or starts an operation with the rows it has just read.      *)
(***************************************************************************)
OthersWait(w) == \A v \in Workers : v # w => job'[v] = job[v]

Continues(w) ==
    /\ Busy(w)
    /\ job'[w].op = job[w].op /\ job'[w].user = job[w].user /\ job'[w].bid = job[w].bid
    /\ job'[w].pc \notin {"idle", "r_validate", "t_close"}
    /\ DOMAIN job'[w].rows \subseteq DOMAIN job[w].rows
    /\ \A r \in DOMAIN job'[w].rows : job'[w].rows[r] = job[w].rows[r]

\* The order of the statements of a handler.
Moves(j, k) ==
    /\ j.pc = "r_validate" => k.pc = "r_take"
    /\ j.pc \in {"r_take", "t_shelve"} => k.pc = "invalidate"
    /\ j.pc = "invalidate" => k.pc = IF j.op = "reserve" THEN "r_create" ELSE "confirm"
    /\ j.pc = "r_create" => k.pc = "confirm"
    /\ j.pc = "t_close" => k.pc = "t_shelve"
    /\ j.pc \in TailPCs => k.pc \in TailPCs
    /\ j.pc \in {"o_save", "o_notify"} => k.pc \in {"o_save", "o_notify"}
    /\ j.pc \notin {"e_save", "p_save", "b_save"}
    /\ j.pc \notin {"r_create", "o_save"} => k.rid = j.rid

\* What a handler has read says what its first query asked for.
Sound(j) ==
    /\ j.pc = "t_close" => /\ j.rid \in DOMAIN j.rows
                           /\ j.rows[j.rid].book = j.bid
                           /\ j.rows[j.rid].status # "RETURNED"
    /\ j.op = "overdue" => \A r \in DOMAIN j.rows : j.rows[r].status = "ACTIVE"

Starts(w) ==
    /\ ~Busy(w)
    /\ job'[w].pc = "r_validate" <=> job'[w].op = "reserve"
    /\ job'[w].pc \in {"r_validate", "t_close", "e_save", "o_save", "p_save", "b_save"}
    /\ DOMAIN job'[w].rows \subseteq DOMAIN res
    /\ Sound(job'[w])
    /\ UNCHANGED <<book, res, nextId, mislaid>>

LEMMA JobRequest ==
    ASSUME TypeOK, NEW w \in Workers, Request(w)
    PROVE  /\ OthersWait(w)
           /\ Starts(w) \/ UNCHANGED job
<1>0. DOMAIN job = Workers /\ \A r \in DOMAIN res : res[r] \in Row
  BY DEF TypeOK
<1>1. ASSUME NEW u \in Users, NEW b \in Books, Reserve(w, u, b) PROVE OthersWait(w) /\ Starts(w)
  BY <1>0, <1>1 DEF Reserve, MayStart, OthersWait, Starts, Sound, NoRows
<1>2. ASSUME NEW op, NEW pc \in {"t_close", "e_save", "p_save"}, NEW u,
             NEW r \in DOMAIN res, NEW arg, op \notin {"overdue", "reserve"},
             pc = "t_close" => res[r].status # "RETURNED",
             Load(w, op, pc, u, r, arg)
      PROVE  OthersWait(w) /\ Starts(w)
  <2> DEFINE k == [pc |-> pc, op |-> op, user |-> u, bid |-> res[r].book, rid |-> r,
                   book |-> book[res[r].book], rows |-> Only(res, {r}), arg |-> arg]
  <2>1. job' = [job EXCEPT ![w] = k] /\ UNCHANGED <<book, res, nextId, mislaid>> /\ ~Busy(w)
    BY <1>2 DEF Load, MayStart, history
  <2>2. Sound(k) /\ DOMAIN k.rows = {r}
    BY <1>2 DEF Sound, Only
  <2>3. k.pc # "r_validate" /\ k.op # "reserve"
        /\ k.pc \in {"r_validate", "t_close", "e_save", "o_save", "p_save", "b_save"}
    BY <1>2
  <2> HIDE DEF k
  <2>4. job'[w] = k /\ OthersWait(w)
    BY <1>0, <2>1 DEF OthersWait
  <2> QED BY <2>1, <2>2, <2>3, <2>4 DEF Starts
<1>3. ASSUME NEW u \in Users, NEW r \in DOMAIN res,
             \/ Return(w, u, r)
             \/ \E days \in ExtraDays : Extend(w, u, r, days)
             \/ \E b \in Books : PatchReservation(w, u, r, b)
      PROVE  OthersWait(w) /\ Starts(w)
  <2>1. CASE Return(w, u, r)
    <3>1. res[r].status # "RETURNED" /\ Load(w, "return", "t_close", u, r, None)
      BY <2>1 DEF Return
    <3> QED BY <1>2, <3>1
  <2>2. CASE \E days \in ExtraDays : Extend(w, u, r, days)
    <3>1. PICK days : Load(w, "extend", "e_save", u, r, days)
      BY <2>2 DEF Extend
    <3>2. "extend" \notin {"overdue", "reserve"} /\ "e_save" # "t_close"
          /\ "e_save" \in {"t_close", "e_save", "p_save"}
      OBVIOUS
    <3> QED BY <1>2, <3>1, <3>2
  <2>3. CASE \E b \in Books : PatchReservation(w, u, r, b)
    <3>1. PICK b : Load(w, "patch_reservation", "p_save", u, r, b)
      BY <2>3 DEF PatchReservation
    <3>2. "patch_reservation" \notin {"overdue", "reserve"} /\ "p_save" # "t_close"
          /\ "p_save" \in {"t_close", "e_save", "p_save"}
      OBVIOUS
    <3> QED BY <1>2, <3>1, <3>2
  <2> QED BY <1>3, <2>1, <2>2, <2>3
<1>4. CASE CheckOverdue(w)
  <2> DEFINE late == {r \in DOMAIN res : res[r].status = "ACTIVE" /\ res[r].due < now}
             k == [pc |-> "o_save", op |-> "overdue", user |-> None, bid |-> None,
                   rid |-> None, book |-> None, rows |-> Only(res, late), arg |-> None]
  <2>1. job' = [job EXCEPT ![w] = k] /\ UNCHANGED <<book, res, nextId, mislaid>> /\ ~Busy(w)
    BY <1>4 DEF CheckOverdue, MayStart, history
  <2>2. Sound(k) /\ DOMAIN k.rows \subseteq DOMAIN res
    BY DEF Sound, Only
  <2>3. k.pc # "r_validate" /\ k.op # "reserve" /\ k.pc = "o_save"
    OBVIOUS
  <2> HIDE DEF k
  <2>4. job'[w] = k /\ OthersWait(w)
    BY <1>0, <2>1 DEF OthersWait
  <2> QED BY <2>1, <2>2, <2>3, <2>4 DEF Starts
<1>5. ASSUME NEW u \in Users, NEW r \in DOMAIN res, DeleteReservation(w, u, r)
      PROVE  OthersWait(w) /\ UNCHANGED job
  BY <1>5 DEF DeleteReservation, OthersWait
<1>6. ASSUME NEW b \in Books, PatchBook(w, b) PROVE OthersWait(w) /\ Starts(w)
  <2>1. PICK row : job' = [job EXCEPT ![w] =
                        [pc |-> "b_save", op |-> "patch_book", user |-> None, bid |-> b,
                         rid |-> None, book |-> book[b], rows |-> NoRows, arg |-> row]]
    BY <1>6 DEF PatchBook
  <2>2. UNCHANGED <<book, res, nextId, mislaid>> /\ ~Busy(w)
    BY <1>6 DEF PatchBook, MayStart, history
  <2> QED BY <1>0, <2>1, <2>2 DEF OthersWait, Starts, Sound, NoRows
<1>7. ASSUME NEW b \in Books, DeleteBook(w, b) PROVE OthersWait(w) /\ UNCHANGED job
  BY <1>7 DEF DeleteBook, OthersWait
<1> QED BY <1>1, <1>3, <1>4, <1>5, <1>6, <1>7 DEF Request

LEMMA JobFinish ==
    ASSUME TypeOK, NEW w \in Workers, Finish(w)
    PROVE  OthersWait(w) /\ job'[w] = Idle
  BY DEF Finish, TypeOK, OthersWait

\* The job of a handler that goes on with its next statement.
LEMMA JobMove ==
    ASSUME TypeOK, NEW w \in Workers, Busy(w), NEW pc,
           pc \notin {"idle", "r_validate", "t_close"},
           job'[w] = [job[w] EXCEPT !.pc = pc]
    PROVE  Continues(w) /\ job'[w].pc = pc /\ job'[w].rid = job[w].rid
<1> DEFINE j == job[w]
<1>1. JobOK(j)
  BY DEF TypeOK
<1>2. job'[w] = [pc |-> pc, op |-> j.op, user |-> j.user, bid |-> j.bid,
                 rid |-> j.rid, book |-> j.book, rows |-> j.rows, arg |-> j.arg]
  BY <1>1, MovePC DEF JobOK
<1> QED BY <1>2 DEF Continues

LEMMA JobMoveRow ==
    ASSUME TypeOK, NEW w \in Workers, Busy(w), NEW pc, NEW x,
           pc \notin {"idle", "r_validate", "t_close"},
           job'[w] = [job[w] EXCEPT !.pc = pc, !.rid = x]
    PROVE  Continues(w) /\ job'[w].pc = pc /\ job'[w].rid = x
<1> DEFINE j == job[w]
<1>1. JobOK(j)
  BY DEF TypeOK
<1>2. job'[w] = [pc |-> pc, op |-> j.op, user |-> j.user, bid |-> j.bid,
                 rid |-> x, book |-> j.book, rows |-> j.rows, arg |-> j.arg]
  BY <1>1, MovePC DEF JobOK
<1> QED BY <1>2 DEF Continues

LEMMA JobGoto ==
    ASSUME TypeOK, NEW w \in Workers, NEW pc, Goto(w, pc)
    PROVE  OthersWait(w) /\ job'[w] = [job[w] EXCEPT !.pc = pc]
  BY DEF TypeOK, Goto, OthersWait

\* A database statement of w goes through, or ends its handler.
LEMMA JobSaveBook ==
    ASSUME TypeOK, NEW w \in Workers, NEW row, NEW next, SaveBook(w, row, next)
    PROVE  OthersWait(w) /\ job'[w] \in {Idle, next}
  BY DEF SaveBook, Drop, Finish, TypeOK, OthersWait

LEMMA JobSaveRow ==
    ASSUME TypeOK, NEW w \in Workers, NEW id, NEW row, NEW next, SaveRow(w, id, row, next)
    PROVE  OthersWait(w) /\ job'[w] \in {Idle, next}
  BY DEF SaveRow, Drop, Finish, TypeOK, OthersWait

LEMMA JobStep ==
    ASSUME TypeOK, NEW w \in Workers, Step(w)
    PROVE  /\ OthersWait(w) /\ Busy(w)
           /\ job'[w] = Idle \/ (Continues(w) /\ Moves(job[w], job'[w]))
<1> DEFINE j == job[w]
<1>0. JobOK(j) /\ DOMAIN job = Workers
  BY DEF TypeOK
<1>b. Busy(w)
  BY DEF Step, ReserveValidate, TakeCopy, Invalidate, CreateReservation, Emit, Tail,
     CloseReservation, ShelveCopy, SaveExtension, MarkOverdue, NotifyOverdue,
     SavePatchedReservation, SavePatchedBook, Busy
<1>1. CASE ReserveValidate(w)
  <2>1. Finish(w) \/ Goto(w, "r_take")
    BY <1>1 DEF ReserveValidate
  <2>2. CASE Finish(w)
    BY <1>b, <2>2, JobFinish
  <2>3. CASE Goto(w, "r_take")
    <3>1. "r_take" \notin {"idle", "r_validate", "t_close"}
      OBVIOUS
    <3>2. OthersWait(w) /\ job'[w] = [j EXCEPT !.pc = "r_take"]
      BY <2>3, JobGoto
    <3> QED BY <1>b, <1>1, <3>1, <3>2, JobMove DEF ReserveValidate, Moves, TailPCs
  <2> QED BY <2>1, <2>2, <2>3
<1>2. CASE TakeCopy(w) \/ ShelveCopy(w)
  <2>1. \E row : SaveBook(w, row, [j EXCEPT !.pc = "invalidate"])
    BY <1>2 DEF TakeCopy, ShelveCopy
  <2>2. OthersWait(w) /\ job'[w] \in {Idle, [j EXCEPT !.pc = "invalidate"]}
    BY <2>1, JobSaveBook
  <2>3. j.pc \in {"r_take", "t_shelve"}
    BY <1>2 DEF TakeCopy, ShelveCopy
  <2> QED BY <1>b, <2>2, <2>3, JobMove DEF Moves, TailPCs
<1>3. CASE Invalidate(w)
  <2> DEFINE pc == IF j.op = "reserve" THEN "r_create" ELSE "confirm"
  <2>1. Goto(w, pc) /\ pc \notin {"idle", "r_validate", "t_close"}
    BY <1>3 DEF Invalidate
  <2>2. j.pc = "invalidate"
    BY <1>3 DEF Invalidate
  <2>3. OthersWait(w) /\ Continues(w) /\ job'[w].pc = pc /\ job'[w].rid = j.rid
    <3> HIDE DEF pc
    <3> QED BY <1>b, <2>1, JobGoto, JobMove
  <2>4. Moves(j, job'[w])
    BY <2>2, <2>3 DEF Moves, TailPCs
  <2> QED BY <1>b, <2>3, <2>4
<1>4. CASE CreateReservation(w)
  <2>1. OthersWait(w) /\ job'[w] \in {Idle, [j EXCEPT !.pc = "confirm", !.rid = nextId]}
    BY <1>4, JobSaveRow DEF CreateReservation
  <2>2. CASE job'[w] = [j EXCEPT !.pc = "confirm", !.rid = nextId]
    <3>1. "confirm" \notin {"idle", "r_validate", "t_close"}
      OBVIOUS
    <3>2. Continues(w) /\ job'[w].pc = "confirm"
      BY <1>b, <2>2, <3>1, JobMoveRow
    <3>3. Moves(j, job'[w])
      BY <1>4, <3>2 DEF CreateReservation, Moves, TailPCs
    <3> QED BY <1>b, <2>1, <3>2, <3>3
  <2> QED BY <1>b, <2>1, <2>2
<1>5. CASE Emit(w)
  <2>1. CASE j.pc = "audit"
    <3>1. Finish(w)
      BY <1>5, <2>1 DEF Emit
    <3> QED BY <1>b, <3>1, JobFinish
  <2>2. CASE j.pc # "audit"
    <3>1. Goto(w, Tail[j.pc]) /\ Tail[j.pc] \notin {"idle", "r_validate", "t_close"}
      BY <1>5, <2>2 DEF Emit, Tail
    <3>2. j.pc \in TailPCs \ {"audit"} /\ Tail[j.pc] \in TailPCs
      BY <1>5, <2>2 DEF Emit, Tail, TailPCs
    <3>3. OthersWait(w) /\ Continues(w) /\ job'[w].pc = Tail[j.pc] /\ job'[w].rid = j.rid
      BY <1>b, <3>1, JobGoto, JobMove
    <3>4. Moves(j, job'[w])
      BY <3>2, <3>3 DEF Moves, TailPCs
    <3> QED BY <1>b, <3>3, <3>4
  <2> QED BY <2>1, <2>2
<1>6. CASE CloseReservation(w)
  <2>1. OthersWait(w) /\ job'[w] \in {Idle, [j EXCEPT !.pc = "t_shelve"]}
    BY <1>6, JobSaveRow DEF CloseReservation
  <2>2. j.pc = "t_close"
    BY <1>6 DEF CloseReservation
  <2> QED BY <1>b, <2>1, <2>2, JobMove DEF Moves, TailPCs
<1>8. CASE SaveExtension(w) \/ SavePatchedReservation(w) \/ SavePatchedBook(w)
  <2>1. OthersWait(w) /\ job'[w] \in {Idle, Idle}
    BY <1>8, JobSaveRow, JobSaveBook
       DEF SaveExtension, SavePatchedReservation, SavePatchedBook
  <2> QED BY <1>b, <2>1
<1>9. CASE MarkOverdue(w)
  <2>1. PICK r \in DOMAIN j.rows :
          SaveRow(w, r, [j.rows[r] EXCEPT !.status = "OVERDUE"],
                  [j EXCEPT !.pc = "o_notify", !.rid = r])
    BY <1>9 DEF MarkOverdue
  <2>2. OthersWait(w) /\ job'[w] \in {Idle, [j EXCEPT !.pc = "o_notify", !.rid = r]}
    BY <2>1, JobSaveRow
  <2>3. CASE job'[w] = [j EXCEPT !.pc = "o_notify", !.rid = r]
    <3>1. "o_notify" \notin {"idle", "r_validate", "t_close"}
      OBVIOUS
    <3>2. Continues(w) /\ job'[w].pc = "o_notify"
      BY <1>b, <2>3, <3>1, JobMoveRow
    <3>3. Moves(j, job'[w])
      BY <1>9, <3>2 DEF MarkOverdue, Moves, TailPCs
    <3> QED BY <1>b, <2>2, <3>2, <3>3
  <2> QED BY <1>b, <2>2, <2>3
<1>10. CASE NotifyOverdue(w)
  <2> DEFINE left == DOMAIN j.rows \ {j.rid}
             k == [j EXCEPT !.pc = "o_save", !.rows = Only(j.rows, left)]
  <2>1. CASE left = {}
    BY <1>10, <1>b, <2>1, JobFinish DEF NotifyOverdue
  <2>2. CASE left # {}
    <3>1. job' = [job EXCEPT ![w] = k]
      BY <1>10, <2>2 DEF NotifyOverdue
    <3>2. \A x : [j EXCEPT !.pc = "o_save", !.rows = x] =
                    [pc |-> "o_save", op |-> j.op, user |-> j.user, bid |-> j.bid,
                     rid |-> j.rid, book |-> j.book, rows |-> x, arg |-> j.arg]
      BY <1>0, MovePC DEF JobOK
    <3>3. /\ k.op = j.op /\ k.user = j.user /\ k.bid = j.bid /\ k.pc = "o_save"
          /\ k.rid = j.rid /\ k.rows = Only(j.rows, left)
      BY <3>2
    <3> HIDE DEF k
    <3>4. job'[w] = k /\ OthersWait(w)
      BY <1>0, <3>1 DEF OthersWait
    <3>5. DOMAIN k.rows \subseteq DOMAIN j.rows /\ \A r \in DOMAIN k.rows : k.rows[r] = j.rows[r]
      BY <3>3 DEF Only
    <3>6. Moves(j, job'[w])
      BY <1>10, <3>3, <3>4 DEF NotifyOverdue, Moves, TailPCs
    <3> QED BY <1>b, <3>3, <3>4, <3>5, <3>6 DEF Continues
  <2> QED BY <2>1, <2>2
<1> QED BY <1>1, <1>2, <1>3, <1>4, <1>5, <1>6, <1>8, <1>9, <1>10 DEF Step

LEMMA JobNext ==
    ASSUME TypeOK, NEW w \in Workers, Request(w) \/ Step(w) \/ Abort(w)
    PROVE  /\ OthersWait(w)
           /\ \/ job'[w] = Idle
              \/ Continues(w) /\ Moves(job[w], job'[w])
              \/ Starts(w)
              \/ UNCHANGED job
  BY JobRequest, JobStep, JobFinish DEF Abort, Drop

-----------------------------------------------------------------------------
(***************************************************************************)
(* What every step keeps: the ids grow, what a handler has read is what    *)
(* its first query asked for, and finitely many workers are busy.          *)
(***************************************************************************)
BusyWorkers == {v \in Workers : Busy(v)}

Known ==
    /\ TypeOK
    /\ IsFiniteSet(BusyWorkers)
    /\ \A r \in DOMAIN res : r < nextId
    /\ \A v \in Workers : /\ Sound(job[v])
                          /\ \A r \in DOMAIN job[v].rows : r < nextId

\* A step leaves the ids alone, or uses up the next one.
LEMMA RowIds ==
    ASSUME TypeOK, NEW w \in Workers, Request(w) \/ Step(w) \/ Abort(w)
    PROVE  \/ nextId' = nextId /\ DOMAIN res' \subseteq DOMAIN res \cup DOMAIN job[w].rows
           \/ nextId' = nextId + 1 /\ DOMAIN res' \subseteq DOMAIN res \cup {nextId}
<1> DEFINE j == job[w]
<1>0. JobOK(j)
  BY DEF TypeOK
<1>1. CASE Request(w)
  BY <1>1 DEF Request, Reserve, Return, Extend, Load, CheckOverdue, PatchReservation,
     DeleteReservation, PatchBook, DeleteBook, Delete
<1>2. CASE CreateReservation(w)
  BY <1>2 DEF CreateReservation, SaveRow, Save
<1>3. ASSUME NEW id \in DOMAIN j.rows, NEW row, NEW next, SaveRow(w, id, row, next),
             nextId' = nextId
      PROVE  DOMAIN res' \subseteq DOMAIN res \cup DOMAIN j.rows
  BY <1>3 DEF SaveRow, Save
<1>4. CASE CloseReservation(w) \/ SaveExtension(w) \/ SavePatchedReservation(w)
  <2>1. \E row, next : SaveRow(w, j.rid, row, next)
    BY <1>4 DEF CloseReservation, SaveExtension, SavePatchedReservation
  <2>2. j.rid \in DOMAIN j.rows /\ nextId' = nextId
    BY <1>0, <1>4 DEF CloseReservation, SaveExtension, SavePatchedReservation, JobOK
  <2> QED BY <1>3, <2>1, <2>2
<1>5. CASE MarkOverdue(w)
  <2>1. \E r \in DOMAIN j.rows : \E row, next : SaveRow(w, r, row, next)
    BY <1>5 DEF MarkOverdue
  <2>2. nextId' = nextId
    BY <1>5 DEF MarkOverdue
  <2> QED BY <1>3, <2>1, <2>2
<1>6. CASE \/ ReserveValidate(w) \/ TakeCopy(w) \/ Invalidate(w) \/ Emit(w) \/ ShelveCopy(w)
           \/ NotifyOverdue(w) \/ SavePatchedBook(w) \/ Abort(w)
  BY <1>6 DEF ReserveValidate, TakeCopy, Invalidate, Emit, ShelveCopy, NotifyOverdue,
     SavePatchedBook, SaveBook, Abort
<1> QED BY <1>1, <1>2, <1>4, <1>5, <1>6 DEF Step

LEMMA IdleSound == Sound(Idle) /\ DOMAIN Idle.rows = {}
  BY DEF Sound, Idle, NoRows

LEMMA KnownStep ==
    ASSUME Known, TypeOK', NEW w \in Workers, Request(w) \/ Step(w) \/ Abort(w)
    PROVE  Known'
<1>0. TypeOK /\ nextId \in Nat /\ DOMAIN res \subseteq Nat
      /\ \A v \in Workers : DOMAIN job[v].rows \subseteq Nat
  BY DEF Known, TypeOK, JobOK, Ids
<1>1. \A v \in Workers : v # w => job'[v] = job[v]
  BY <1>0, JobNext DEF OthersWait
<1>2. job'[w] = Idle \/ Continues(w) \/ Starts(w) \/ UNCHANGED job
  BY <1>0, JobNext
<1>3. nextId' \in {nextId, nextId + 1} /\ \A r \in DOMAIN res' : r < nextId'
  BY <1>0, RowIds DEF Known
<1>4. ASSUME NEW v \in Workers
      PROVE  Sound(job'[v]) /\ \A r \in DOMAIN job'[v].rows : r < nextId'
  <2>1. CASE job'[v] = job[v]
    BY <1>0, <1>3, <2>1 DEF Known
  <2>2. CASE v = w /\ job'[w] = Idle
    BY <2>2, IdleSound
  <2>3. CASE v = w /\ Continues(w)
    BY <1>0, <1>3, <2>3 DEF Continues, Known, Sound
  <2>4. CASE v = w /\ Starts(w)
    BY <1>0, <1>3, <2>4 DEF Starts, Known
  <2> QED BY <1>1, <1>2, <2>1, <2>2, <2>3, <2>4
<1>5. IsFiniteSet(BusyWorkers')
  <2>1. BusyWorkers' \subseteq BusyWorkers \cup {w}
    BY <1>1 DEF BusyWorkers, Busy
  <2>2. IsFiniteSet(BusyWorkers \cup {w})
    BY FS_AddElement DEF Known
  <2> QED BY <2>1, <2>2, FS_Subset
<1> QED BY <1>3, <1>4, <1>5 DEF Known

LEMMA KnownInit == ASSUME Init PROVE Known
<1>1. BusyWorkers = {}
  BY DEF Init, BusyWorkers, Busy, Idle
<1>2. \A v \in Workers : Sound(job[v]) /\ DOMAIN job[v].rows = {}
  BY IdleSound DEF Init
<1>3. DOMAIN res = {}
  BY DEF Init, NoRows
<1> QED BY <1>1, <1>2, <1>3, TypeInit, FS_EmptySet DEF Known

LEMMA KnownNext == Known /\ [Next]_vars => Known'
<1> SUFFICES ASSUME Known, [Next]_vars PROVE Known'
  OBVIOUS
<1>1. TypeOK'
  BY TypeNext DEF Known
<1>2. CASE Tick \/ UNCHANGED vars
  BY <1>1, <1>2 DEF Tick, vars, Known, BusyWorkers, Busy
<1> QED BY <1>1, <1>2, KnownStep DEF Next

LEMMA KnownAlways == Spec => []Known
BY KnownInit, KnownNext, PTL DEF Spec

-----------------------------------------------------------------------------
(***************************************************************************)
(* What a step does to the rows of the reservations.                       *)
(***************************************************************************)

Created(w, r) ==
    /\ job[w].op = "reserve" /\ job[w].pc = "r_create" /\ r \notin DOMAIN res /\ r = nextId
    /\ res'[r].user = job[w].user /\ res'[r].book = job[w].bid /\ res'[r].status = "ACTIVE"

RowFollows(w, r) ==
    \/ /\ r \in DOMAIN res /\ Follows(res[r], res'[r])
       /\ res'[r].book # res[r].book =>
            /\ <<"moved", res[r].book, r>> \in mishaps' /\ <<"moved", res'[r].book, r>> \in mishaps'
            /\ job[w].op = "patch_reservation"
    \/ Created(w, r)
    \/ /\ <<"stale_row", res'[r].book, r>> \in mishaps'
       /\ Outdated(w, r) /\ Follows(job[w].rows[r], res'[r])

RowsFollow(w) ==
    /\ \A r \in DOMAIN res' : RowFollows(w, r)
    /\ \A r \in DOMAIN res \ DOMAIN res' : <<"deleted", res[r].book, r>> \in mishaps'

LEMMA SameRows == ASSUME NEW w, UNCHANGED res PROVE RowsFollow(w)
  BY DEF RowsFollow, RowFollows, Follows

LEMMA RowSave ==
    ASSUME NEW w \in Workers, NEW id \in DOMAIN job[w].rows, NEW row, NEW next,
           SaveRow(w, id, row, next), Follows(job[w].rows[id], row),
           row.book = job[w].rows[id].book \/ job[w].op = "patch_reservation"
    PROVE  RowsFollow(w)
<1>1. CASE UNCHANGED res
  BY <1>1, SameRows
<1>2. CASE row.book \in DOMAIN book
  <2>1. res' = Save(res, id, row)
    BY <1>2 DEF SaveRow
  <2>2. DOMAIN res \subseteq DOMAIN res' /\ res'[id] = row
        /\ \A r \in DOMAIN res' : r # id => r \in DOMAIN res /\ res'[r] = res[r]
    BY <2>1 DEF Save
  <2>3. \A k \in RowMishaps(w, id, row), b \in Concerned(id, row) : <<k, b, id>> \in mishaps'
    BY <1>2 DEF SaveRow
  <2>4. ASSUME ~Current(res, id, job[w].rows[id]) PROVE RowFollows(w, id)
    <3>1. Outdated(w, id)
      BY <2>4 DEF Outdated
    <3>2. "stale_row" \in RowMishaps(w, id, row) /\ row.book \in Concerned(id, row)
      BY <3>1 DEF RowMishaps, Concerned
    <3> QED BY <2>2, <2>3, <3>1, <3>2 DEF RowFollows
  <2>5. ASSUME Current(res, id, job[w].rows[id]) PROVE RowFollows(w, id)
    <3>1. id \in DOMAIN res /\ Follows(res[id], res'[id])
      BY <2>2, <2>5 DEF Current
    <3>2. ASSUME res'[id].book # res[id].book
          PROVE  <<"moved", res[id].book, id>> \in mishaps'
                 /\ <<"moved", res'[id].book, id>> \in mishaps'
                 /\ job[w].op = "patch_reservation"
      <4>1. "moved" \in RowMishaps(w, id, row) /\ row.book \in Concerned(id, row)
            /\ res[id].book \in Concerned(id, row)
        BY <2>2, <3>1, <3>2 DEF RowMishaps, Concerned
      <4>2. job[w].op = "patch_reservation"
        BY <2>2, <2>5, <3>2 DEF Current
      <4> QED BY <2>2, <2>3, <4>1, <4>2
    <3> QED BY <3>1, <3>2 DEF RowFollows
  <2>6. ASSUME NEW r \in DOMAIN res', r # id PROVE RowFollows(w, r)
    BY <2>2, <2>6 DEF RowFollows, Follows
  <2> QED BY <2>2, <2>4, <2>5, <2>6 DEF RowsFollow
<1> QED BY <1>1, <1>2 DEF SaveRow

LEMMA RowsStep ==
    ASSUME Known, NEW w \in Workers, Request(w) \/ Step(w) \/ Abort(w)
    PROVE  RowsFollow(w)
<1> DEFINE j == job[w]
<1>0. JobOK(j) /\ Sound(j) /\ \A r \in DOMAIN j.rows : j.rows[r] \in Row
  BY DEF Known, TypeOK, JobOK
<1>1. CASE \E u \in Users, r \in DOMAIN res : DeleteReservation(w, u, r)
  BY <1>1 DEF DeleteReservation, Delete, RowsFollow, RowFollows, Follows
<1>2. CASE \E b \in Books : DeleteBook(w, b)
  <2>1. PICK b \in Books : DeleteBook(w, b)
    BY <1>2
  <2>2. res' = Delete(res, {r \in DOMAIN res : res[r].book = b})
    BY <2>1 DEF DeleteBook
  <2>3. ASSUME NEW r \in DOMAIN res, res[r].book = b PROVE <<"deleted", res[r].book, r>> \in mishaps'
    BY <2>1, <2>3 DEF DeleteBook
  <2> QED BY <2>2, <2>3 DEF Delete, RowsFollow, RowFollows, Follows
<1>3. CASE \/ \E u \in Users, b \in Books : Reserve(w, u, b)
           \/ \E u \in Users, r \in DOMAIN res : Return(w, u, r)
           \/ \E u \in Users, r \in DOMAIN res, days \in ExtraDays : Extend(w, u, r, days)
           \/ CheckOverdue(w)
           \/ \E u \in Users, r \in DOMAIN res, b \in Books : PatchReservation(w, u, r, b)
           \/ \E b \in Books : PatchBook(w, b)
  BY <1>3, SameRows DEF Reserve, Return, Extend, Load, CheckOverdue, PatchReservation, PatchBook
<1>4. CASE CreateReservation(w)
  <2>0. nextId \notin DOMAIN res /\ j.op = "reserve" /\ j.pc = "r_create"
    <3>1. nextId \in Nat
      BY DEF Known, TypeOK, Ids
    <3> QED BY <1>0, <1>4, <3>1 DEF CreateReservation, JobOK, Known, ReservePCs
  <2> DEFINE row == [user |-> j.user, book |-> j.bid, status |-> "ACTIVE",
                     due |-> now + LoanDays, returned_at |-> "null"]
  <2>1. UNCHANGED res \/ res' = Save(res, nextId, row)
    BY <1>4 DEF CreateReservation, SaveRow
  <2>2. CASE res' = Save(res, nextId, row)
    <3>1. res'[nextId] = row /\ DOMAIN res \subseteq DOMAIN res'
          /\ \A r \in DOMAIN res' : r # nextId => r \in DOMAIN res /\ res'[r] = res[r]
      BY <2>2 DEF Save
    <3>2. Created(w, nextId)
      BY <2>0, <3>1 DEF Created
    <3> QED BY <3>1, <3>2 DEF RowsFollow, RowFollows, Follows
  <2> QED BY <2>1, <2>2, SameRows
<1>5. CASE CloseReservation(w)
  <2> DEFINE row == [Mem(w) EXCEPT !.status = "RETURNED", !.returned_at = "set"]
  <2>1. j.rid \in DOMAIN j.rows /\ SaveRow(w, j.rid, row, [j EXCEPT !.pc = "t_shelve"])
    BY <1>0, <1>5 DEF CloseReservation, JobOK
  <2>2. Follows(j.rows[j.rid], row) /\ row.book = j.rows[j.rid].book
    BY <1>0, <1>5, <2>1 DEF CloseReservation, Sound, Follows, Mem, Row
  <2> HIDE DEF row
  <2> QED BY <2>1, <2>2, RowSave
<1>6. CASE SaveExtension(w)
  <2> DEFINE row == [Mem(w) EXCEPT !.due = @ + j.arg]
  <2>1. j.rid \in DOMAIN j.rows /\ SaveRow(w, j.rid, row, Idle)
    BY <1>0, <1>6 DEF SaveExtension, JobOK
  <2>2. Follows(j.rows[j.rid], row) /\ row.book = j.rows[j.rid].book
    BY <1>0, <2>1 DEF Follows, Mem, Row
  <2> HIDE DEF row
  <2> QED BY <2>1, <2>2, RowSave
<1>7. CASE SavePatchedReservation(w)
  <2> DEFINE row == [Mem(w) EXCEPT !.book = j.arg]
  <2>1. j.rid \in DOMAIN j.rows /\ SaveRow(w, j.rid, row, Idle) /\ j.op = "patch_reservation"
    BY <1>0, <1>7 DEF SavePatchedReservation, JobOK
  <2>2. Follows(j.rows[j.rid], row)
    BY <1>0, <2>1 DEF Follows, Mem, Row
  <2> HIDE DEF row
  <2> QED BY <2>1, <2>2, RowSave
<1>8. CASE MarkOverdue(w)
  <2>1. PICK r \in DOMAIN j.rows :
          SaveRow(w, r, [j.rows[r] EXCEPT !.status = "OVERDUE"],
                  [j EXCEPT !.pc = "o_notify", !.rid = r])
    BY <1>8 DEF MarkOverdue
  <2> DEFINE row == [j.rows[r] EXCEPT !.status = "OVERDUE"]
  <2>2. j.op = "overdue"
    BY <1>0, <1>8 DEF MarkOverdue, JobOK
  <2>3. Follows(j.rows[r], row) /\ row.book = j.rows[r].book
    BY <1>0, <2>2 DEF Follows, Row, Sound
  <2>4. SaveRow(w, r, row, [j EXCEPT !.pc = "o_notify", !.rid = r])
    BY <2>1
  <2> HIDE DEF row
  <2> QED BY <2>3, <2>4, RowSave
<1>9. CASE \/ ReserveValidate(w) \/ TakeCopy(w) \/ Invalidate(w) \/ Emit(w) \/ ShelveCopy(w)
           \/ NotifyOverdue(w) \/ SavePatchedBook(w) \/ Abort(w)
  BY <1>9, SameRows DEF ReserveValidate, TakeCopy, Invalidate, Emit, ShelveCopy, NotifyOverdue,
     SavePatchedBook, SaveBook, Abort
<1> QED BY <1>1, <1>2, <1>3, <1>4, <1>5, <1>6, <1>7, <1>8, <1>9 DEF Request, Step

\* A mishap on record is one that struck its book and hit its row.
LEMMA Told ==
    ASSUME NEW S, NEW k, NEW b, NEW r, NEW kinds, <<k, b, r>> \in S, k \in kinds
    PROVE  /\ \E m \in S : m[1] \in kinds /\ m[2] = b
           /\ \E m \in S : m[1] \in kinds /\ m[3] = r
<1> DEFINE n == <<k, b, r>>
<1>1. n \in S /\ n[1] = k /\ n[2] = b /\ n[3] = r
  OBVIOUS
<1> HIDE DEF n
<1> QED BY <1>1

LEMMA HitNow ==
    ASSUME NEW k, NEW b, NEW r, NEW kinds, <<k, b, r>> \in mishaps', k \in kinds
    PROVE  Hit(r, kinds)' /\ Struck(b, kinds)'
  BY Told DEF Hit, Struck

LEMMA HitStays ==
    ASSUME mishaps \subseteq mishaps', NEW r, NEW kinds
    PROVE  /\ Hit(r, kinds) => Hit(r, kinds)'
           /\ Struck(r, kinds) => Struck(r, kinds)'
  BY DEF Hit, Struck

\* A loan only moves on, except where a handler saves an outdated copy of its row:
\* with every route, every overlap of handlers, crashes and broker failures
\* (commands.py:118-128 and 193-202, tasks.py:49-65).
THEOREM LoansMoveOn == Spec => OnlyForward
<1> DEFINE Forward == \A r \in DOMAIN res \cap DOMAIN res' : MovesOn(r) \/ Reopens(r)
<1>1. Known /\ [Next]_vars => [Forward]_vars
  <2> SUFFICES ASSUME Known, Next, NEW r \in DOMAIN res \cap DOMAIN res'
               PROVE  MovesOn(r) \/ Reopens(r)
    OBVIOUS
  <2>1. CASE Tick
    BY <2>1 DEF Tick, Follows, MovesOn
  <2>2. ASSUME NEW w \in Workers, Request(w) \/ Step(w) \/ Abort(w) PROVE MovesOn(r) \/ Reopens(r)
    <3>1. RowFollows(w, r)
      BY <2>2, RowsStep DEF RowsFollow
    <3> QED BY <3>1 DEF RowFollows, Created, MovesOn, Reopens
  <2> QED BY <2>1, <2>2 DEF Next
<1>2. OnlyForward <=> [][Forward]_vars
  BY DEF OnlyForward
<1> HIDE DEF Forward
<1> QED BY <1>1, <1>2, KnownAlways, PTL DEF Spec

-----------------------------------------------------------------------------
(***************************************************************************)
(* What was confirmed, published or audited is so in the database.         *)
(***************************************************************************)

\* A handler at its messages has its row in the database as it will say.
CanPromise(j) ==
    \/ j.op = "reserve" /\ j.pc \in TailPCs
    \/ j.op = "return" /\ j.pc \in TailPCs \cup {"t_shelve", "invalidate"}

LEMMA KeptStays ==
    ASSUME Known, NEW w \in Workers, Request(w) \/ Step(w) \/ Abort(w),
           NEW op, NEW r, Kept(op, r)
    PROVE  Kept(op, r)'
<1>1. mishaps \subseteq mishaps' /\ RowsFollow(w)
  BY OneWorker, RowsStep DEF Known
<1>2. CASE Hit(r, {"stale_row", "deleted"})
  BY <1>1, <1>2, HitStays DEF Kept
<1>3. CASE r \in DOMAIN res /\ (op = "return" => res[r].status = "RETURNED")
  <2>1. CASE r \notin DOMAIN res'
    BY <1>1, <1>3, <2>1, HitNow DEF RowsFollow, Kept
  <2>2. CASE r \in DOMAIN res' /\ Follows(res[r], res'[r])
    BY <1>3, <2>2 DEF Follows, Kept
  <2>3. CASE <<"stale_row", res'[r].book, r>> \in mishaps'
    BY <2>3, HitNow DEF Kept
  <2> QED BY <1>1, <1>3, <2>1, <2>2, <2>3 DEF RowsFollow, RowFollows, Created
<1> QED BY <1>2, <1>3 DEF Kept

\* A handler goes on by its own statement only.
LEMMA OwnStep ==
    ASSUME TypeOK, NEW w \in Workers, Request(w) \/ Step(w) \/ Abort(w),
           Continues(w), Moves(job[w], job'[w])
    PROVE  /\ Step(w)
           /\ job[w].pc = "r_validate" => ReserveValidate(w)
           /\ job[w].pc = "r_take" => TakeCopy(w)
           /\ job[w].pc = "r_create" => CreateReservation(w)
           /\ job[w].pc = "t_close" => CloseReservation(w)
           /\ job[w].pc = "t_shelve" => ShelveCopy(w)
<1>1. job'[w] # Idle /\ Busy(w)
  BY DEF Continues, Idle
<1>2. ~Abort(w)
  BY <1>1, JobFinish DEF Abort, Drop
<1>3. ASSUME Request(w) PROVE FALSE
  <2>1. Starts(w) \/ UNCHANGED job
    BY <1>3, JobRequest
  <2>2. ~Starts(w)
    BY <1>1 DEF Starts
  <2>3. ~UNCHANGED job
    <3>1. UNCHANGED job => ~Busy(w)
      BY <1>3 DEF Request, Reserve, Return, Extend, Load, CheckOverdue, PatchReservation, PatchBook,
         DeleteReservation, DeleteBook, MayStart
    <3> QED BY <1>1, <3>1
  <2> QED BY <2>1, <2>2, <2>3
<1>4. Step(w)
  BY <1>2, <1>3
<1>5. job[w].pc \in {"r_validate", "r_take", "r_create", "t_close", "t_shelve"} =>
        \/ job[w].pc = "r_validate" /\ ReserveValidate(w)
        \/ job[w].pc = "r_take" /\ TakeCopy(w)
        \/ job[w].pc = "r_create" /\ CreateReservation(w)
        \/ job[w].pc = "t_close" /\ CloseReservation(w)
        \/ job[w].pc = "t_shelve" /\ ShelveCopy(w)
  BY <1>4 DEF Step, ReserveValidate, TakeCopy, Invalidate, CreateReservation, Emit, Tail,
     CloseReservation, ShelveCopy, SaveExtension, MarkOverdue, NotifyOverdue,
     SavePatchedReservation, SavePatchedBook
<1> QED BY <1>4, <1>5

LEMMA PromiseMade ==
    ASSUME Known, NEW w \in Workers, Request(w) \/ Step(w) \/ Abort(w),
           CanPromise(job[w]) => Kept(job[w].op, job[w].rid),
           CanPromise(job'[w]), NEW op, NEW r, op = job'[w].op, r = job'[w].rid
    PROVE  Kept(op, r)'
<1> DEFINE j == job[w]
           k == job'[w]
<1>0. TypeOK /\ JobOK(j)
  BY DEF Known, TypeOK
<1>1. CASE UNCHANGED job
  <2>1. Kept(op, r)
    BY <1>1
  <2> QED BY <2>1, KeptStays
<1>2. CASE k = Idle \/ Starts(w)
  BY <1>2 DEF CanPromise, Starts, Idle, TailPCs
<1>3. CASE Continues(w) /\ Moves(j, k)
  <2>1. k.op = j.op
    BY <1>3 DEF Continues
  <2>2. CASE CanPromise(j)
    <3>1. k.rid = j.rid
      BY <1>3, <2>2 DEF Moves, CanPromise, TailPCs
    <3>2. Kept(op, r)
      BY <2>1, <2>2, <3>1
    <3> QED BY <3>2, KeptStays
  <2>3. CASE j.pc = "r_create"
    <3>2. CreateReservation(w)
      BY <1>0, <1>3, <2>3, OwnStep
    <3>3. j.op = "reserve"
      BY <1>0, <2>3 DEF JobOK, ReservePCs
    <3>4. CASE res' = Save(res, nextId,
                 [user |-> j.user, book |-> j.bid, status |-> "ACTIVE",
                  due |-> now + LoanDays, returned_at |-> "null"])
              /\ k = [j EXCEPT !.pc = "confirm", !.rid = nextId]
      <4>1. k.rid = nextId
        BY <1>0, <3>4, MovePC DEF JobOK
      <4>2. nextId \in DOMAIN res'
        BY <3>4 DEF Save
      <4> QED BY <2>1, <3>3, <4>1, <4>2 DEF Kept
    <3>5. k # Idle
      BY <1>3 DEF Continues, Idle
    <3> QED BY <1>0, <3>2, <3>4, <3>5, JobFinish DEF CreateReservation, SaveRow, Drop, TypeOK
  <2>4. CASE j.pc = "t_close"
    <3>2. CloseReservation(w)
      BY <1>0, <1>3, <2>4, OwnStep
    <3> DEFINE row == [Mem(w) EXCEPT !.status = "RETURNED", !.returned_at = "set"]
    <3>3. Mem(w) \in Row
      BY <1>0, <2>4 DEF JobOK, Mem
    <3>4. CASE res' = Save(res, j.rid, row) /\ k = [j EXCEPT !.pc = "t_shelve"]
      <4>1. k.rid = j.rid
        BY <1>0, <3>4, MovePC DEF JobOK
      <4>2. j.rid \in DOMAIN res' /\ res'[j.rid] = row
        BY <3>4 DEF Save
      <4>3. row.status = "RETURNED"
        BY <3>3 DEF Row
      <4> QED BY <2>1, <4>1, <4>2, <4>3 DEF Kept
    <3>5. k # Idle
      BY <1>3 DEF Continues, Idle
    <3> QED BY <1>0, <3>2, <3>4, <3>5, JobFinish DEF CloseReservation, SaveRow, Drop, TypeOK
  <2>5. ASSUME ~CanPromise(j) PROVE j.pc \in {"r_create", "t_close"}
    <3>1. k.op \in {"reserve", "return"} /\ k.pc \in TailPCs \cup {"t_shelve", "invalidate"}
          /\ (k.op = "reserve" => k.pc \in TailPCs)
      BY DEF CanPromise
    <3>2. j.pc \notin TailPCs \cup {"t_shelve"} /\ (j.op = "return" => j.pc # "invalidate")
      BY <1>0, <2>1, <2>5, <3>1 DEF CanPromise, JobOK, TailPCs
    <3>3. j.pc \in {"invalidate", "r_validate", "r_take"} =>
            j.op = "reserve" /\ k.pc \notin TailPCs
      BY <1>0, <1>3, <2>1, <3>1, <3>2 DEF Moves, JobOK, ReservePCs, TailPCs
    <3>4. j.pc \in {"o_save", "o_notify"} => k.op = "overdue"
      BY <1>0, <2>1 DEF JobOK
    <3>5. j.pc \notin {"idle", "e_save", "p_save", "b_save"}
      BY <1>3 DEF Moves, Continues, Busy
    <3>6. j.pc \in PCs
      BY <1>0 DEF JobOK
    <3>7. ~(k.op = "reserve" /\ k.pc \notin TailPCs) /\ k.op # "overdue"
      BY <3>1
    <3> QED BY <2>1, <3>2, <3>3, <3>4, <3>5, <3>6, <3>7 DEF PCs, ReservePCs
  <2> QED BY <2>2, <2>3, <2>4, <2>5
<1> QED BY <1>0, <1>1, <1>2, <1>3, JobNext

\* Only a command at its messages, or the overdue task, sends anything.
LEMMA Sent ==
    ASSUME TypeOK, NEW w \in Workers, Request(w) \/ Step(w) \/ Abort(w), NEW e \in effects',
           e \notin effects, e[1] # "overdue"
    PROVE  CanPromise(job[w]) /\ e[1] = job[w].op /\ e[2] = job[w].rid
<1>0. JobOK(job[w])
  BY DEF TypeOK
<1>1. CASE Emit(w)
  <2>1. e = <<job[w].op, job[w].rid, job[w].pc>> /\ job[w].pc \in TailPCs
    BY <1>1 DEF Emit, Tail, TailPCs
  <2> QED BY <1>0, <2>1 DEF CanPromise, JobOK
<1>2. CASE NotifyOverdue(w)
  <2>1. e = <<"overdue", job[w].rid, "email">>
    BY <1>2 DEF NotifyOverdue
  <2> QED BY <2>1
<1>3. CASE Request(w)
  BY <1>3 DEF Request, Reserve, Return, Extend, Load, CheckOverdue, PatchReservation,
     DeleteReservation, PatchBook, DeleteBook
<1>4. CASE \/ ReserveValidate(w) \/ TakeCopy(w) \/ Invalidate(w) \/ CreateReservation(w)
           \/ CloseReservation(w) \/ ShelveCopy(w) \/ SaveExtension(w) \/ MarkOverdue(w)
           \/ SavePatchedReservation(w) \/ SavePatchedBook(w) \/ Abort(w)
  BY <1>4 DEF ReserveValidate, TakeCopy, Invalidate, CreateReservation, CloseReservation,
     ShelveCopy, SaveExtension, MarkOverdue, SavePatchedReservation, SavePatchedBook, SaveBook,
     SaveRow, Abort
<1> QED BY <1>1, <1>2, <1>3, <1>4 DEF Step

PromisesInv ==
    /\ PromisesKept
    /\ \A v \in Workers : CanPromise(job[v]) => Kept(job[v].op, job[v].rid)

LEMMA PromisesStep ==
    ASSUME Known, PromisesInv, NEW w \in Workers, Request(w) \/ Step(w) \/ Abort(w)
    PROVE  PromisesInv'
<1>1. \A v \in Workers : v # w => job'[v] = job[v]
  BY JobNext DEF OthersWait, Known
<1>2. ASSUME NEW v \in Workers, CanPromise(job[v])' PROVE Kept(job[v].op, job[v].rid)'
  <2>0. PICK op, r : op = job'[v].op /\ r = job'[v].rid
    OBVIOUS
  <2>1. CASE v = w
    <3>1. CanPromise(job'[w]) /\ op = job'[w].op /\ r = job'[w].rid
      BY <1>2, <2>0, <2>1 DEF CanPromise
    <3>2. Kept(op, r)'
      BY <3>1, PromiseMade DEF PromisesInv
    <3> QED BY <2>0, <3>2 DEF Kept, Hit
  <2>2. CASE v # w
    <3>1. Kept(op, r)
      BY <1>1, <1>2, <2>0, <2>2 DEF PromisesInv, CanPromise
    <3>2. Kept(op, r)'
      BY <3>1, KeptStays
    <3> QED BY <2>0, <3>2 DEF Kept, Hit
  <2> QED BY <2>1, <2>2
<1>3. ASSUME NEW e \in effects', e[1] # "overdue" PROVE Kept(e[1], e[2])'
  <2>1. CASE e \in effects
    BY <1>3, <2>1, KeptStays DEF PromisesInv, PromisesKept
  <2>2. CASE e \notin effects
    <3>1. CanPromise(job[w]) /\ e[1] = job[w].op /\ e[2] = job[w].rid
      BY <1>3, <2>2, Sent DEF Known
    <3>2. Kept(e[1], e[2])
      BY <3>1 DEF PromisesInv
    <3> QED BY <3>2, KeptStays
  <2> QED BY <2>1, <2>2
<1> QED BY <1>2, <1>3 DEF PromisesInv, PromisesKept

\* What was confirmed, published or audited is so in the database, until a save over
\* a change of the row, or its deletion, undoes it: with every route, every overlap
\* of handlers, crashes and broker failures (commands.py:61-103 and 126-176).
THEOREM PromisesHold == Spec => []PromisesKept
<1>1. Init => PromisesInv
  BY DEF Init, PromisesInv, PromisesKept, CanPromise, Idle
<1>2. Known /\ PromisesInv /\ [Next]_vars => PromisesInv'
  <2> SUFFICES ASSUME Known, PromisesInv, [Next]_vars PROVE PromisesInv'
    OBVIOUS
  <2>1. CASE Tick \/ UNCHANGED vars
    <3>1. UNCHANGED <<res, effects, job, mishaps>>
      BY <2>1 DEF Tick, vars, history
    <3> QED BY <3>1 DEF PromisesInv, PromisesKept, CanPromise, Kept, Hit
  <2> QED BY <2>1, PromisesStep DEF Next
<1>3. PromisesInv => PromisesKept
  BY DEF PromisesInv
<1> QED BY <1>1, <1>2, <1>3, KnownAlways, PTL DEF Spec

-----------------------------------------------------------------------------
(***************************************************************************)
(* A reader's ACTIVE reservations of a book.                               *)
(***************************************************************************)
AskTwice(u, b) == <<"twice", b, u>> \in mishaps

\* Two requests of a reader for one book in flight are on record.
AskInv ==
    \A v, x \in Workers :
        /\ v # x /\ job[v].op = "reserve" /\ job[x].op = "reserve"
        /\ job[v].user = job[x].user /\ job[v].bid = job[x].bid
        => AskTwice(job[v].user, job[v].bid)

\* The reader has no ACTIVE reservation of the book, or the rule is broken already.
Free(u, b) ==
    \/ \A r \in DOMAIN res : ~ (res[r].user = u /\ res[r].book = b /\ res[r].status = "ACTIVE")
    \/ AskTwice(u, b)
    \/ Struck(b, {"stale_row", "moved"})

Validated(j) == j.op = "reserve" /\ j.pc \in {"r_take", "invalidate", "r_create"}

ActiveInv ==
    /\ AskInv
    /\ \A v \in Workers : Validated(job[v]) => Free(job[v].user, job[v].bid)
    /\ OneActivePerReader

\* The only way to start reserving.
LEMMA IsReserve ==
    ASSUME TypeOK, NEW w \in Workers, Request(w), ~UNCHANGED job, job'[w].op = "reserve"
    PROVE  \E u \in Users, b \in Books : Reserve(w, u, b)
<1>1. ASSUME NEW op, NEW pc, NEW u, NEW r, NEW arg, Load(w, op, pc, u, r, arg)
      PROVE  op = "reserve"
  BY <1>1 DEF Load, TypeOK
<1>2. ~CheckOverdue(w) /\ ~\E b \in Books : PatchBook(w, b)
  <2>1. CheckOverdue(w) => job'[w].op = "overdue"
    BY DEF CheckOverdue, TypeOK
  <2>2. ASSUME NEW b \in Books, PatchBook(w, b) PROVE job'[w].op = "patch_book"
    <3>1. PICK row : job' = [job EXCEPT ![w] =
                        [pc |-> "b_save", op |-> "patch_book", user |-> None, bid |-> b,
                         rid |-> None, book |-> book[b], rows |-> NoRows, arg |-> row]]
      BY <2>2 DEF PatchBook
    <3> QED BY <3>1 DEF TypeOK
  <2> QED BY <2>1, <2>2
<1>3. ~\E u \in Users, r \in DOMAIN res : DeleteReservation(w, u, r)
  BY DEF DeleteReservation
<1>4. ~\E b \in Books : DeleteBook(w, b)
  BY DEF DeleteBook
<1>5. ~\E u \in Users, r \in DOMAIN res : Return(w, u, r)
  <2>1. ASSUME NEW u \in Users, NEW r \in DOMAIN res, Return(w, u, r) PROVE FALSE
    <3>1. Load(w, "return", "t_close", u, r, None)
      BY <2>1 DEF Return
    <3> QED BY <1>1, <3>1
  <2> QED BY <2>1
<1>6. ~\E u \in Users, r \in DOMAIN res, days \in ExtraDays : Extend(w, u, r, days)
  <2>1. ASSUME NEW u \in Users, NEW r \in DOMAIN res, NEW days \in ExtraDays,
               Extend(w, u, r, days)
        PROVE  FALSE
    <3>1. Load(w, "extend", "e_save", u, r, days)
      BY <2>1 DEF Extend
    <3> QED BY <1>1, <3>1
  <2> QED BY <2>1
<1>7. ~\E u \in Users, r \in DOMAIN res, b \in Books : PatchReservation(w, u, r, b)
  <2>1. ASSUME NEW u \in Users, NEW r \in DOMAIN res, NEW b \in Books,
               PatchReservation(w, u, r, b)
        PROVE  FALSE
    <3>1. Load(w, "patch_reservation", "p_save", u, r, b)
      BY <2>1 DEF PatchReservation
    <3> QED BY <1>1, <3>1
  <2> QED BY <2>1
<1> QED BY <1>2, <1>3, <1>4, <1>5, <1>6, <1>7 DEF Request

LEMMA AskStart ==
    ASSUME TypeOK, NEW w \in Workers, Request(w), ~UNCHANGED job, job'[w].op = "reserve",
           NEW v \in Workers, job[v].op = "reserve",
           job[v].user = job'[w].user, job[v].bid = job'[w].bid
    PROVE  <<"twice", job[v].bid, job[v].user>> \in mishaps'
<1>1. PICK u \in Users, b \in Books : Reserve(w, u, b)
  BY IsReserve
<1>2. job'[w].user = u /\ job'[w].bid = b
  BY <1>1 DEF Reserve, TypeOK
<1>3. v \in Asking(u, b)
  BY <1>2 DEF Asking
<1> QED BY <1>1, <1>2, <1>3 DEF Reserve

LEMMA AskStep ==
    ASSUME TypeOK, AskInv, NEW w \in Workers, Request(w) \/ Step(w) \/ Abort(w)
    PROVE  AskInv'
<1>1. \A v \in Workers : v # w => job'[v] = job[v]
  BY JobNext DEF OthersWait
<1>2. mishaps \subseteq mishaps'
  BY OneWorker
<1>3. ASSUME NEW v \in Workers, v # w, job[v].op = "reserve", job'[w].op = "reserve",
             job[v].user = job'[w].user, job[v].bid = job'[w].bid
      PROVE  <<"twice", job[v].bid, job[v].user>> \in mishaps'
  <2>1. CASE job'[w] = job[w] \/ Continues(w)
    BY <1>2, <1>3, <2>1 DEF AskInv, AskTwice, Continues
  <2>2. CASE job'[w] = Idle
    BY <1>3, <2>2 DEF Idle
  <2>3. CASE Starts(w)
    <3>1. ~Busy(w) /\ job'[w] # Idle
      BY <2>3 DEF Starts, Idle
    <3>2. ~Step(w) /\ ~Abort(w)
      BY <3>1, JobStep DEF Abort
    <3>3. ~UNCHANGED job
      BY <2>3 DEF Starts, Busy
    <3> QED BY <1>3, <3>2, <3>3, AskStart
  <2> QED BY <2>1, <2>2, <2>3, JobNext
<1>4. ASSUME NEW v \in Workers, NEW x \in Workers, v # x, job'[v].op = "reserve",
             job'[x].op = "reserve", job'[v].user = job'[x].user, job'[v].bid = job'[x].bid
      PROVE  <<"twice", job'[v].bid, job'[v].user>> \in mishaps'
  <2>1. CASE v = w
    BY <1>1, <1>3, <1>4, <2>1
  <2>2. CASE x = w
    BY <1>1, <1>3, <1>4, <2>2
  <2>3. CASE v # w /\ x # w
    BY <1>1, <1>2, <1>4, <2>3 DEF AskInv, AskTwice
  <2> QED BY <2>1, <2>2, <2>3
<1> QED BY <1>4 DEF AskInv, AskTwice

\* A reservation that is ACTIVE after a step was so before it, or has just been
\* created, or the rule is broken for its book.
LEMMA ActiveBefore ==
    ASSUME Known, NEW w \in Workers, Request(w) \/ Step(w) \/ Abort(w),
           NEW r \in DOMAIN res', res'[r].status = "ACTIVE",
           NEW b, res'[r].book = b, ~Struck(b, {"stale_row", "moved"})'
    PROVE  \/ Created(w, r)
           \/ /\ r \in DOMAIN res /\ res[r].status = "ACTIVE"
              /\ res[r].user = res'[r].user /\ res[r].book = res'[r].book
<1>1. RowFollows(w, r)
  BY RowsStep DEF RowsFollow
<1>2. ASSUME NEW k \in {"stale_row", "moved"}, <<k, b, r>> \in mishaps' PROVE FALSE
  <2>1. Struck(b, {"stale_row", "moved"})'
    BY <1>2, HitNow
  <2> QED BY <2>1
<1>3. CASE r \in DOMAIN res /\ Follows(res[r], res'[r]) /\ res[r].book = res'[r].book
  BY <1>3 DEF Follows
<1> QED BY <1>1, <1>2, <1>3 DEF RowFollows

LEMMA ExcusesStay ==
    ASSUME mishaps \subseteq mishaps', NEW u, NEW b,
           AskTwice(u, b) \/ Struck(b, {"stale_row", "moved"})
    PROVE  AskTwice(u, b)' \/ Struck(b, {"stale_row", "moved"})'
  BY HitStays DEF AskTwice

LEMMA FreeStays ==
    ASSUME Known, AskInv, NEW w \in Workers, Request(w) \/ Step(w) \/ Abort(w),
           NEW u, NEW b, Free(u, b),
           NEW v \in Workers, job[v].op = "reserve", job[v].user = u, job[v].bid = b,
           v = w => job[w].pc # "r_create"
    PROVE  Free(u, b)'
<1>1. mishaps \subseteq mishaps'
  BY OneWorker DEF Known
<1>2. CASE AskTwice(u, b) \/ Struck(b, {"stale_row", "moved"})
  BY <1>1, <1>2, ExcusesStay DEF Free
<1>3. CASE \A r \in DOMAIN res :
             ~ (res[r].user = u /\ res[r].book = b /\ res[r].status = "ACTIVE")
  <2>1. ASSUME NEW r \in DOMAIN res', res'[r].user = u, res'[r].book = b,
               res'[r].status = "ACTIVE", ~Struck(b, {"stale_row", "moved"})'
        PROVE  AskTwice(u, b)'
    <3>1. Created(w, r)
      BY <1>3, <2>1, ActiveBefore
    <3>2. v # w
      BY <3>1 DEF Created
    <3>3. AskTwice(job[v].user, job[v].bid)
      BY <2>1, <3>1, <3>2 DEF AskInv, Created
    <3> QED BY <1>1, <3>3 DEF AskTwice
  <2> QED BY <2>1 DEF Free
<1> QED BY <1>2, <1>3 DEF Free

LEMMA ActiveStep ==
    ASSUME Known, ActiveInv, NEW w \in Workers, Request(w) \/ Step(w) \/ Abort(w)
    PROVE  ActiveInv'
<1>0. TypeOK /\ mishaps \subseteq mishaps'
  BY OneWorker DEF Known
<1>1. \A v \in Workers : v # w => job'[v] = job[v]
  BY <1>0, JobNext DEF OthersWait
<1>2. AskInv'
  BY <1>0, AskStep DEF ActiveInv
<1>3. ASSUME NEW v \in Workers, Validated(job'[v]), NEW u, NEW b,
             u = job'[v].user, b = job'[v].bid
      PROVE  Free(u, b)'
  <2>1. CASE job'[v] = job[v]
    <3>1. CASE v = w /\ job[w].pc = "r_create"
      <4>1. ~Continues(w) \/ ~Moves(job[w], job'[w])
        BY <2>1, <3>1 DEF Moves
      <4>2. ~Starts(w) /\ job'[w] # Idle
        BY <2>1, <3>1 DEF Starts, Busy, Idle
      <4>3. UNCHANGED res
        <5>1. UNCHANGED job
          BY <1>0, <4>1, <4>2, JobNext
        <5>2. ~Step(w)
          <6>1. Step(w) => CreateReservation(w)
            BY <3>1 DEF Step, ReserveValidate, TakeCopy, Invalidate, Emit, Tail,
               CloseReservation, ShelveCopy, SaveExtension, MarkOverdue, NotifyOverdue,
               SavePatchedReservation, SavePatchedBook
          <6>2. Step(w) => Continues(w) /\ Moves(job[w], job'[w])
            BY <1>0, <4>2, JobStep
          <6> QED BY <4>1, <6>2
        <5>3. ~Abort(w)
          BY <1>0, <4>2, JobFinish DEF Abort, Drop
        <5>4. ~Request(w)
          BY <3>1, <5>1 DEF Request, Reserve, Return, Extend, Load, CheckOverdue,
             PatchReservation, PatchBook, DeleteReservation, DeleteBook, MayStart, Busy
        <5> QED BY <5>2, <5>3, <5>4
      <4> QED BY <1>0, <1>3, <2>1, <3>1, <4>3, ExcusesStay DEF ActiveInv, Free
    <3>2. CASE ~(v = w /\ job[w].pc = "r_create")
      <4>1. Free(u, b) /\ job[v].op = "reserve" /\ job[v].user = u /\ job[v].bid = b
        BY <1>3, <2>1 DEF ActiveInv, Validated
      <4> QED BY <3>2, <4>1, FreeStays DEF ActiveInv
    <3> QED BY <3>1, <3>2
  <2>2. CASE v = w /\ Continues(w) /\ Moves(job[w], job'[w])
    <3>1. job[w].op = "reserve" /\ job[w].user = u /\ job[w].bid = b
      BY <1>3, <2>2 DEF Continues, Validated
    <3>2. CASE job[w].pc = "r_validate"
      <4>1. ReserveValidate(w) /\ job'[w] # Idle
        BY <1>0, <2>2, <3>2, OwnStep DEF Continues, Idle
      <4>2. \A r \in DOMAIN res :
              ~ (res[r].user = u /\ res[r].book = b /\ res[r].status = "ACTIVE")
        BY <1>0, <3>1, <4>1, JobFinish DEF ReserveValidate
      <4>3. Free(u, b)
        BY <4>2 DEF Free
      <4> QED BY <3>1, <3>2, <4>3, FreeStays DEF ActiveInv
    <3>3. CASE job[w].pc \in {"r_take", "invalidate"}
      <4>1. Free(u, b)
        BY <3>1, <3>3 DEF ActiveInv, Validated
      <4> QED BY <3>1, <3>3, <4>1, FreeStays DEF ActiveInv
    <3>4. job[w].pc \in {"r_validate", "r_take", "invalidate"}
      <4>1. JobOK(job[w]) /\ job'[w].pc \in {"r_take", "invalidate", "r_create"}
        BY <1>0, <1>3, <2>2 DEF TypeOK, Validated
      <4>2. job[w].pc \notin TailPCs /\ job[w].pc # "r_create"
        BY <2>2, <4>1 DEF Moves, TailPCs
      <4> QED BY <3>1, <4>1, <4>2, <2>2 DEF JobOK, PCs, ReservePCs, Continues, Busy, Moves
    <3> QED BY <3>2, <3>3, <3>4
  <2>3. CASE v = w /\ (job'[w] = Idle \/ Starts(w))
    BY <1>3, <2>3 DEF Validated, Idle, Starts
  <2> QED BY <1>0, <1>1, <2>1, <2>2, <2>3, JobNext
<1>4. ASSUME NEW r \in DOMAIN res', NEW q \in DOMAIN res', NEW u, NEW b, r # q,
             res'[r].status = "ACTIVE", res'[q].status = "ACTIVE",
             res'[r].user = u, res'[q].user = u, res'[r].book = b, res'[q].book = b
      PROVE  AskTwice(u, b)' \/ Struck(b, {"stale_row", "moved"})'
  <2> SUFFICES ASSUME ~Struck(b, {"stale_row", "moved"})' PROVE AskTwice(u, b)'
    OBVIOUS
  <2> DEFINE Old(p) == /\ p \in DOMAIN res /\ res[p].status = "ACTIVE"
                       /\ res[p].user = u /\ res[p].book = b
  <2>1. (Created(w, r) \/ Old(r)) /\ (Created(w, q) \/ Old(q))
    BY <1>4, ActiveBefore
  <2>2. CASE Old(r) /\ Old(q)
    <3>1. AskTwice(u, b) \/ Struck(b, {"stale_row", "moved"})
      BY <1>4, <2>2 DEF ActiveInv, OneActivePerReader, AskTwice
    <3> QED BY <1>0, <3>1, ExcusesStay
  <2>3. ~(Created(w, r) /\ Created(w, q))
    BY <1>4 DEF Created
  <2>4. ASSUME NEW p, NEW o, Created(w, p), Old(o), res'[p].user = u, res'[p].book = b
        PROVE  AskTwice(u, b)'
    <3>1. Free(job[w].user, job[w].bid) /\ job[w].user = u /\ job[w].bid = b
      BY <2>4 DEF Created, ActiveInv, Validated
    <3>2. AskTwice(u, b) \/ Struck(b, {"stale_row", "moved"})
      BY <2>4, <3>1 DEF Free
    <3> QED BY <1>0, <3>2, ExcusesStay
  <2> QED BY <1>4, <2>1, <2>2, <2>3, <2>4
<1>5. OneActivePerReader'
  <2>1. ASSUME NEW r \in DOMAIN res', NEW q \in DOMAIN res', r # q,
               res'[r].status = "ACTIVE", res'[q].status = "ACTIVE",
               res'[r].user = res'[q].user, res'[r].book = res'[q].book
        PROVE  \/ <<"twice", res'[r].book, res'[r].user>> \in mishaps'
               \/ Struck(res[r].book, {"stale_row", "moved"})'
    <3>1. PICK u, b : u = res'[r].user /\ b = res'[r].book
      OBVIOUS
    <3>2. AskTwice(u, b)' \/ Struck(b, {"stale_row", "moved"})'
      BY <1>4, <2>1, <3>1
    <3> QED BY <3>1, <3>2 DEF AskTwice, Struck
  <2> QED BY <2>1 DEF OneActivePerReader
<1>6. ASSUME NEW v \in Workers, Validated(job[v])' PROVE Free(job[v].user, job[v].bid)'
  <2>1. PICK u, b : u = job'[v].user /\ b = job'[v].bid
    OBVIOUS
  <2>2. Free(u, b)'
    BY <1>3, <1>6, <2>1 DEF Validated
  <2> QED BY <2>1, <2>2 DEF Free, AskTwice, Struck
<1> QED BY <1>2, <1>5, <1>6 DEF ActiveInv

\* A reader has at most one ACTIVE reservation of a book, unless two requests of this
\* reader for it overlapped, or a row of one of its loans was saved over a change or
\* moved: with every route, overlap, crash and broker failure (commands.py:35-66).
THEOREM OneActive == Spec => []OneActivePerReader
<1>1. Init => ActiveInv
  BY DEF Init, ActiveInv, AskInv, Validated, OneActivePerReader, Idle, NoRows
<1>2. Known /\ ActiveInv /\ [Next]_vars => ActiveInv'
  <2> SUFFICES ASSUME Known, ActiveInv, [Next]_vars PROVE ActiveInv'
    OBVIOUS
  <2>1. CASE Tick \/ UNCHANGED vars
    <3>1. UNCHANGED <<res, job, mishaps>>
      BY <2>1 DEF Tick, vars, history
    <3> QED BY <3>1 DEF ActiveInv, AskInv, AskTwice, Validated, Free, Struck, OneActivePerReader
  <2> QED BY <2>1, ActiveStep DEF Next
<1>3. ActiveInv => OneActivePerReader
  BY DEF ActiveInv
<1> QED BY <1>1, <1>2, <1>3, KnownAlways, PTL DEF Spec

-----------------------------------------------------------------------------
(***************************************************************************)
(* Counting copies: on the shelf, on loan, in hand, mislaid.               *)
(***************************************************************************)
One(p) == IF p THEN 1 ELSE 0

\* Two sets that differ in one element at most.
LEMMA OneElement ==
    ASSUME NEW S, NEW T, IsFiniteSet(S), NEW w, \A x : x # w => (x \in S <=> x \in T)
    PROVE  /\ IsFiniteSet(T) /\ Cardinality(S) \in Nat /\ Cardinality(T) \in Nat
           /\ Cardinality(T) = Cardinality(S) + One(w \in T) - One(w \in S)
<1>0. Cardinality(S) \in Nat
  BY FS_CardinalityType
<1>1. CASE (w \in S <=> w \in T)
  <2>1. S = T
    BY <1>1
  <2> QED BY <1>0, <1>1, <2>1 DEF One
<1>2. CASE w \in S /\ w \notin T
  <2>1. T = S \ {w}
    BY <1>2
  <2>2. IsFiniteSet(T) /\ Cardinality(T) = Cardinality(S) - 1
    BY <1>2, <2>1, FS_RemoveElement
  <2>3. Cardinality(T) \in Nat
    BY <2>2, FS_CardinalityType
  <2> QED BY <1>0, <1>2, <2>2, <2>3 DEF One
<1>3. CASE w \notin S /\ w \in T
  <2>1. T = S \cup {w}
    BY <1>3
  <2>2. IsFiniteSet(T) /\ Cardinality(T) = Cardinality(S) + 1
    BY <1>3, <2>1, FS_AddElement
  <2>3. Cardinality(T) \in Nat
    BY <2>2, FS_CardinalityType
  <2> QED BY <1>0, <1>3, <2>2, <2>3 DEF One
<1> QED BY <1>1, <1>2, <1>3

Carries(j, b) ==
    /\ j.bid = b
    /\ (j.op = "reserve" /\ j.pc \in {"invalidate", "r_create"}) \/ j.pc = "t_shelve"

Holds(table, r, b) == r \in DOMAIN table /\ table[r].book = b /\ table[r].status # "RETURNED"

LEMMA Finite ==
    ASSUME Known, NEW b
    PROVE  /\ IsFiniteSet(InHand(b)) /\ Cardinality(InHand(b)) \in Nat
           /\ IsFiniteSet(Outstanding(b)) /\ Cardinality(Outstanding(b)) \in Nat
<1>1. InHand(b) \subseteq BusyWorkers
  BY DEF InHand, BusyWorkers, Busy, Known, TypeOK, JobOK, Idle
<1>2. IsFiniteSet(DOMAIN res)
  <2>1. nextId \in Nat /\ DOMAIN res \subseteq 1 .. nextId
    BY DEF Known, TypeOK, Ids
  <2>2. IsFiniteSet(1 .. nextId)
    BY <2>1, FS_Interval
  <2> QED BY <2>1, <2>2, FS_Subset
<1>3. Outstanding(b) \subseteq DOMAIN res
  BY DEF Outstanding
<1>4. IsFiniteSet(InHand(b)) /\ IsFiniteSet(Outstanding(b))
  BY <1>1, <1>2, <1>3, FS_Subset DEF Known
<1> QED BY <1>4, FS_CardinalityType

LEMMA HandsChange ==
    ASSUME Known, NEW w \in Workers, OthersWait(w), NEW b
    PROVE  /\ Cardinality(InHand(b))' \in Nat
           /\ Cardinality(InHand(b))' = Cardinality(InHand(b))
                                        + One(Carries(job'[w], b)) - One(Carries(job[w], b))
<1>1. /\ \A x : x # w => (x \in InHand(b) <=> x \in InHand(b)')
      /\ (w \in InHand(b) <=> Carries(job[w], b)) /\ (w \in InHand(b)' <=> Carries(job'[w], b))
  BY DEF InHand, Carries, OthersWait
<1>2. /\ Cardinality(InHand(b)') \in Nat
      /\ Cardinality(InHand(b)') = Cardinality(InHand(b))
                                   + One(w \in InHand(b)') - One(w \in InHand(b))
  BY <1>1, Finite, OneElement
<1> QED BY <1>1, <1>2 DEF One

LEMMA LoansChange ==
    ASSUME Known, NEW id, \A r : r # id => (r \in DOMAIN res <=> r \in DOMAIN res'),
           \A r \in DOMAIN res : r # id => res'[r] = res[r], NEW b
    PROVE  /\ Cardinality(Outstanding(b))' \in Nat
           /\ Cardinality(Outstanding(b))' = Cardinality(Outstanding(b))
                                             + One(Holds(res', id, b)) - One(Holds(res, id, b))
<1>1. /\ \A x : x # id => (x \in Outstanding(b) <=> x \in Outstanding(b)')
      /\ (id \in Outstanding(b) <=> Holds(res, id, b))
      /\ (id \in Outstanding(b)' <=> Holds(res', id, b))
  BY DEF Outstanding, Holds
<1>2. /\ Cardinality(Outstanding(b)') \in Nat
      /\ Cardinality(Outstanding(b)') = Cardinality(Outstanding(b))
                                   + One(id \in Outstanding(b)') - One(id \in Outstanding(b))
  BY <1>1, Finite, OneElement
<1> QED BY <1>1, <1>2 DEF One

LEMMA SameLoans ==
    ASSUME Known, NEW b, Outstanding(b)' = Outstanding(b)
    PROVE  /\ Cardinality(Outstanding(b))' \in Nat
           /\ Cardinality(Outstanding(b))' = Cardinality(Outstanding(b)) + 0
  BY Finite

\* What strikes the count of a book for good.
Spoils == {"lost_update", "patched", "stale_row", "moved"}

\* Where the copies of b are.
Placed(b) ==
    book[b].avail + Cardinality(Outstanding(b)) + Cardinality(InHand(b)) + mislaid[b]

Balance(b) == Placed(b) = book[b].total

LEMMA Numbers ==
    ASSUME Known, NEW b \in DOMAIN book
    PROVE  /\ book[b].avail \in Nat /\ book[b].total \in Nat /\ mislaid[b] \in Nat
           /\ Cardinality(Outstanding(b)) \in Nat /\ Cardinality(InHand(b)) \in Nat
<1>1. book[b].avail \in Nat /\ book[b].total \in Nat /\ mislaid[b] \in Nat
  BY DEF Known, TypeOK, BookRow
<1> QED BY <1>1, Finite

\* The books balance when what leaves one place arrives at another.
LEMMA Adds ==
    ASSUME CopiesAccounted, mishaps \subseteq mishaps',
           NEW b \in DOMAIN book, ~Struck(b, Spoils)',
           book'[b].total = book[b].total, Placed(b)' = Placed(b)
    PROVE  Balance(b)'
<1>1. ~Struck(b, Spoils)
  BY HitStays
<1>2. Balance(b)
  BY <1>1 DEF CopiesAccounted, Spoils, Balance, Placed
<1> QED BY <1>2 DEF Balance

LEMMA IdleCarries == \A b : ~Carries(Idle, b)
  BY DEF Carries, Idle

\* A handler that ends half-way.
LEMMA CopiesDrop ==
    ASSUME Known, Known', CopiesAccounted, NEW w \in Workers, Drop(w), UNCHANGED <<book, res>>,
           NEW b \in DOMAIN book', ~Struck(b, Spoils)'
    PROVE  Balance(b)'
<1>0. TypeOK /\ b \in Books /\ mislaid[b] \in Nat /\ mishaps \subseteq mishaps'
  BY DEF Known, TypeOK, Drop
<1>1. OthersWait(w) /\ job'[w] = Idle
  BY <1>0, JobFinish DEF Drop
<1>2. mislaid'[b] = mislaid[b] + One(Carries(job[w], b))
  <2>1. w \in InHand(b) <=> Carries(job[w], b)
    BY DEF InHand, Carries
  <2> QED BY <1>0, <2>1 DEF Drop, One
<1>3. Cardinality(InHand(b))' = Cardinality(InHand(b)) + (0 - One(Carries(job[w], b)))
  <2>1. Cardinality(InHand(b)) \in Nat
    BY Finite
  <2> QED BY <1>1, <2>1, HandsChange, IdleCarries DEF One
<1>4. Outstanding(b)' = Outstanding(b) /\ book'[b] = book[b] /\ b \in DOMAIN book
  BY DEF Outstanding
<1>5. Cardinality(Outstanding(b))' = Cardinality(Outstanding(b)) + 0
  BY <1>4, SameLoans
<1>6. Placed(b)' = Placed(b)
  BY <1>2, <1>3, <1>4, <1>5, Numbers DEF One, Placed
<1> QED BY <1>0, <1>4, <1>6, Adds

\* A step that changes no table, and takes nothing into its hands.
LEMMA CopiesQuiet ==
    ASSUME Known, Known', CopiesAccounted, NEW w \in Workers, OthersWait(w),
           UNCHANGED <<book, res, mislaid>>, mishaps \subseteq mishaps',
           NEW b \in DOMAIN book', ~Struck(b, Spoils)',
           Carries(job'[w], b) <=> Carries(job[w], b)
    PROVE  Balance(b)'
<1>0. b \in Books /\ mislaid'[b] = mislaid[b] + 0 /\ book'[b].avail = book[b].avail + 0
  BY DEF Known, TypeOK, BookRow
<1>1. Outstanding(b)' = Outstanding(b) /\ book'[b] = book[b] /\ b \in DOMAIN book
  BY DEF Outstanding
<1>2. Cardinality(Outstanding(b))' = Cardinality(Outstanding(b)) + 0
  BY <1>1, SameLoans
<1>3. Cardinality(InHand(b))' = Cardinality(InHand(b)) + 0
  <2>1. Cardinality(InHand(b)) \in Nat
    BY Finite
  <2> QED BY <2>1, HandsChange DEF One
<1>4. Placed(b)' = Placed(b)
  BY <1>0, <1>1, <1>2, <1>3, Numbers DEF Placed
<1> QED BY <1>1, <1>4, Adds

LEMMA CopiesRequest ==
    ASSUME Known, Known', CopiesAccounted, NEW w \in Workers, Request(w),
           NEW b \in DOMAIN book', ~Struck(b, Spoils)'
    PROVE  Balance(b)'
<1>0. TypeOK /\ mishaps \subseteq mishaps' /\ OthersWait(w)
  BY OneWorker, JobRequest DEF Known
<1>1. CASE Starts(w)
  <2>1. UNCHANGED <<book, res, mislaid>>
    BY <1>1 DEF Starts
  <2>2. ~Carries(job'[w], b)
    BY <1>1 DEF Starts, Carries
  <2>3. ~Carries(job[w], b)
    BY <1>0, <1>1 DEF Starts, Carries, Busy
  <2> QED BY <1>0, <2>1, <2>2, <2>3, CopiesQuiet
<1>2. ASSUME NEW u \in Users, NEW r \in DOMAIN res, DeleteReservation(w, u, r)
      PROVE  Balance(b)'
  <2>0. b \in Books /\ mislaid[b] \in Nat /\ book'[b] = book[b] /\ b \in DOMAIN book
        /\ book'[b].avail = book[b].avail + 0
    BY <1>2 DEF DeleteReservation, Known, TypeOK, BookRow
  <2>1. res' = Delete(res, {r})
    BY <1>2 DEF DeleteReservation
  <2>2. Cardinality(Outstanding(b))' = Cardinality(Outstanding(b))
                             + One(Holds(res', r, b)) - One(Holds(res, r, b))
    BY <2>1, LoansChange DEF Delete
  <2>3. ~Holds(res', r, b)
    BY <2>1 DEF Delete, Holds
  <2>4. mislaid'[b] = mislaid[b] + One(Holds(res, r, b))
    BY <1>2, <2>0 DEF DeleteReservation, Outstanding, Holds, One
  <2>5. Cardinality(InHand(b))' = Cardinality(InHand(b)) + 0
    <3>1. InHand(b)' = InHand(b)
      BY <1>2 DEF DeleteReservation, InHand
    <3> QED BY <3>1, Finite
  <2>6. Placed(b)' = Placed(b)
    BY <2>0, <2>2, <2>3, <2>4, <2>5, Numbers DEF One, Placed
  <2> QED BY <1>0, <2>0, <2>6, Adds
<1>3. ASSUME NEW c \in Books, DeleteBook(w, c) PROVE Balance(b)'
  <2>1. b \in DOMAIN book /\ b # c /\ book'[b] = book[b]
    BY <1>3 DEF DeleteBook, Delete
  <2>2. Outstanding(b)' = Outstanding(b)
    BY <1>3, <2>1 DEF DeleteBook, Delete, Outstanding
  <2>3. InHand(b)' = InHand(b) /\ mislaid' = mislaid
    BY <1>3 DEF DeleteBook, InHand
  <2>4. mislaid'[b] = mislaid[b] + 0 /\ book'[b].avail = book[b].avail + 0
    BY <2>1, <2>3 DEF Known, TypeOK, BookRow
  <2>5. Cardinality(Outstanding(b))' = Cardinality(Outstanding(b)) + 0
    BY <2>2, SameLoans
  <2>6. Cardinality(InHand(b))' = Cardinality(InHand(b)) + 0
    BY <2>3, Finite
  <2>7. Placed(b)' = Placed(b)
    BY <2>1, <2>4, <2>5, <2>6, Numbers DEF Placed
  <2> QED BY <1>0, <2>1, <2>7, Adds
<1>4. CASE UNCHANGED job
  <2>1. CASE \/ \E u \in Users, r \in DOMAIN res : DeleteReservation(w, u, r)
             \/ \E c \in Books : DeleteBook(w, c)
    BY <1>2, <1>3, <2>1
  <2>2. CASE UNCHANGED <<book, res, mislaid>>
    BY <1>0, <1>4, <2>2, CopiesQuiet
  <2>3. CASE \/ \E u \in Users, c \in Books : Reserve(w, u, c)
             \/ \E u \in Users, r \in DOMAIN res : Return(w, u, r)
             \/ \E u \in Users, r \in DOMAIN res, days \in ExtraDays : Extend(w, u, r, days)
             \/ CheckOverdue(w)
             \/ \E u \in Users, r \in DOMAIN res, c \in Books : PatchReservation(w, u, r, c)
             \/ \E c \in Books : PatchBook(w, c)
    <3>1. UNCHANGED <<book, res, mislaid>>
      BY <2>3 DEF Reserve, Return, Extend, Load, CheckOverdue, PatchReservation, PatchBook,
         history
    <3> QED BY <2>2, <3>1
  <2> QED BY <2>1, <2>3 DEF Request
<1> QED BY <1>0, <1>1, <1>4, JobRequest

\* What a save that spoils nothing has seen.
LEMMA FreshBook ==
    ASSUME NEW w \in Workers, NEW row, NEW next, SaveBook(w, row, next),
           BookConstraints(row), NEW b, b = job[w].bid, ~Struck(b, Spoils)'
    PROVE  /\ Current(book, b, job[w].book)
           /\ job[w].op = "patch_book" => row = job[w].book
<1>1. \A k \in BookMishaps(w, row) : <<k, b, None>> \in mishaps'
  BY DEF SaveBook
<1>2. ASSUME NEW k \in Spoils PROVE k \notin BookMishaps(w, row)
  <2>1. <<k, b, None>> \in mishaps' => Struck(b, Spoils)'
    BY HitNow
  <2> QED BY <1>1, <2>1
<1> QED BY <1>2 DEF BookMishaps, Spoils

LEMMA FreshRow ==
    ASSUME NEW w \in Workers, NEW id, NEW row, NEW next, SaveRow(w, id, row, next),
           row.book \in DOMAIN book, NEW b \in Concerned(id, row), ~Struck(b, Spoils)'
    PROVE  /\ id \in DOMAIN job[w].rows => Current(res, id, job[w].rows[id])
           /\ id \in DOMAIN res => res[id].book = row.book
<1>1. \A k \in RowMishaps(w, id, row) : <<k, b, id>> \in mishaps'
  BY DEF SaveRow
<1>2. ASSUME NEW k \in Spoils PROVE k \notin RowMishaps(w, id, row)
  <2>1. <<k, b, id>> \in mishaps' => Struck(b, Spoils)'
    BY HitNow
  <2> QED BY <1>1, <2>1
<1> QED BY <1>2 DEF RowMishaps, Outdated, Spoils

ShelfKept(b) ==
    /\ b \in DOMAIN book /\ book'[b].total = book[b].total /\ OnShelf(b)' = OnShelf(b)
    /\ UNCHANGED <<res, mislaid>>

\* A book row is saved: what leaves the shelf is in the hands of its handler, and back.
LEMMA BookSaved ==
    ASSUME Known, Known', NEW w \in Workers, NEW row, NEW next,
           SaveBook(w, row, next), NEW c, c = job[w].bid, next = Idle \/ next.bid = c,
           \/ /\ row.total = job[w].book.total
              /\ row.avail + One(Carries(next, c)) = job[w].book.avail + One(Carries(job[w], c))
           \/ job[w].op = "patch_book" /\ ~Carries(job[w], c) /\ ~Carries(next, c),
           NEW b \in DOMAIN book', ~Struck(b, Spoils)'
    PROVE  (Drop(w) /\ UNCHANGED <<book, res>>) \/ ShelfKept(b)
<1> DEFINE j == job[w]
<1>0. TypeOK /\ UNCHANGED res
  BY DEF Known, TypeOK, SaveBook
<1>1. CASE Drop(w) /\ UNCHANGED book
  BY <1>0, <1>1
<1>2. CASE /\ BookConstraints(row) /\ book' = Save(book, j.bid, row)
           /\ job' = [job EXCEPT ![w] = next] /\ UNCHANGED mislaid
  <2>1. OthersWait(w) /\ job'[w] = next
    BY <1>0, <1>2 DEF OthersWait, TypeOK
  <2>4. CASE b # c
    <3>1. b \in DOMAIN book /\ book'[b] = book[b]
      BY <1>2, <2>4 DEF Save
    <3>2. ~Carries(j, b) /\ ~Carries(next, b)
      BY <2>4, IdleCarries DEF Carries
    <3>3. Cardinality(InHand(b))' = Cardinality(InHand(b))
      BY <2>1, <3>1, <3>2, HandsChange, Numbers DEF One
    <3> QED BY <1>0, <1>2, <3>1, <3>3 DEF ShelfKept, OnShelf
  <2>5. CASE b = c
    <3>1. Current(book, b, j.book) /\ (j.op = "patch_book" => row = j.book)
      BY <1>2, <2>5, FreshBook
    <3>2. b \in DOMAIN book /\ book[b] = j.book /\ book'[b] = row /\ mislaid'[b] = mislaid[b]
      BY <1>2, <2>5, <3>1 DEF Current, Save
    <3>3. Cardinality(InHand(b))' = Cardinality(InHand(b)) + One(Carries(next, b))
                                    - One(Carries(j, b))
      BY <2>1, HandsChange
    <3>4. /\ row.total = book[b].total
          /\ row.avail + One(Carries(next, b)) = book[b].avail + One(Carries(j, b))
      BY <2>5, <3>1, <3>2 DEF One
    <3>5. \A p : One(p) \in {0, 1}
      BY DEF One
    <3>6. book'[b].avail \in Nat
      BY DEF Known, TypeOK, BookRow
    <3>7. OnShelf(b)' = OnShelf(b)
      BY <3>2, <3>3, <3>4, <3>5, <3>6, Numbers DEF OnShelf
    <3> QED BY <1>0, <1>2, <3>2, <3>4, <3>7 DEF ShelfKept
  <2> QED BY <2>4, <2>5
<1> QED BY <1>1, <1>2 DEF SaveBook

\* A reservation row is saved: what it holds before and after, and what its handler
\* holds, make up for one another.
LEMMA CopiesSaveRow ==
    ASSUME Known, Known', CopiesAccounted, NEW w \in Workers, NEW id, NEW row, NEW next,
           SaveRow(w, id, row, next), NEW b \in DOMAIN book', ~Struck(b, Spoils)',
           row.book \in DOMAIN book =>
              One(Holds(Save(res, id, row), id, b)) + One(Carries(next, b))
                = One(Holds(res, id, b)) + One(Carries(job[w], b))
    PROVE  Balance(b)'
<1>0. TypeOK /\ UNCHANGED book
  BY DEF Known, SaveRow
<1>1. CASE Drop(w) /\ UNCHANGED res
  BY <1>0, <1>1, CopiesDrop
<1>2. CASE /\ row.book \in DOMAIN book /\ res' = Save(res, id, row)
           /\ job' = [job EXCEPT ![w] = next] /\ UNCHANGED mislaid
  <2>0. mishaps \subseteq mishaps'
    BY <1>2 DEF SaveRow
  <2>1. OthersWait(w) /\ job'[w] = next
    BY <1>0, <1>2 DEF OthersWait, TypeOK
  <2>2. Cardinality(InHand(b))' = Cardinality(InHand(b)) + One(Carries(next, b))
                                  - One(Carries(job[w], b))
    BY <2>1, HandsChange
  <2>3. Cardinality(Outstanding(b))' = Cardinality(Outstanding(b))
                + One(Holds(Save(res, id, row), id, b)) - One(Holds(res, id, b))
    <3>1. /\ \A r : r # id => (r \in DOMAIN res <=> r \in DOMAIN res')
          /\ \A r \in DOMAIN res : r # id => res'[r] = res[r]
      BY <1>2 DEF Save
    <3> QED BY <1>2, <3>1, LoansChange
  <2>4. \A p : One(p) \in {0, 1}
    BY DEF One
  <2>5. Placed(b)' = Placed(b)
    <3> HIDE DEF One
    <3> QED BY <1>0, <1>2, <2>2, <2>3, <2>4, Numbers DEF Placed
  <2> QED BY <1>0, <2>0, <2>5, Adds
<1> QED BY <1>1, <1>2 DEF SaveRow

\* A row that keeps its book and stays outstanding, or stays returned.
LEMMA CopiesRewrite ==
    ASSUME Known, Known', CopiesAccounted, NEW w \in Workers, NEW id \in DOMAIN job[w].rows,
           NEW row, NEW next, SaveRow(w, id, row, next),
           row.status = "RETURNED" <=> job[w].rows[id].status = "RETURNED",
           job[w].op \in {"extend", "overdue", "patch_reservation"},
           next = Idle \/ (next.op = "overdue" /\ next.pc = "o_notify"),
           NEW b \in DOMAIN book', ~Struck(b, Spoils)'
    PROVE  Balance(b)'
<1>0. JobOK(job[w])
  BY DEF Known, TypeOK
<1>1. ~Carries(job[w], b) /\ ~Carries(next, b)
  BY <1>0, IdleCarries DEF Carries, JobOK
<1>2. ASSUME row.book \in DOMAIN book
      PROVE  Holds(Save(res, id, row), id, b) <=> Holds(res, id, b)
  <2>1. CASE b \in Concerned(id, row)
    <3>1. Current(res, id, job[w].rows[id]) /\ (id \in DOMAIN res => res[id].book = row.book)
      BY <1>2, <2>1, FreshRow
    <3> QED BY <3>1 DEF Current, Holds, Save
  <2>2. CASE b \notin Concerned(id, row)
    BY <2>2 DEF Concerned, Holds, Save
  <2> QED BY <2>1, <2>2
<1> QED BY <1>1, <1>2, CopiesSaveRow DEF One

LEMMA ShelfStep ==
    ASSUME Known, Known', NEW w \in Workers,
           TakeCopy(w) \/ ShelveCopy(w) \/ SavePatchedBook(w),
           NEW b \in DOMAIN book', ~Struck(b, Spoils)'
    PROVE  (Drop(w) /\ UNCHANGED <<book, res>>) \/ ShelfKept(b)
<1> DEFINE j == job[w]
           next == [j EXCEPT !.pc = "invalidate"]
<1>0. JobOK(j)
  BY DEF Known, TypeOK
<1>1. next = [pc |-> "invalidate", op |-> j.op, user |-> j.user, bid |-> j.bid,
              rid |-> j.rid, book |-> j.book, rows |-> j.rows, arg |-> j.arg]
  BY <1>0, MovePC DEF JobOK
<1>2. next.pc = "invalidate" /\ next.op = j.op /\ next.bid = j.bid
  BY <1>1
<1>3. PICK c : c = j.bid
  OBVIOUS
<1>4. CASE TakeCopy(w)
  <2> DEFINE row == [j.book EXCEPT !.avail = @ - 1]
  <2>1. j.book \in BookRow /\ j.op = "reserve" /\ j.pc = "r_take"
    BY <1>0, <1>4 DEF TakeCopy, JobOK, ReservePCs
  <2>2. row.total = j.book.total /\ row.avail = j.book.avail - 1 /\ j.book.avail \in Nat
    BY <2>1 DEF BookRow
  <2>3. ~Carries(j, c) /\ Carries(next, c)
    <3> HIDE DEF next
    <3> QED BY <1>2, <1>3, <2>1 DEF Carries
  <2>4. SaveBook(w, row, next)
    BY <1>4 DEF TakeCopy
  <2>5. row.avail + One(Carries(next, c)) = j.book.avail + One(Carries(j, c))
    BY <2>2, <2>3 DEF One
  <2> HIDE DEF row, next
  <2> QED BY <1>2, <1>3, <2>2, <2>4, <2>5, BookSaved
<1>5. CASE ShelveCopy(w)
  <2> DEFINE row == [j.book EXCEPT !.avail = @ + 1]
  <2>1. j.book \in BookRow /\ j.op = "return" /\ j.pc = "t_shelve"
    BY <1>0, <1>5 DEF ShelveCopy, JobOK
  <2>2. row.total = j.book.total /\ row.avail = j.book.avail + 1 /\ j.book.avail \in Nat
    BY <2>1 DEF BookRow
  <2>3. Carries(j, c) /\ ~Carries(next, c)
    <3> HIDE DEF next
    <3> QED BY <1>2, <1>3, <2>1 DEF Carries
  <2>4. SaveBook(w, row, next)
    BY <1>5 DEF ShelveCopy
  <2>5. row.avail + One(Carries(next, c)) = j.book.avail + One(Carries(j, c))
    BY <2>2, <2>3 DEF One
  <2> HIDE DEF row, next
  <2> QED BY <1>2, <1>3, <2>2, <2>4, <2>5, BookSaved
<1>6. CASE SavePatchedBook(w)
  <2>1. SaveBook(w, j.arg, Idle) /\ j.op = "patch_book" /\ j.pc = "b_save"
    BY <1>0, <1>6 DEF SavePatchedBook, JobOK
  <2>2. ~Carries(j, c) /\ ~Carries(Idle, c)
    BY <2>1, IdleCarries DEF Carries
  <2> QED BY <1>3, <2>1, <2>2, BookSaved
<1> QED BY <1>4, <1>5, <1>6

LEMMA CopiesShelf ==
    ASSUME Known, Known', CopiesAccounted, NEW w \in Workers,
           TakeCopy(w) \/ ShelveCopy(w) \/ SavePatchedBook(w),
           NEW b \in DOMAIN book', ~Struck(b, Spoils)'
    PROVE  Balance(b)'
<1>1. CASE Drop(w) /\ UNCHANGED <<book, res>>
  BY <1>1, CopiesDrop
<1>2. CASE ShelfKept(b)
  <2>1. mishaps \subseteq mishaps'
    BY OneWorker DEF Known, Step
  <2>2. Outstanding(b)' = Outstanding(b) /\ mislaid'[b] = mislaid[b]
    BY <1>2 DEF ShelfKept, Outstanding
  <2>3. book'[b].avail \in Nat /\ Cardinality(InHand(b))' \in Nat
    <3>1. OthersWait(w)
      BY JobStep DEF Known, Step
    <3> QED BY <3>1, HandsChange DEF Known, TypeOK, BookRow
  <2>4. Placed(b)' = Placed(b)
    BY <1>2, <2>2, <2>3, Numbers DEF ShelfKept, OnShelf, Placed
  <2> QED BY <1>2, <2>1, <2>4, Adds DEF ShelfKept
<1> QED BY <1>1, <1>2, ShelfStep

LEMMA CopiesLoan ==
    ASSUME Known, Known', CopiesAccounted, NEW w \in Workers,
           CreateReservation(w) \/ CloseReservation(w),
           NEW b \in DOMAIN book', ~Struck(b, Spoils)'
    PROVE  Balance(b)'
<1> DEFINE j == job[w]
<1>0. JobOK(j) /\ Sound(j) /\ nextId \notin DOMAIN res
  <2>1. nextId \in Nat
    BY DEF Known, TypeOK, Ids
  <2> QED BY <2>1 DEF Known, TypeOK
<1>1. CASE CreateReservation(w)
  <2> DEFINE row == [user |-> j.user, book |-> j.bid, status |-> "ACTIVE",
                     due |-> now + LoanDays, returned_at |-> "null"]
             next == [j EXCEPT !.pc = "confirm", !.rid = nextId]
  <2>1. SaveRow(w, nextId, row, next) /\ j.op = "reserve" /\ j.pc = "r_create"
    BY <1>0, <1>1 DEF CreateReservation, JobOK, ReservePCs
  <2>2. next.pc = "confirm" /\ next.op = j.op
    <3>1. next = [pc |-> "confirm", op |-> j.op, user |-> j.user, bid |-> j.bid,
                  rid |-> nextId, book |-> j.book, rows |-> j.rows, arg |-> j.arg]
      BY <1>0, MovePC DEF JobOK
    <3> QED BY <3>1
  <2>3. ~Carries(next, b) /\ (Carries(j, b) <=> j.bid = b)
    <3> HIDE DEF next
    <3> QED BY <2>1, <2>2 DEF Carries
  <2>4. ~Holds(res, nextId, b) /\ (Holds(Save(res, nextId, row), nextId, b) <=> j.bid = b)
    BY <1>0 DEF Holds, Save
  <2> HIDE DEF row, next
  <2> QED BY <2>1, <2>3, <2>4, CopiesSaveRow DEF One
<1>2. CASE CloseReservation(w)
  <2> DEFINE row == [Mem(w) EXCEPT !.status = "RETURNED", !.returned_at = "set"]
             next == [j EXCEPT !.pc = "t_shelve"]
             id == j.rid
  <2>1. SaveRow(w, id, row, next) /\ j.op = "return" /\ j.pc = "t_close"
    BY <1>0, <1>2 DEF CloseReservation, JobOK
  <2>2. id \in DOMAIN j.rows /\ j.rows[id].book = j.bid /\ j.rows[id].status # "RETURNED"
        /\ Mem(w) = j.rows[id] /\ j.rows[id] \in Row
    BY <1>0, <2>1 DEF Sound, Mem, JobOK
  <2>3. row.book = j.bid /\ row.status = "RETURNED"
    BY <2>2 DEF Row
  <2>4. next.pc = "t_shelve" /\ next.bid = j.bid
    <3>1. next = [pc |-> "t_shelve", op |-> j.op, user |-> j.user, bid |-> j.bid,
                  rid |-> j.rid, book |-> j.book, rows |-> j.rows, arg |-> j.arg]
      BY <1>0, MovePC DEF JobOK
    <3> QED BY <3>1
  <2>5. ~Carries(j, b) /\ (Carries(next, b) <=> j.bid = b)
    <3> HIDE DEF next
    <3> QED BY <2>1, <2>4 DEF Carries
  <2> HIDE DEF row, next
  <2>6. ~Holds(Save(res, id, row), id, b)
    BY <2>3 DEF Holds, Save
  <2>7. ASSUME row.book \in DOMAIN book PROVE Holds(res, id, b) <=> j.bid = b
    <3>1. CASE b \in Concerned(id, row)
      <4>1. Current(res, id, j.rows[id])
        BY <2>1, <2>2, <2>7, <3>1, FreshRow
      <4> QED BY <2>2, <4>1 DEF Current, Holds
    <3>2. CASE b \notin Concerned(id, row)
      BY <2>3, <3>2 DEF Concerned, Holds
    <3> QED BY <3>1, <3>2
  <2> QED BY <2>1, <2>5, <2>6, <2>7, CopiesSaveRow DEF One
<1> QED BY <1>1, <1>2

LEMMA CopiesChange ==
    ASSUME Known, Known', CopiesAccounted, NEW w \in Workers,
           SaveExtension(w) \/ SavePatchedReservation(w) \/ MarkOverdue(w),
           NEW b \in DOMAIN book', ~Struck(b, Spoils)'
    PROVE  Balance(b)'
<1> DEFINE j == job[w]
<1>0. JobOK(j) /\ Sound(j) /\ \A r \in DOMAIN j.rows : j.rows[r] \in Row
  BY DEF Known, TypeOK, JobOK
<1>1. CASE SaveExtension(w)
  <2> DEFINE row == [Mem(w) EXCEPT !.due = @ + j.arg]
  <2>1. j.rid \in DOMAIN j.rows /\ SaveRow(w, j.rid, row, Idle) /\ j.op = "extend"
    BY <1>0, <1>1 DEF SaveExtension, JobOK
  <2>2. row.status = j.rows[j.rid].status
    BY <1>0, <2>1 DEF Mem, Row
  <2> HIDE DEF row
  <2> QED BY <2>1, <2>2, CopiesRewrite
<1>2. CASE SavePatchedReservation(w)
  <2> DEFINE row == [Mem(w) EXCEPT !.book = j.arg]
  <2>1. j.rid \in DOMAIN j.rows /\ SaveRow(w, j.rid, row, Idle) /\ j.op = "patch_reservation"
    BY <1>0, <1>2 DEF SavePatchedReservation, JobOK
  <2>2. row.status = j.rows[j.rid].status
    BY <1>0, <2>1 DEF Mem, Row
  <2> HIDE DEF row
  <2> QED BY <2>1, <2>2, CopiesRewrite
<1>3. CASE MarkOverdue(w)
  <2>1. PICK r \in DOMAIN j.rows :
          SaveRow(w, r, [j.rows[r] EXCEPT !.status = "OVERDUE"],
                  [j EXCEPT !.pc = "o_notify", !.rid = r])
    BY <1>3 DEF MarkOverdue
  <2> DEFINE row == [j.rows[r] EXCEPT !.status = "OVERDUE"]
             next == [j EXCEPT !.pc = "o_notify", !.rid = r]
  <2>2. j.op = "overdue"
    BY <1>0, <1>3 DEF MarkOverdue, JobOK
  <2>3. row.status = "OVERDUE" /\ j.rows[r].status = "ACTIVE"
    BY <1>0, <2>2 DEF Row, Sound
  <2>4. next.op = "overdue" /\ next.pc = "o_notify"
    <3>1. next = [pc |-> "o_notify", op |-> j.op, user |-> j.user, bid |-> j.bid,
                  rid |-> r, book |-> j.book, rows |-> j.rows, arg |-> j.arg]
      BY <1>0, MovePC DEF JobOK
    <3> QED BY <2>2, <3>1
  <2>5. SaveRow(w, r, row, next)
    BY <2>1
  <2> HIDE DEF row, next
  <2> QED BY <2>2, <2>3, <2>4, <2>5, CopiesRewrite
<1> QED BY <1>1, <1>2, <1>3

\* Every other statement leaves the copies where they are.
LEMMA RestCarries ==
    ASSUME Known, NEW w \in Workers,
           ReserveValidate(w) \/ Invalidate(w) \/ Emit(w) \/ NotifyOverdue(w), NEW b
    PROVE  Carries(job'[w], b) <=> Carries(job[w], b)
<1> DEFINE j == job[w]
<1>0. TypeOK /\ JobOK(j) /\ (job'[w] = Idle \/ (Continues(w) /\ Moves(j, job'[w])))
  BY JobStep DEF Known, TypeOK, Step
<1>2. CASE ReserveValidate(w) \/ Emit(w) \/ NotifyOverdue(w)
  <2>1. j.pc \in TailPCs \cup {"r_validate", "o_notify"}
    BY <1>2 DEF ReserveValidate, Emit, Tail, TailPCs, NotifyOverdue
  <2>2. ~Carries(j, b)
    BY <2>1 DEF Carries, TailPCs
  <2>3. ~Carries(job'[w], b)
    BY <1>0, <2>1, IdleCarries DEF Carries, Moves, TailPCs
  <2> QED BY <2>2, <2>3
<1>3. CASE Invalidate(w)
  <2>1. j.pc = "invalidate" /\ j.op \in {"reserve", "return"} /\ job'[w] # Idle
    <3>1. j.pc = "invalidate"
          /\ job'[w] = [j EXCEPT !.pc = IF j.op = "reserve" THEN "r_create" ELSE "confirm"]
      BY <1>0, <1>3, JobGoto DEF Invalidate
    <3>2. job'[w].pc # "idle"
      BY <1>0, <3>1, MovePC DEF JobOK
    <3> QED BY <1>0, <3>1, <3>2 DEF JobOK, Idle
  <2> QED BY <1>0, <2>1 DEF Carries, Moves, Continues
<1> QED BY <1>2, <1>3

LEMMA CopiesRest ==
    ASSUME Known, Known', CopiesAccounted, NEW w \in Workers,
           ReserveValidate(w) \/ Invalidate(w) \/ Emit(w) \/ NotifyOverdue(w),
           NEW b \in DOMAIN book', ~Struck(b, Spoils)'
    PROVE  Balance(b)'
<1>0. OthersWait(w) /\ mishaps \subseteq mishaps'
  BY OneWorker, JobStep DEF Known, Step
<1>1. UNCHANGED <<book, res, mislaid>>
  BY DEF ReserveValidate, Invalidate, Emit, NotifyOverdue, history
<1> QED BY <1>0, <1>1, RestCarries, CopiesQuiet

LEMMA CopiesStep ==
    ASSUME Known, Known', CopiesAccounted, NEW w \in Workers, Request(w) \/ Step(w) \/ Abort(w)
    PROVE  CopiesAccounted'
<1>1. ASSUME NEW b \in DOMAIN book', ~Struck(b, Spoils)' PROVE Balance(b)'
  <2>1. Abort(w) => Drop(w) /\ UNCHANGED <<book, res>>
    BY DEF Abort
  <2> QED BY <1>1, <2>1, CopiesDrop, CopiesRequest, CopiesShelf, CopiesLoan, CopiesChange,
             CopiesRest DEF Step
<1> QED BY <1>1 DEF CopiesAccounted, Balance, Placed, Spoils

\* No copy is lost sight of or made up, and so none is lent that the library does not
\* own, unless the book was struck by a save over an unseen change or a PATCH: with
\* every route, every overlap of handlers, crashes and broker failures
\* (commands.py:46-66 and 122-131).
THEOREM CopiesCounted == Spec => []CopiesAccounted
<1>1. Init => CopiesAccounted
  <2> SUFFICES ASSUME Init, NEW b \in Books
               PROVE  book[b].avail + Cardinality(Outstanding(b)) + Cardinality(InHand(b))
                        + mislaid[b] = book[b].total
    BY DEF CopiesAccounted, Init
  <2>1. Outstanding(b) = {} /\ InHand(b) = {}
    BY DEF Init, Outstanding, NoRows, InHand, Idle
  <2> QED BY <2>1, FS_EmptySet, ConstantsAssumption DEF Init
<1>2. Known /\ Known' /\ CopiesAccounted /\ [Next]_vars => CopiesAccounted'
  <2> SUFFICES ASSUME Known, Known', CopiesAccounted, [Next]_vars PROVE CopiesAccounted'
    OBVIOUS
  <2>1. CASE Tick \/ UNCHANGED vars
    <3>1. UNCHANGED <<book, res, job, mishaps, mislaid>>
      BY <2>1 DEF Tick, vars, history
    <3>2. \A b : Outstanding(b)' = Outstanding(b) /\ InHand(b)' = InHand(b)
      BY <3>1 DEF Outstanding, InHand
    <3> QED BY <3>1, <3>2 DEF CopiesAccounted, Struck
  <2> QED BY <2>1, CopiesStep DEF Next
<1> QED BY <1>1, <1>2, KnownAlways, PTL DEF Spec

\* The library never lends more copies of a book than it owns, unless the book was
\* struck: a book row was saved over a change that its writer had not seen, or
\* patched, or a loan of it saved so or moved (commands.py:32-34 and 50).
THEOREM NeverOverlends ==
    Spec => [](\A b \in DOMAIN book :
                 \/ book[b].avail + Cardinality(Outstanding(b)) <= book[b].total
                 \/ Struck(b, {"lost_update", "patched", "stale_row", "moved"}))
<1> DEFINE Bounded == \A b \in DOMAIN book :
                 \/ book[b].avail + Cardinality(Outstanding(b)) <= book[b].total
                 \/ Struck(b, {"lost_update", "patched", "stale_row", "moved"})
<1>1. Known /\ CopiesAccounted => Bounded
  BY Numbers DEF CopiesAccounted
<1> HIDE DEF Bounded
<1>2. Spec => []Bounded
  BY <1>1, KnownAlways, CopiesCounted, PTL
<1> QED BY <1>2 DEF Bounded

-----------------------------------------------------------------------------
(***************************************************************************)
(* Reservations in the making: there is an id left for each of them.       *)
(***************************************************************************)
Makes(j) == j.op = "reserve" /\ j.pc \in ReservePCs \cup {"invalidate"}

Asked == {v \in Workers : Makes(job[v])}

Counted == nextId + Cardinality(Asked) <= MaxReservations + 1

LEMMA AskedFinite ==
    ASSUME Known
    PROVE  /\ IsFiniteSet(Asked) /\ Cardinality(Asked) \in Nat /\ nextId \in Nat
           /\ IsFiniteSet({v \in Workers : job[v].op = "reserve"})
           /\ Cardinality(Asked) <= Cardinality({v \in Workers : job[v].op = "reserve"})
<1> DEFINE R == {v \in Workers : job[v].op = "reserve"}
<1>1. R \subseteq BusyWorkers /\ Asked \subseteq R
  BY DEF BusyWorkers, Busy, Asked, Makes, Known, TypeOK, JobOK, Idle
<1>2. nextId \in Nat
  BY DEF Known, TypeOK, Ids
<1> HIDE DEF R
<1>3. IsFiniteSet(R)
  BY <1>1, FS_Subset DEF Known
<1>4. IsFiniteSet(Asked) /\ Cardinality(Asked) <= Cardinality(R)
  BY <1>1, <1>3, FS_Subset
<1>5. Cardinality(Asked) \in Nat
  BY <1>4, FS_CardinalityType
<1> QED BY <1>2, <1>3, <1>4, <1>5 DEF R

LEMMA AskedChange ==
    ASSUME Known, NEW w \in Workers, OthersWait(w)
    PROVE  /\ Cardinality(Asked)' \in Nat
           /\ Cardinality(Asked)' = Cardinality(Asked) + One(Makes(job'[w])) - One(Makes(job[w]))
<1>1. /\ \A x : x # w => (x \in Asked <=> x \in Asked')
      /\ (w \in Asked <=> Makes(job[w])) /\ (w \in Asked' <=> Makes(job'[w]))
  BY DEF Asked, Makes, OthersWait
<1>2. /\ Cardinality(Asked') \in Nat
      /\ Cardinality(Asked') = Cardinality(Asked) + One(w \in Asked') - One(w \in Asked)
  BY <1>1, AskedFinite, OneElement
<1> QED BY <1>1, <1>2 DEF One

LEMMA CountedStep ==
    ASSUME Known, Counted, NEW w \in Workers, Request(w) \/ Step(w) \/ Abort(w)
    PROVE  Counted'
<1>0. TypeOK /\ JobOK(job[w]) /\ OthersWait(w) /\ MaxReservations \in Nat
  BY JobNext, ConstantsAssumption DEF Known, TypeOK
<1>1. CASE CreateReservation(w)
  <2>1. Makes(job[w]) /\ nextId' = nextId + 1 /\ job[w].pc = "r_create"
    BY <1>0, <1>1 DEF CreateReservation, Makes, JobOK, ReservePCs
  <2>2. ~Makes(job'[w])
    <3>1. job'[w] = Idle \/ Moves(job[w], job'[w])
      BY <1>0, <1>1, JobStep DEF Step
    <3> QED BY <2>1, <3>1 DEF Moves, Makes, Idle, ReservePCs
  <2> QED BY <1>0, <2>1, <2>2, AskedChange, AskedFinite DEF Counted, One
<1>2. CASE nextId' = nextId /\ (Makes(job'[w]) => Makes(job[w]))
  BY <1>0, <1>2, AskedChange, AskedFinite DEF Counted, One
<1>3. CASE Starts(w) /\ Makes(job'[w])
  <2>1. nextId' = nextId /\ ~Busy(w) /\ job'[w].op = "reserve" /\ job'[w] # Idle
    BY <1>3 DEF Starts, Makes, Idle
  <2>2. ~Step(w) /\ ~Abort(w) /\ ~UNCHANGED job
    <3>1. ~Step(w) /\ ~Abort(w)
      BY <1>0, <2>1, JobStep DEF Abort
    <3>2. ~UNCHANGED job
      BY <1>3 DEF Starts, Busy
    <3> QED BY <3>1, <3>2
  <2>3. PICK u \in Users, b \in Books : Reserve(w, u, b)
    BY <1>0, <2>1, <2>2, IsReserve
  <2>4. nextId + Cardinality({v \in Workers : job[v].op = "reserve"}) <= MaxReservations
    BY <2>3 DEF Reserve
  <2>5. nextId + Cardinality(Asked) <= MaxReservations
    <3>1. Cardinality({v \in Workers : job[v].op = "reserve"}) \in Nat
      BY AskedFinite, FS_CardinalityType
    <3> QED BY <1>0, <2>4, <3>1, AskedFinite
  <2> QED BY <1>0, <2>1, <2>5, AskedChange, AskedFinite DEF Counted, One
<1>4. ~CreateReservation(w) => nextId' = nextId
  <2>1. Request(w) => nextId' = nextId
    BY DEF Request, Reserve, Return, Extend, Load, CheckOverdue, PatchReservation,
       DeleteReservation, PatchBook, DeleteBook
  <2>2. Step(w) /\ ~CreateReservation(w) => nextId' = nextId
    BY DEF Step, ReserveValidate, TakeCopy, Invalidate, Emit, CloseReservation, ShelveCopy,
       SaveExtension, MarkOverdue, NotifyOverdue, SavePatchedReservation, SavePatchedBook,
       SaveBook
  <2> QED BY <2>1, <2>2 DEF Abort
<1>5. Makes(job'[w]) => Makes(job[w]) \/ Starts(w)
  <2>1. CASE Continues(w) /\ Moves(job[w], job'[w]) /\ Makes(job'[w])
    <3>1. job[w].op = "reserve" /\ job'[w].pc \notin TailPCs
      BY <2>1 DEF Continues, Makes, ReservePCs, TailPCs
    <3>2. job[w].pc \notin {"idle", "e_save", "p_save", "b_save", "r_create"} \cup TailPCs
      BY <2>1, <3>1 DEF Moves, Continues, Busy, TailPCs
    <3>3. job[w].pc \notin {"t_close", "t_shelve", "o_save", "o_notify"}
      BY <1>0, <3>1 DEF JobOK
    <3>4. job[w].pc \in PCs
      BY <1>0 DEF JobOK
    <3> QED BY <3>1, <3>2, <3>3, <3>4 DEF PCs, ReservePCs, Makes
  <2>2. ~Makes(Idle)
    BY DEF Makes, Idle
  <2> QED BY <1>0, <2>1, <2>2, JobNext
<1> QED BY <1>1, <1>2, <1>3, <1>4, <1>5

-----------------------------------------------------------------------------
(***************************************************************************)
(* The refinement of Lending, until the first mishap.                      *)
(***************************************************************************)
AllBooks == Undisturbed => DOMAIN book = Books

LEMMA Calm ==
    ASSUME Undisturbed', mishaps \subseteq mishaps'
    PROVE  /\ Undisturbed
           /\ \A b : ~Struck(b, Spoils)
           /\ \A b, u : ~AskTwice(u, b)
<1>1. Undisturbed
  BY DEF Undisturbed
<1>2. \A b : ~Struck(b, Spoils)
  BY <1>1 DEF Undisturbed, Struck, Spoils
<1>3. ASSUME NEW u, NEW b, <<"twice", b, u>> \in mishaps PROVE FALSE
  <2> DEFINE m == <<"twice", b, u>>
  <2>1. m \in mishaps /\ m[1] = "twice"
    BY <1>3
  <2> HIDE DEF m
  <2> QED BY <1>1, <2>1 DEF Undisturbed
<1> QED BY <1>1, <1>2, <1>3 DEF AskTwice

LEMMA CalmNow == ASSUME Undisturbed', NEW b PROVE ~Struck(b, Spoils)'
  BY DEF Undisturbed, Struck, Spoils

LEMMA NothingDeleted ==
    ASSUME Undisturbed', NEW b, NEW r PROVE <<"deleted", b, r>> \notin mishaps'
<1> DEFINE m == <<"deleted", b, r>>
<1>1. m[1] = "deleted"
  OBVIOUS
<1> HIDE DEF m
<1>2. m \notin mishaps'
  BY <1>1 DEF Undisturbed
<1> QED BY <1>2 DEF m

LEMMA AllBooksStep ==
    ASSUME Known, AllBooks, NEW w \in Workers, Request(w) \/ Step(w) \/ Abort(w)
    PROVE  AllBooks'
<1> SUFFICES ASSUME Undisturbed' PROVE DOMAIN book' = Books
  BY DEF AllBooks
<1>0. JobOK(job[w]) /\ DOMAIN book = Books
  BY OneWorker, Calm DEF Known, TypeOK, AllBooks
<1>1. ASSUME NEW b \in Books PROVE ~DeleteBook(w, b)
  BY NothingDeleted DEF DeleteBook
<1>2. CASE Request(w)
  BY <1>0, <1>1, <1>2 DEF Request, Reserve, Return, Extend, Load, CheckOverdue, PatchReservation,
     DeleteReservation, PatchBook
<1>3. CASE TakeCopy(w) \/ ShelveCopy(w) \/ SavePatchedBook(w)
  <2>1. job[w].bid \in Books
    BY <1>0, <1>3 DEF TakeCopy, ShelveCopy, SavePatchedBook, JobOK, ReservePCs
  <2>2. UNCHANGED book \/ \E row : book' = Save(book, job[w].bid, row)
    BY <1>3 DEF TakeCopy, ShelveCopy, SavePatchedBook, SaveBook
  <2> QED BY <1>0, <2>1, <2>2 DEF Save
<1>4. CASE \/ ReserveValidate(w) \/ Invalidate(w) \/ CreateReservation(w) \/ Emit(w)
           \/ CloseReservation(w) \/ SaveExtension(w) \/ MarkOverdue(w) \/ NotifyOverdue(w)
           \/ SavePatchedReservation(w) \/ Abort(w)
  BY <1>0, <1>4 DEF ReserveValidate, Invalidate, CreateReservation, Emit, CloseReservation,
     SaveExtension, MarkOverdue, NotifyOverdue, SavePatchedReservation, SaveRow, Abort
<1> QED BY <1>2, <1>3, <1>4 DEF Step

\* What a step does to the shelf, seen from the library.
LEMMA ShelfChange ==
    ASSUME Known, DOMAIN book = Books, NEW w \in Workers, OthersWait(w), UNCHANGED book,
           NEW b \in Books
    PROVE  /\ OnShelf(b) \in Nat
           /\ OnShelf(b)' = OnShelf(b) + One(Carries(job'[w], b)) - One(Carries(job[w], b))
           /\ Carries(job[w], b) => OnShelf(b) > 0
<1>1. book[b].avail \in Nat /\ Cardinality(InHand(b)) \in Nat
  BY Numbers
<1>2. Carries(job[w], b) => Cardinality(InHand(b)) > 0
  <2>1. ASSUME Cardinality(InHand(b)) = 0 PROVE InHand(b) = {}
    BY <2>1, Finite, FS_EmptySet
  <2> QED BY <1>1, <2>1 DEF InHand, Carries
<1>3. Cardinality(InHand(b))' = Cardinality(InHand(b)) + One(Carries(job'[w], b))
                                - One(Carries(job[w], b))
  BY HandsChange
<1> QED BY <1>1, <1>2, <1>3 DEF OnShelf, One

ShelfGains(b, d) == \A c \in Books : OnShelf(c)' = IF c = b THEN OnShelf(c) + d ELSE OnShelf(c)

LEMMA SeenShelf ==
    ASSUME NEW b \in Books, NEW d, ShelfGains(b, d)
    PROVE  Shelf' = [Shelf EXCEPT ![b] = @ + d]
  BY DEF Shelf, ShelfGains

LoanOf(row) == [user |-> row.user, book |-> row.book, state |-> row.status]

LEMMA SeenLoans ==
    ASSUME NEW r, NEW row, res' = Save(res, r, row)
    PROVE  Loans' = [q \in DOMAIN Loans \cup {r} |-> IF q = r THEN LoanOf(row) ELSE Loans[q]]
  BY DEF Loans, Save, LoanOf

LEMMA LibStays ==
    ASSUME \A b \in Books : OnShelf(b)' = OnShelf(b), Loans' = Loans
    PROVE  UNCHANGED L!vars
  BY DEF Shelf, L!vars

LEMMA LibDrop ==
    ASSUME Known, DOMAIN book = Books, NEW w \in Workers, Drop(w), UNCHANGED <<book, res>>
    PROVE  [L!Next]_(L!vars)
<1>0. OthersWait(w) /\ job'[w] = Idle /\ Loans' = Loans
  BY JobFinish DEF Drop, Known, Loans
<1>1. CASE \E b \in Books : Carries(job[w], b)
  <2>1. PICK b \in Books : Carries(job[w], b)
    BY <1>1
  <2>2. \A c \in Books : c # b => ~Carries(job[w], c)
    BY <2>1 DEF Carries
  <2>3. ShelfGains(b, -1) /\ OnShelf(b) > 0 /\ OnShelf(b) \in Nat
    BY <1>0, <2>1, <2>2, ShelfChange, IdleCarries DEF ShelfGains, One
  <2>4. Shelf' = [Shelf EXCEPT ![b] = @ - 1] /\ Shelf[b] > 0
    <3>1. Shelf' = [Shelf EXCEPT ![b] = @ + (-1)]
      BY <2>3, SeenShelf
    <3> QED BY <2>3, <3>1 DEF Shelf
  <2> QED BY <1>0, <2>4 DEF L!Next, L!Mislay
<1>2. CASE ~\E b \in Books : Carries(job[w], b)
  BY <1>0, <1>2, ShelfChange, IdleCarries, LibStays DEF One
<1> QED BY <1>1, <1>2

LEMMA LibQuiet ==
    ASSUME Known, DOMAIN book = Books, NEW w \in Workers, OthersWait(w), UNCHANGED <<book, res>>,
           \A b \in Books : Carries(job'[w], b) <=> Carries(job[w], b)
    PROVE  UNCHANGED L!vars
<1>1. Loans' = Loans
  BY DEF Loans
<1> QED BY <1>1, ShelfChange, LibStays DEF One

LEMMA LibShelf ==
    ASSUME Known, Known', DOMAIN book = Books, DOMAIN book' = Books, Undisturbed',
           NEW w \in Workers, TakeCopy(w) \/ ShelveCopy(w) \/ SavePatchedBook(w)
    PROVE  [L!Next]_(L!vars)
<1>1. CASE Drop(w) /\ UNCHANGED <<book, res>>
  BY <1>1, LibDrop
<1>2. CASE ~(Drop(w) /\ UNCHANGED <<book, res>>)
  <2>1. ASSUME NEW b \in Books PROVE ShelfKept(b)
    BY <1>2, CalmNow, ShelfStep
  <2>2. CASE Books = {}
    BY <2>2, LibStays DEF Loans, TakeCopy, ShelveCopy, SavePatchedBook, SaveBook
  <2>3. CASE Books # {}
    <3>1. UNCHANGED res
      BY <2>1, <2>3 DEF ShelfKept
    <3>2. Loans' = Loans
      BY <3>1 DEF Loans
    <3> QED BY <2>1, <3>2, LibStays DEF ShelfKept
  <2> QED BY <2>2, <2>3
<1> QED BY <1>1, <1>2

LEMMA LibCreate ==
    ASSUME Known, ActiveInv, Counted, DOMAIN book = Books, Undisturbed', NEW w \in Workers,
           CreateReservation(w)
    PROVE  [L!Next]_(L!vars)
<1> DEFINE j == job[w]
           row == [user |-> j.user, book |-> j.bid, status |-> "ACTIVE",
                   due |-> now + LoanDays, returned_at |-> "null"]
           next == [j EXCEPT !.pc = "confirm", !.rid = nextId]
<1>0. TypeOK /\ JobOK(j) /\ SaveRow(w, nextId, row, next) /\ j.pc = "r_create" /\ j.op = "reserve"
  BY DEF Known, TypeOK, CreateReservation, JobOK, ReservePCs
<1>a. UNCHANGED book
  BY DEF CreateReservation, SaveRow
<1>1. CASE Drop(w) /\ UNCHANGED res
  BY <1>a, <1>1, LibDrop
<1>2. CASE res' = Save(res, nextId, row) /\ job' = [job EXCEPT ![w] = next]
  <2>1. PICK u \in Users, b \in Books, r \in {nextId} : u = j.user /\ b = j.bid /\ r = nextId
    BY <1>0 DEF JobOK, ReservePCs
  <2>2. OthersWait(w) /\ job'[w] = next
    BY <1>0, <1>2 DEF TypeOK, OthersWait
  <2>3. next.pc = "confirm"
    <3>1. next = [pc |-> "confirm", op |-> j.op, user |-> j.user, bid |-> j.bid,
                  rid |-> nextId, book |-> j.book, rows |-> j.rows, arg |-> j.arg]
      <4>1. j = [pc |-> j.pc, op |-> j.op, user |-> j.user, bid |-> j.bid,
                 rid |-> j.rid, book |-> j.book, rows |-> j.rows, arg |-> j.arg]
        BY <1>0 DEF JobOK
      <4> QED BY <4>1, MovePC
    <3> QED BY <3>1
  <2>4. Carries(j, b) /\ \A c \in Books : ~Carries(next, c) /\ (c # b => ~Carries(j, c))
    <3> HIDE DEF next
    <3> QED BY <1>0, <2>1, <2>3 DEF Carries
  <2>5. ShelfGains(b, -1) /\ OnShelf(b) > 0 /\ OnShelf(b) \in Nat
    <3> HIDE DEF next
    <3> QED BY <1>a, <2>2, <2>4, ShelfChange DEF ShelfGains, One
  <2>6. Shelf' = [Shelf EXCEPT ![b] = @ - 1] /\ Shelf[b] > 0
    <3>1. Shelf' = [Shelf EXCEPT ![b] = @ + (-1)]
      BY <2>5, SeenShelf
    <3> QED BY <2>5, <3>1 DEF Shelf
  <2>7. ~ \E k \in DOMAIN Loans : Loans[k] = [user |-> u, book |-> b, state |-> "ACTIVE"]
    <3>1. mishaps \subseteq mishaps'
      BY <1>0, OneWorker DEF Step
    <3>2. ~AskTwice(u, b) /\ ~Struck(b, Spoils)
      BY <3>1, Calm
    <3>3. ~Struck(b, {"stale_row", "moved"})
      BY <3>2 DEF Struck, Spoils
    <3>4. Free(u, b)
      BY <1>0, <2>1 DEF ActiveInv, Validated
    <3> QED BY <3>2, <3>3, <3>4 DEF Free, Loans
  <2>8. r \in 1 .. MaxReservations /\ r \notin DOMAIN Loans
    <3>1. Makes(j) /\ w \in Asked
      BY <1>0 DEF Makes, Asked, ReservePCs
    <3>2. Cardinality(Asked) # 0
      BY <3>1, AskedFinite, FS_EmptySet
    <3>3. nextId \in Ids /\ MaxReservations \in Nat
      BY <1>0, ConstantsAssumption DEF TypeOK
    <3>4. nextId \notin DOMAIN res
      BY <3>3 DEF Known, Ids
    <3> QED BY <2>1, <3>2, <3>3, <3>4, AskedFinite DEF Counted, Ids, Loans
  <2>9. Loans' = [k \in DOMAIN Loans \cup {r} |->
                    IF k = r THEN [user |-> u, book |-> b, state |-> "ACTIVE"] ELSE Loans[k]]
    <3>1. PICK loan : loan = [user |-> u, book |-> b, state |-> "ACTIVE"]
      OBVIOUS
    <3>2. loan = LoanOf(row)
      BY <2>1, <3>1 DEF LoanOf
    <3>3. res' = Save(res, r, row)
      BY <1>2, <2>1
    <3> HIDE DEF row
    <3>4. Loans' = [k \in DOMAIN Loans \cup {r} |-> IF k = r THEN LoanOf(row) ELSE Loans[k]]
      BY <3>3, SeenLoans
    <3> QED BY <3>1, <3>2, <3>4
  <2> QED BY <2>6, <2>7, <2>8, <2>9 DEF L!Next, L!Lend
<1> QED BY <1>0, <1>1, <1>2 DEF SaveRow

\* What a handler that saves a row has seen of it, when nothing was saved over.
LEMMA CalmRow ==
    ASSUME Undisturbed', NEW w \in Workers, NEW id, NEW row, NEW next,
           SaveRow(w, id, row, next), row.book \in DOMAIN book, id \in DOMAIN job[w].rows
    PROVE  /\ id \in DOMAIN res /\ res[id] = job[w].rows[id]
           /\ res[id].book = row.book
<1>1. PICK b : b = row.book
  OBVIOUS
<1>2. b \in Concerned(id, row)
  BY <1>1 DEF Concerned
<1>3. ~Struck(b, Spoils)'
  BY CalmNow
<1> QED BY <1>2, <1>3, FreshRow DEF Current

LEMMA LibClose ==
    ASSUME Known, DOMAIN book = Books, Undisturbed', NEW w \in Workers, CloseReservation(w)
    PROVE  [L!Next]_(L!vars)
<1> DEFINE j == job[w]
           row == [Mem(w) EXCEPT !.status = "RETURNED", !.returned_at = "set"]
           next == [j EXCEPT !.pc = "t_shelve"]
<1>0. TypeOK /\ JobOK(j) /\ Sound(j) /\ SaveRow(w, j.rid, row, next) /\ j.pc = "t_close"
      /\ j.op = "return" /\ UNCHANGED book
  BY DEF Known, TypeOK, CloseReservation, JobOK, SaveRow
<1>1. CASE Drop(w) /\ UNCHANGED res
  BY <1>0, <1>1, LibDrop
<1>2. CASE /\ row.book \in DOMAIN book /\ res' = Save(res, j.rid, row)
           /\ job' = [job EXCEPT ![w] = next]
  <2>1. PICK b \in Books, r \in {j.rid} : b = j.bid /\ r = j.rid
    BY <1>0 DEF JobOK
  <2>2. r \in DOMAIN j.rows /\ j.rows[r].book = b /\ j.rows[r].status # "RETURNED"
        /\ Mem(w) = j.rows[r] /\ j.rows[r] \in Row
    BY <1>0, <2>1 DEF Sound, Mem, JobOK
  <2>3. r \in DOMAIN res /\ res[r] = j.rows[r]
    <3> HIDE DEF row, next
    <3> QED BY <1>0, <1>2, <2>1, <2>2, CalmRow
  <2>4. OthersWait(w) /\ job'[w] = next
    BY <1>0, <1>2 DEF TypeOK, OthersWait
  <2>5. next.pc = "t_shelve" /\ next.bid = j.bid
    <3>1. next = [pc |-> "t_shelve", op |-> j.op, user |-> j.user, bid |-> j.bid,
                  rid |-> j.rid, book |-> j.book, rows |-> j.rows, arg |-> j.arg]
      BY <1>0, MovePC DEF JobOK
    <3> QED BY <3>1
  <2>6. Carries(next, b) /\ \A c \in Books : ~Carries(j, c) /\ (c # b => ~Carries(next, c))
    <3> HIDE DEF next
    <3> QED BY <1>0, <2>1, <2>5 DEF Carries
  <2>7. ShelfGains(b, 1)
    <3> HIDE DEF next
    <3> QED BY <1>0, <2>4, <2>6, ShelfChange DEF ShelfGains, One
  <2>8. /\ DOMAIN Loans = DOMAIN res
        /\ Loans[r] = [user |-> res[r].user, book |-> b, state |-> res[r].status]
    BY <2>2, <2>3 DEF Loans
  <2>9. Shelf' = [Shelf EXCEPT ![Loans[r].book] = @ + 1]
    BY <2>7, <2>8, SeenShelf
  <2>10. Loans' = [Loans EXCEPT ![r].state = "RETURNED"]
    <3>1. PICK loan : loan = [Loans[r] EXCEPT !.state = "RETURNED"]
      OBVIOUS
    <3>2. row.user = res[r].user /\ row.book = b /\ row.status = "RETURNED"
      BY <2>2, <2>3 DEF Row
    <3>3. res' = Save(res, r, row)
      BY <1>2, <2>1
    <3> HIDE DEF row
    <3>4. loan = LoanOf(row)
      BY <2>8, <3>1, <3>2 DEF LoanOf
    <3>5. Loans' = [q \in DOMAIN Loans \cup {r} |-> IF q = r THEN LoanOf(row) ELSE Loans[q]]
      BY <3>3, SeenLoans
    <3> QED BY <2>3, <2>8, <3>1, <3>4, <3>5
  <2>11. Loans[r].state # "RETURNED"
    BY <2>2, <2>3, <2>8
  <2>12. L!GiveBack(r)
    BY <2>9, <2>10, <2>11 DEF L!GiveBack
  <2>13. r \in DOMAIN Loans
    BY <2>3, <2>8
  <2> QED BY <2>12, <2>13 DEF L!Next
<1> QED BY <1>0, <1>1, <1>2 DEF SaveRow

\* A row written over by a handler that has seen it: its loan falls overdue, or the
\* library sees nothing.
LEMMA LibRewrite ==
    ASSUME Known, DOMAIN book = Books, Undisturbed', NEW w \in Workers,
           NEW id \in DOMAIN job[w].rows, NEW row, NEW next, SaveRow(w, id, row, next),
           row.user = job[w].rows[id].user,
           \/ row.status = job[w].rows[id].status
           \/ job[w].rows[id].status = "ACTIVE" /\ row.status = "OVERDUE",
           job[w].op \in {"extend", "overdue", "patch_reservation"},
           next = Idle \/ (next.op = "overdue" /\ next.pc = "o_notify")
    PROVE  [L!Next]_(L!vars)
<1>0. TypeOK /\ JobOK(job[w]) /\ UNCHANGED book
  BY DEF Known, TypeOK, SaveRow
<1>1. CASE Drop(w) /\ UNCHANGED res
  BY <1>0, <1>1, LibDrop
<1>2. CASE /\ row.book \in DOMAIN book /\ res' = Save(res, id, row)
           /\ job' = [job EXCEPT ![w] = next]
  <2>1. id \in DOMAIN res /\ res[id] = job[w].rows[id] /\ res[id].book = row.book
    BY <1>2, CalmRow
  <2>2. OthersWait(w) /\ job'[w] = next
    BY <1>0, <1>2 DEF TypeOK, OthersWait
  <2>3. \A c \in Books : ~Carries(job[w], c) /\ ~Carries(next, c)
    BY <1>0, IdleCarries DEF Carries, JobOK
  <2>4. \A c \in Books : OnShelf(c)' = OnShelf(c)
    BY <1>0, <2>2, <2>3, ShelfChange DEF One
  <2>5. Loans' = [q \in DOMAIN Loans \cup {id} |-> IF q = id THEN LoanOf(row) ELSE Loans[q]]
    <3>1. res' = Save(res, id, row)
      BY <1>2
    <3> QED BY <3>1 DEF Loans, Save, LoanOf
  <2>6. /\ DOMAIN Loans = DOMAIN res
        /\ Loans[id] = [user |-> row.user, book |-> row.book, state |-> res[id].status]
    BY <2>1 DEF Loans
  <2>l. PICK loan : loan = LoanOf(row)
    OBVIOUS
  <2>7. CASE row.status = res[id].status
    <3>1. loan = Loans[id]
      BY <2>6, <2>7, <2>l DEF LoanOf
    <3>2. Loans' = Loans
      BY <2>1, <2>5, <2>6, <2>l, <3>1 DEF Loans
    <3> QED BY <2>4, <3>2, LibStays
  <2>8. CASE res[id].status = "ACTIVE" /\ row.status = "OVERDUE"
    <3>1. loan = [Loans[id] EXCEPT !.state = "OVERDUE"]
      BY <2>6, <2>8, <2>l DEF LoanOf
    <3>2. Loans' = [Loans EXCEPT ![id].state = "OVERDUE"]
      BY <2>1, <2>5, <2>6, <2>l, <3>1
    <3>3. Loans[id].state = "ACTIVE" /\ id \in DOMAIN Loans
      BY <2>1, <2>6, <2>8
    <3>4. Shelf' = Shelf
      BY <2>4 DEF Shelf
    <3> QED BY <3>2, <3>3, <3>4 DEF L!Next, L!FallOverdue
  <2> QED BY <2>1, <2>7, <2>8
<1> QED BY <1>1, <1>2 DEF SaveRow

LEMMA LibChange ==
    ASSUME Known, DOMAIN book = Books, Undisturbed', NEW w \in Workers,
           SaveExtension(w) \/ SavePatchedReservation(w) \/ MarkOverdue(w)
    PROVE  [L!Next]_(L!vars)
<1> DEFINE j == job[w]
<1>0. JobOK(j) /\ Sound(j) /\ \A r \in DOMAIN j.rows : j.rows[r] \in Row
  BY DEF Known, TypeOK, JobOK
<1>1. CASE SaveExtension(w)
  <2> DEFINE row == [Mem(w) EXCEPT !.due = @ + j.arg]
  <2>1. j.rid \in DOMAIN j.rows /\ SaveRow(w, j.rid, row, Idle) /\ j.op = "extend"
    BY <1>0, <1>1 DEF SaveExtension, JobOK
  <2>2. row.status = j.rows[j.rid].status /\ row.user = j.rows[j.rid].user
    BY <1>0, <2>1 DEF Mem, Row
  <2> HIDE DEF row
  <2> QED BY <2>1, <2>2, LibRewrite
<1>2. CASE SavePatchedReservation(w)
  <2> DEFINE row == [Mem(w) EXCEPT !.book = j.arg]
  <2>1. j.rid \in DOMAIN j.rows /\ SaveRow(w, j.rid, row, Idle) /\ j.op = "patch_reservation"
    BY <1>0, <1>2 DEF SavePatchedReservation, JobOK
  <2>2. row.status = j.rows[j.rid].status /\ row.user = j.rows[j.rid].user
    BY <1>0, <2>1 DEF Mem, Row
  <2> HIDE DEF row
  <2> QED BY <2>1, <2>2, LibRewrite
<1>3. CASE MarkOverdue(w)
  <2>1. PICK r \in DOMAIN j.rows :
          SaveRow(w, r, [j.rows[r] EXCEPT !.status = "OVERDUE"],
                  [j EXCEPT !.pc = "o_notify", !.rid = r])
    BY <1>3 DEF MarkOverdue
  <2> DEFINE row == [j.rows[r] EXCEPT !.status = "OVERDUE"]
             next == [j EXCEPT !.pc = "o_notify", !.rid = r]
  <2>2. j.op = "overdue"
    BY <1>0, <1>3 DEF MarkOverdue, JobOK
  <2>3. row.status = "OVERDUE" /\ j.rows[r].status = "ACTIVE" /\ row.user = j.rows[r].user
    BY <1>0, <2>2 DEF Row, Sound
  <2>4. next.op = "overdue" /\ next.pc = "o_notify"
    <3>1. next = [pc |-> "o_notify", op |-> j.op, user |-> j.user, bid |-> j.bid,
                  rid |-> r, book |-> j.book, rows |-> j.rows, arg |-> j.arg]
      BY <1>0, MovePC DEF JobOK
    <3> QED BY <2>2, <3>1
  <2>5. SaveRow(w, r, row, next)
    BY <2>1
  <2> HIDE DEF row, next
  <2> QED BY <2>2, <2>3, <2>4, <2>5, LibRewrite
<1> QED BY <1>1, <1>2, <1>3

LEMMA LibRest ==
    ASSUME Known, DOMAIN book = Books, Undisturbed', NEW w \in Workers,
           \/ Request(w) \/ Abort(w)
           \/ ReserveValidate(w) \/ Invalidate(w) \/ Emit(w) \/ NotifyOverdue(w)
    PROVE  [L!Next]_(L!vars)
<1>0. TypeOK /\ OthersWait(w)
  BY JobNext DEF Known, Step
<1>1. CASE Abort(w)
  BY <1>1, LibDrop DEF Abort
<1>2. CASE ReserveValidate(w) \/ Invalidate(w) \/ Emit(w) \/ NotifyOverdue(w)
  <2>1. UNCHANGED <<book, res>>
    BY <1>2 DEF ReserveValidate, Invalidate, Emit, NotifyOverdue
  <2>2. \A b \in Books : Carries(job'[w], b) <=> Carries(job[w], b)
    BY <1>2, RestCarries
  <2> QED BY <1>0, <2>1, <2>2, LibQuiet
<1>3. CASE Request(w)
  <2>1. CASE UNCHANGED <<book, res>>
    <3>1. CASE Starts(w)
      <4>1. \A b \in Books : ~Carries(job'[w], b) /\ ~Carries(job[w], b)
        BY <1>0, <3>1 DEF Starts, Carries, Busy
      <4> QED BY <1>0, <2>1, <4>1, LibQuiet
    <3>2. CASE UNCHANGED job
      BY <1>0, <2>1, <3>2, LibQuiet
    <3> QED BY <1>0, <1>3, <3>1, <3>2, JobRequest
  <2>2. CASE ~UNCHANGED <<book, res>>
    <3>1. ASSUME NEW u \in Users, NEW r \in DOMAIN res, DeleteReservation(w, u, r) PROVE FALSE
      <4>1. <<"deleted", res[r].book, r>> \in mishaps'
        BY <3>1 DEF DeleteReservation
      <4> QED BY <4>1, NothingDeleted
    <3>2. ASSUME NEW b \in Books, DeleteBook(w, b) PROVE FALSE
      <4>1. <<"deleted", b, None>> \in mishaps'
        BY <3>2 DEF DeleteBook
      <4> QED BY <4>1, NothingDeleted
    <3> QED BY <1>3, <2>2, <3>1, <3>2 DEF Request, Reserve, Return, Extend, Load, CheckOverdue,
               PatchReservation, PatchBook
  <2> QED BY <2>1, <2>2
<1> QED BY <1>1, <1>2, <1>3

LEMMA LendingInit == ASSUME Init PROVE L!Init
<1>1. ASSUME NEW b \in Books PROVE OnShelf(b) = Copies[b]
  <2>1. InHand(b) = {} /\ book[b].avail = Copies[b]
    BY DEF Init, InHand, Idle
  <2> QED BY <2>1, FS_EmptySet, ConstantsAssumption DEF OnShelf
<1>2. Shelf = Copies
  BY <1>1, ConstantsAssumption DEF Shelf
<1>3. Loans = [l \in {} |-> Shelf]
  BY DEF Init, Loans, NoRows
<1> QED BY <1>2, <1>3 DEF L!Init

LibInv == Known /\ ActiveInv /\ Counted /\ AllBooks

LEMMA LibStep ==
    ASSUME LibInv, LibInv', Undisturbed', NEW w \in Workers, Request(w) \/ Step(w) \/ Abort(w)
    PROVE  [L!Next]_(L!vars)
<1>1. DOMAIN book = Books /\ DOMAIN book' = Books
  BY OneWorker, Calm DEF LibInv, AllBooks, Known
<1> QED BY <1>1, LibShelf, LibCreate, LibClose, LibChange, LibRest DEF LibInv, Step

LEMMA LibAlways == Spec => []LibInv
<1>1. Init => LibInv
  <2> SUFFICES ASSUME Init PROVE LibInv
    OBVIOUS
  <2>1. ActiveInv
    BY DEF Init, ActiveInv, AskInv, Validated, OneActivePerReader, Idle, NoRows
  <2>2. Asked = {} /\ nextId = 1 /\ DOMAIN book = Books
    BY DEF Init, Asked, Makes, Idle
  <2> QED BY <2>1, <2>2, KnownInit, FS_EmptySet, ConstantsAssumption DEF LibInv, Counted, AllBooks
<1>2. LibInv /\ [Next]_vars => LibInv'
  <2> SUFFICES ASSUME LibInv, [Next]_vars PROVE LibInv'
    OBVIOUS
  <2>1. Known'
    BY KnownNext DEF LibInv
  <2>2. CASE Tick \/ UNCHANGED vars
    <3>1. UNCHANGED <<book, res, nextId, job, mishaps>>
      BY <2>2 DEF Tick, vars, history
    <3>2. ActiveInv'
      BY <3>1 DEF LibInv, ActiveInv, AskInv, AskTwice, Validated, Free, Struck, OneActivePerReader
    <3>3. Asked' = Asked
      BY <3>1 DEF Asked
    <3> QED BY <2>1, <3>1, <3>2, <3>3 DEF LibInv, Counted, AllBooks, Undisturbed
  <2> QED BY <2>1, <2>2, ActiveStep, CountedStep, AllBooksStep DEF LibInv, Next
<1> QED BY <1>1, <1>2, PTL DEF Spec

\* Until the first mishap the service is a library whose operations are atomic: each
\* of its statements is one step of Lending or none, and a handler that dies half-way
\* at worst mislays a copy: with every route, overlap, crash and broker failure
\* (commands.py:46-88 and 122-161, tasks.py:48-73).
THEOREM IsALibrary == Spec => ImplementsLending
<1>1. Init => L!Init
  BY LendingInit
<1>2. LibInv /\ LibInv' /\ [Next]_vars => [Undisturbed' => [L!Next]_(L!vars)]_vars
  <2> SUFFICES ASSUME LibInv, LibInv', Next, Undisturbed' PROVE [L!Next]_(L!vars)
    OBVIOUS
  <2>1. CASE Tick
    <3>1. UNCHANGED <<book, res, job>>
      BY <2>1 DEF Tick
    <3>2. \A b \in Books : OnShelf(b)' = OnShelf(b)
      BY <3>1 DEF OnShelf, InHand
    <3>3. Loans' = Loans
      BY <3>1 DEF Loans
    <3> QED BY <3>2, <3>3, LibStays
  <2> QED BY <2>1, LibStep DEF Next
<1> QED BY <1>1, <1>2, LibAlways, PTL DEF Spec, ImplementsLending


=============================================================================
