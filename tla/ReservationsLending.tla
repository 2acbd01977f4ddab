------------------------- MODULE ReservationsLending -------------------------
(***************************************************************************)
(* The reservation service seen as the lending library of Lending.         *)
(***************************************************************************)
EXTENDS Reservations

\* A copy on its way between two statements of a command is on the shelf.
OnShelf(b) == book[b].avail + Cardinality(InHand(b))

Shelf == [b \in Books |-> OnShelf(b)]

Loans == [r \in DOMAIN res |-> [user  |-> res[r].user, book |-> res[r].book,
                                state |-> res[r].status]]

L == INSTANCE Lending WITH LoanIds <- 1 .. MaxReservations, shelf <- Shelf, loans <- Loans

\* Until the first mishap the service is the library of Lending: every statement of a
\* command (commands.py:46-88 and 122-161, tasks.py:48-73) is one of its steps or
\* changes neither the shelf nor the loans, however the handlers overlap and die.
Undisturbed == \A m \in mishaps : m[1] = "unsent"

ImplementsLending == L!Init /\ [][Undisturbed' => [L!Next]_(L!vars)]_vars

=============================================================================
