--------------------------- MODULE MCReservations ---------------------------
(***************************************************************************)
(* Values of the constants of Reservations for TLC.                        *)
(***************************************************************************)
EXTENDS ReservationsLending, TLC

OneCopy   == [b \in Books |-> 1]
TwoCopies == [b \in Books |-> 2]

OneDay == {1}

\* A behaviour ends at the second thing that goes wrong: a mishap, or a lost copy.
OneMishap == \A b \in Books : Cardinality(mishaps) + mislaid[b] <= 1

OverdueMails == {e \in effects : e[1] = "overdue"}
TablesAndJobs == <<book, res, nextId, now, job, history, OverdueMails>>

PeopleSymmetry == Permutations(Workers) \cup Permutations(Users)

=============================================================================
