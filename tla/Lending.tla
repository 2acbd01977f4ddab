------------------------------ MODULE Lending ------------------------------
(***************************************************************************)
(* What the reservation service promises its readers: a lending library.   *)
(* Each operation of apps/reservations is one atomic step here.  Mislay is *)
(* the price of having no transactions: a command that dies half-way may   *)
(* lose a copy from the count, but never makes one up.                     *)
(***************************************************************************)
EXTENDS Integers

CONSTANTS Users, Books, Copies, LoanIds

VARIABLES shelf,   \* [Books -> Nat]: copies that can be lent
          loans    \* id -> [user, book, state]

vars == <<shelf, loans>>

Init == /\ shelf = Copies
        /\ loans = [l \in {} |-> shelf]

\* One copy of b goes to u, who has no ACTIVE loan of b.
Lend(u, b, l) ==
    /\ shelf[b] > 0
    /\ l \notin DOMAIN loans
    /\ ~ \E k \in DOMAIN loans : loans[k] = [user |-> u, book |-> b, state |-> "ACTIVE"]
    /\ shelf' = [shelf EXCEPT ![b] = @ - 1]
    /\ loans' = [k \in DOMAIN loans \cup {l} |->
                   IF k = l THEN [user |-> u, book |-> b, state |-> "ACTIVE"]
                            ELSE loans[k]]

\* A loan is given back once.
GiveBack(l) ==
    /\ loans[l].state # "RETURNED"
    /\ shelf' = [shelf EXCEPT ![loans[l].book] = @ + 1]
    /\ loans' = [loans EXCEPT ![l].state = "RETURNED"]

FallOverdue(l) ==
    /\ loans[l].state = "ACTIVE"
    /\ loans' = [loans EXCEPT ![l].state = "OVERDUE"]
    /\ UNCHANGED shelf

Mislay(b) ==
    /\ shelf[b] > 0
    /\ shelf' = [shelf EXCEPT ![b] = @ - 1]
    /\ UNCHANGED loans

Next == \/ \E u \in Users, b \in Books, l \in LoanIds : Lend(u, b, l)
        \/ \E l \in DOMAIN loans : GiveBack(l) \/ FallOverdue(l)
        \/ \E b \in Books : Mislay(b)

Spec == Init /\ [][Next]_vars

=============================================================================
