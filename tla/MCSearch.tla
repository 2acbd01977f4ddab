------------------------------ MODULE MCSearch ------------------------------
(***************************************************************************)
(* Search with two books, of one genre, and titles that are told apart     *)
(* only by whether they are the same.                                      *)
(***************************************************************************)
EXTENDS Search

CONSTANTS g1

OneGenre == [i \in Ids |-> g1]

=============================================================================
