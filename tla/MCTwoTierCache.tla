--------------------------- MODULE MCTwoTierCache ---------------------------
(***************************************************************************)
(* Values of the constants of TwoTierCache for TLC.                        *)
(***************************************************************************)
EXTENDS TwoTierCache, TLC

FirstPage == [genre |-> "", page |-> "1", search |-> "", cursor |-> "", ordering |-> ""]

OneQuery == {FirstPage}

ProcessSymmetry == Permutations(Processes)

=============================================================================
