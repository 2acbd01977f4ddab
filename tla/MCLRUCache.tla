----------------------------- MODULE MCLRUCache -----------------------------
(***************************************************************************)
(* Values of the constants of LRUCache for TLC.                            *)
(***************************************************************************)
EXTENDS LRURecency, TLC

\* An entry is live until the clock ticks.
UntilTick == {0}

Symmetry == Permutations(Keys) \cup Permutations(Values) \cup Permutations(Threads)

=============================================================================
