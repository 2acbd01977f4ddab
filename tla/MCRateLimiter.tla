--------------------------- MODULE MCRateLimiter ---------------------------
(***************************************************************************)
(* Symmetry of RateLimiter for TLC.  Limiters and buckets are chosen, and  *)
(* so are not interchangeable.                                             *)
(***************************************************************************)
EXTENDS RateLimiter, TLC

Symmetry == Permutations(Threads) \cup Permutations(Clients)

=============================================================================
