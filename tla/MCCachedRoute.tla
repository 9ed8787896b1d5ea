--------------------------- MODULE MCCachedRoute ---------------------------
(* Instance of CachedRoute for TLC: interchangeable handler goroutines. *)
EXTENDS CachedRoute, TLC

Symmetry == Permutations(Handlers)
=============================================================================
