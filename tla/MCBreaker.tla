----------------------------- MODULE MCBreaker -----------------------------
(* Instance of Breaker for TLC: interchangeable request goroutines. *)
EXTENDS Breaker, TLC

Symmetry == Permutations(Permits)
=============================================================================
