----------------------------- MODULE MCBalancer -----------------------------
(* Instance of Balancer for TLC: interchangeable request goroutines. *)
EXTENDS Balancer, TLC

Symmetry == Permutations(Requests)
=============================================================================
