------------------------------ MODULE MCCache ------------------------------
(* Instance of Cache for TLC: interchangeable keys and responses. *)
EXTENDS Cache, TLC

Symmetry == Permutations(Keys) \union Permutations(Responses)
=============================================================================
