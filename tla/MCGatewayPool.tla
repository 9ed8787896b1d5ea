--------------------------- MODULE MCGatewayPool ---------------------------
(* Instance of GatewayPool for TLC; the symmetry is for the safety run only. *)
EXTENDS GatewayPool, TLC

Symmetry == Permutations(Requests)
=============================================================================
