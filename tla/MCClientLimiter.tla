-------------------------- MODULE MCClientLimiter --------------------------
(* Instances of ClientLimiter for TLC: two clients of one shard. *)
EXTENDS ClientLimiter

OneShard == [c \in Clients |-> CHOOSE s \in Shards : TRUE]
=============================================================================
