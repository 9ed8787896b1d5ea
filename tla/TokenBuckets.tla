---------------------------- MODULE TokenBuckets ----------------------------
(***************************************************************************)
(* What the rate limiter promises when no request dawdles between reading  *)
(* the clock and taking its token: one bucket per client that fills with   *)
(* every tick and is never forgotten.                                      *)
(***************************************************************************)
EXTENDS Integers

CONSTANTS Clients,
          Rate,         \* units that flow in per tick
          One,          \* units that make one token
          Capacity      \* units a full bucket holds

VARIABLES level,        \* units in each client's bucket
          decision      \* the latest answer: [client, allowed]

tbVars == <<level, decision>>

TBInit ==
  /\ level = [c \in Clients |-> Capacity]
  /\ decision \in [client : Clients, allowed : {FALSE}]

Decide(c) ==
  /\ decision' = [client |-> c, allowed |-> level[c] >= One]
  /\ level' = [level EXCEPT ![c] = IF @ >= One THEN @ - One ELSE @]

Flow ==
  /\ level' = [c \in Clients |-> IF level[c] + Rate > Capacity
                                 THEN Capacity ELSE level[c] + Rate]
  /\ UNCHANGED decision

TBNext == Flow \/ \E c \in Clients : Decide(c)

TBSpec == TBInit /\ [][TBNext]_tbVars
=============================================================================
