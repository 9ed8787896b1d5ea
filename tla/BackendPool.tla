---------------------------- MODULE BackendPool ----------------------------
(***************************************************************************)
(* What balancer.Pool promises to the requests of one pool while the       *)
(* health checker changes the backends' health under their feet.           *)
(*                                                                         *)
(* A call of Acquire takes time.  It may answer with any backend that was  *)
(* healthy at some moment of the call, and it may answer "no backend" only *)
(* when no backend was healthy during the whole call.                      *)
(***************************************************************************)
CONSTANTS Requests, Backends, NoBackend

VARIABLES healthy,      \* Backend.healthy
          asking,       \* the requests inside a call of Acquire
          assigned,     \* the backend a request was given, or NoBackend
          steady,       \* backends healthy throughout the call so far
          seen          \* backends healthy at some moment of the call so far

bpVars == <<healthy, asking, assigned, steady, seen>>

Up == {b \in Backends : healthy[b]}

BPInit ==
  /\ healthy = [b \in Backends |-> TRUE]
  /\ asking = {}
  /\ assigned = [r \in Requests |-> NoBackend]
  /\ steady = [r \in Requests |-> {}]
  /\ seen = [r \in Requests |-> {}]

Ask(r) ==
  /\ r \notin asking
  /\ assigned[r] = NoBackend
  /\ asking' = asking \union {r}
  /\ steady' = [steady EXCEPT ![r] = Up]
  /\ seen' = [seen EXCEPT ![r] = Up]
  /\ UNCHANGED <<healthy, assigned>>

Answer(r) ==
  /\ r \in asking
  /\ asking' = asking \ {r}
  /\ steady' = [steady EXCEPT ![r] = {}]
  /\ seen' = [seen EXCEPT ![r] = {}]
  /\ UNCHANGED healthy

Assign(r, b) ==
  /\ Answer(r)
  /\ b \in seen[r]
  /\ assigned' = [assigned EXCEPT ![r] = b]

Refuse(r) ==
  /\ Answer(r)
  /\ steady[r] = {}
  /\ UNCHANGED assigned

Finish(r) ==
  /\ assigned[r] # NoBackend
  /\ assigned' = [assigned EXCEPT ![r] = NoBackend]
  /\ UNCHANGED <<healthy, asking, steady, seen>>

\* A health verdict reaches backend b while calls may be under way.
Observe(b, up) ==
  /\ healthy' = [healthy EXCEPT ![b] = up]
  /\ steady' = [r \in Requests |-> IF up THEN steady[r] ELSE steady[r] \ {b}]
  /\ seen' = [r \in Requests |-> IF up /\ r \in asking
                                 THEN seen[r] \union {b} ELSE seen[r]]
  /\ UNCHANGED <<asking, assigned>>

BPNext ==
  \/ \E r \in Requests : \/ Ask(r) \/ Refuse(r) \/ Finish(r)
                         \/ \E b \in Backends : Assign(r, b)
  \/ \E b \in Backends, up \in BOOLEAN : Observe(b, up)

BPSpec == BPInit /\ [][BPNext]_bpVars
=============================================================================
