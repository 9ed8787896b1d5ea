------------------------------ MODULE Balancer ------------------------------
(***************************************************************************)
(* Backend selection and connection accounting, internal/balancer/pool.go. *)
(*                                                                         *)
(* Pool.Acquire holds selectionMu while it walks over the backends, so two *)
(* selections never overlap.  The health checker's SetHealthy and other    *)
(* requests' Release do not take that mutex: every atomic load of the walk *)
(* is a step of its own, and Release is a load and a compare-and-swap.     *)
(***************************************************************************)
EXTENDS Integers, FiniteSets

CONSTANTS Requests,       \* request goroutines
          N               \* number of backends, the slice indices 0 .. N-1

RoundRobin == "round_robin"
LeastConnections == "least_connections"

ASSUME BalancerAssumption ==
  /\ IsFiniteSet(Requests)
  /\ N \in Nat \ {0}

Backends == 0 .. N - 1
None == -1

VARIABLES
  strategy,               \* Pool.strategy, chosen when the pool is made
  healthy,                \* Backend.healthy
  activeConnections,      \* Backend.activeConnections
  next,                   \* Pool.next
  selectionMu,            \* the holders of Pool.selectionMu (at most one)
  pc,                     \* where each request is
  start, offset,          \* loop variables of the walk
  selected,               \* the backend chosen so far, then the one in use
  loaded,                 \* the counter value last loaded by this request
  steady, seen,           \* history: healthy throughout / some time of the call
  dark,                   \* history: calls during which all were down at once
  atStart,                \* history: the counters when the walk began
  owed                    \* history: owed[c] are the backends healthy ever
                          \*   since c was last picked and not picked since

poolVars == <<strategy, healthy, activeConnections, next, selectionMu>>
callVars == <<pc, start, offset, selected, loaded>>
history == <<steady, seen, dark, atStart, owed>>
vars == <<poolVars, callVars, history>>

Up == {b \in Backends : healthy[b]}
NoLoad == [b \in Backends |-> 0]

TypeOK ==
  /\ strategy \in {RoundRobin, LeastConnections}
  /\ healthy \in [Backends -> BOOLEAN]
  /\ activeConnections \in [Backends -> Nat]
  /\ next \in 0 .. N
  /\ selectionMu \subseteq Requests
  /\ pc \in [Requests -> {"idle", "walk", "load", "compare", "selected",
                          "held", "cas"}]
  /\ start \in [Requests -> 0 .. N]
  /\ offset \in [Requests -> 0 .. N]
  /\ selected \in [Requests -> Backends \union {None}]
  /\ loaded \in [Requests -> Nat]
  /\ steady \in [Requests -> SUBSET Backends]
  /\ seen \in [Requests -> SUBSET Backends]
  /\ dark \subseteq Requests
  /\ atStart \in [Requests -> [Backends -> Nat]]
  /\ owed \in [Backends -> SUBSET Backends]

\* NewPoolWithStrategy: every backend starts healthy and idle.
Init ==
  /\ strategy \in {RoundRobin, LeastConnections}
  /\ healthy = [b \in Backends |-> TRUE]
  /\ activeConnections = NoLoad
  /\ next = 0
  /\ selectionMu = {}
  /\ pc = [r \in Requests |-> "idle"]
  /\ start = [r \in Requests |-> 0]
  /\ offset = [r \in Requests |-> 0]
  /\ selected = [r \in Requests |-> None]
  /\ loaded = [r \in Requests |-> 0]
  /\ steady = [r \in Requests |-> {}]
  /\ seen = [r \in Requests |-> {}]
  /\ dark = {}
  /\ atStart = [r \in Requests |-> NoLoad]
  /\ owed = [b \in Backends |-> {}]

Goto(r, label) == pc' = [pc EXCEPT ![r] = label]

-----------------------------------------------------------------------------
\* Pool.Acquire takes selectionMu and enters the walk of its strategy.
Lock(r) ==
  /\ pc[r] = "idle"
  /\ selectionMu = {}
  /\ selectionMu' = selectionMu \union {r}
  /\ Goto(r, "walk")
  /\ start' = [start EXCEPT ![r] = IF strategy = RoundRobin THEN next ELSE 0]
  /\ offset' = [offset EXCEPT ![r] = 0]
  /\ selected' = [selected EXCEPT ![r] = None]
  /\ steady' = [steady EXCEPT ![r] = Up]
  /\ seen' = [seen EXCEPT ![r] = Up]
  /\ dark' = IF Up = {} THEN dark \union {r} ELSE dark
  /\ atStart' = [atStart EXCEPT ![r] = activeConnections]
  /\ UNCHANGED <<strategy, healthy, activeConnections, next, loaded, owed>>

\* The backend this iteration looks at.
Visited(r) == (start[r] + offset[r]) % N

Walking(r) == pc[r] = "walk" /\ offset[r] < N

\* Either walk skips a backend that is not healthy when it is looked at.
Skip(r) ==
  /\ Walking(r)
  /\ ~healthy[Visited(r)]
  /\ offset' = [offset EXCEPT ![r] = @ + 1]
  /\ UNCHANGED <<poolVars, pc, start, selected, loaded, history>>

\* The walk ends with the visited backend and the next one starts at position.
Pick(r, position) ==
  /\ strategy = RoundRobin
  /\ Walking(r)
  /\ next' = position
  /\ selected' = [selected EXCEPT ![r] = Visited(r)]
  /\ Goto(r, "selected")
  /\ owed' = [c \in Backends |-> IF c = Visited(r) THEN Up \ {c}
                                 ELSE owed[c] \ {Visited(r)}]
  /\ UNCHANGED <<strategy, healthy, activeConnections, selectionMu, start,
                 offset, loaded, steady, seen, dark, atStart>>

\* Mutants: the position is the backend just picked; the backend's health is
\* not asked for.
PickStoresIndex(r) == healthy[Visited(r)] /\ Pick(r, Visited(r))
PickUnchecked(r) == Pick(r, Visited(r) + 1)

\* nextRoundRobin: the first healthy backend is taken, and the next walk
\* starts behind it.
PickRoundRobin(r) == healthy[Visited(r)] /\ Pick(r, Visited(r) + 1)

\* nextLeastConnections: Healthy(), then the first healthy backend is selected
\* outright and every later one goes on to be compared.
FirstHealthy(r) ==
  /\ strategy = LeastConnections
  /\ Walking(r)
  /\ healthy[Visited(r)]
  /\ selected[r] = None
  /\ selected' = [selected EXCEPT ![r] = Visited(r)]
  /\ offset' = [offset EXCEPT ![r] = @ + 1]
  /\ UNCHANGED <<poolVars, pc, start, loaded, history>>

LaterHealthy(r) ==
  /\ strategy = LeastConnections
  /\ Walking(r)
  /\ healthy[Visited(r)]
  /\ selected[r] # None
  /\ Goto(r, "load")
  /\ UNCHANGED <<poolVars, start, offset, selected, loaded, history>>

\* The left operand of the comparison is loaded, then the right one.
LoadLeft(r) ==
  /\ pc[r] = "load"
  /\ loaded' = [loaded EXCEPT ![r] = activeConnections[Visited(r)]]
  /\ Goto(r, "compare")
  /\ UNCHANGED <<poolVars, start, offset, selected, history>>

\* Mutant: the busier backend wins.
CompareReversed(r) ==
  /\ pc[r] = "compare"
  /\ selected' = [selected EXCEPT
       ![r] = IF loaded[r] > activeConnections[@] THEN Visited(r) ELSE @]
  /\ offset' = [offset EXCEPT ![r] = @ + 1]
  /\ Goto(r, "walk")
  /\ UNCHANGED <<poolVars, start, loaded, history>>

Compare(r) ==
  /\ pc[r] = "compare"
  /\ selected' = [selected EXCEPT
       ![r] = IF loaded[r] < activeConnections[@] THEN Visited(r) ELSE @]
  /\ offset' = [offset EXCEPT ![r] = @ + 1]
  /\ Goto(r, "walk")
  /\ UNCHANGED <<poolVars, start, loaded, history>>

WalkDone(r) ==
  /\ pc[r] = "walk"
  /\ offset[r] = N
  /\ selected[r] # None
  /\ Goto(r, "selected")
  /\ UNCHANGED <<poolVars, start, offset, selected, loaded, history>>

\* The locals of a call are dead once it returns.
Return(r) ==
  /\ selectionMu' = selectionMu \ {r}
  /\ start' = [start EXCEPT ![r] = 0]
  /\ offset' = [offset EXCEPT ![r] = 0]
  /\ loaded' = [loaded EXCEPT ![r] = 0]
  /\ steady' = [steady EXCEPT ![r] = {}]
  /\ seen' = [seen EXCEPT ![r] = {}]
  /\ dark' = dark \ {r}
  /\ atStart' = [atStart EXCEPT ![r] = NoLoad]
  /\ UNCHANGED <<strategy, healthy, next, owed>>

\* Acquire counts the request against its backend and unlocks ...
Assign(r) ==
  /\ pc[r] = "selected"
  /\ activeConnections' = [activeConnections EXCEPT ![selected[r]] = @ + 1]
  /\ Goto(r, "held")
  /\ Return(r)
  /\ UNCHANGED selected

\* ... or finds no backend, answers false and unlocks.
Refuse(r) ==
  /\ pc[r] = "walk"
  /\ offset[r] = N
  /\ selected[r] = None
  /\ Goto(r, "idle")
  /\ Return(r)
  /\ UNCHANGED <<activeConnections, selected>>

-----------------------------------------------------------------------------
\* Release: load the counter; zero is left alone.
ReleaseLoad(r) ==
  /\ pc[r] = "held"
  /\ loaded' = [loaded EXCEPT ![r] = activeConnections[selected[r]]]
  /\ Goto(r, IF activeConnections[selected[r]] = 0 THEN "idle" ELSE "cas")
  /\ selected' = [selected EXCEPT
                    ![r] = IF activeConnections[@] = 0 THEN None ELSE @]
  /\ UNCHANGED <<poolVars, start, offset, history>>

\* The counter changed since it was loaded: go round again.
ReleaseRetry(r) ==
  /\ pc[r] = "cas"
  /\ activeConnections[selected[r]] # loaded[r]
  /\ Goto(r, "held")
  /\ loaded' = [loaded EXCEPT ![r] = 0]
  /\ UNCHANGED <<poolVars, start, offset, selected, history>>

\* Mutant: Release stores the decremented value without comparing.
ReleaseStore(r) ==
  /\ pc[r] = "cas"
  /\ activeConnections' = [activeConnections EXCEPT ![selected[r]] = loaded[r] - 1]
  /\ Goto(r, "idle")
  /\ loaded' = [loaded EXCEPT ![r] = 0]
  /\ selected' = [selected EXCEPT ![r] = None]
  /\ UNCHANGED <<strategy, healthy, next, selectionMu, start, offset, history>>

ReleaseSwap(r) ==
  /\ pc[r] = "cas"
  /\ activeConnections[selected[r]] = loaded[r]
  /\ activeConnections' = [activeConnections EXCEPT ![selected[r]] = loaded[r] - 1]
  /\ Goto(r, "idle")
  /\ loaded' = [loaded EXCEPT ![r] = 0]
  /\ selected' = [selected EXCEPT ![r] = None]
  /\ UNCHANGED <<strategy, healthy, next, selectionMu, start, offset, history>>

\* SetHealthy, called by the health checker at any moment.
SetHealthy(b, up) ==
  /\ healthy' = [healthy EXCEPT ![b] = up]
  /\ steady' = [r \in Requests |-> IF up THEN steady[r] ELSE steady[r] \ {b}]
  /\ seen' = [r \in Requests |-> IF up /\ r \in selectionMu
                                 THEN seen[r] \union {b} ELSE seen[r]]
  /\ dark' = IF Up \ {b} = {} /\ ~up THEN dark \union selectionMu ELSE dark
  /\ owed' = [c \in Backends |-> IF up THEN owed[c] ELSE owed[c] \ {b}]
  /\ UNCHANGED <<strategy, activeConnections, next, selectionMu, callVars, atStart>>

Acquire(r) ==
  \/ Lock(r) \/ Skip(r) \/ PickRoundRobin(r) \/ FirstHealthy(r)
  \/ LaterHealthy(r) \/ LoadLeft(r) \/ Compare(r) \/ WalkDone(r)
  \/ Assign(r) \/ Refuse(r)

Release(r) == ReleaseLoad(r) \/ ReleaseRetry(r) \/ ReleaseSwap(r)

Next ==
  \/ \E r \in Requests : Acquire(r) \/ Release(r)
  \/ \E b \in Backends, up \in BOOLEAN : SetHealthy(b, up)

Spec == Init /\ [][Next]_vars

-----------------------------------------------------------------------------
\* The requests that were assigned backend b and have not released it.
Using(b) == {r \in Requests : pc[r] \in {"held", "cas"} /\ selected[r] = b}

\* A backend's connection counter is exactly the number of requests that hold
\* the backend: Acquire's increment and Release's compare-and-swap lose no
\* update, and the clamp at zero never swallows a real release.
ConnectionsCounted ==
  \A b \in Backends : activeConnections[b] = Cardinality(Using(b))

\* Least connections: the backend about to be assigned is no busier than any
\* backend that was healthy throughout the walk was when the walk began,
\* whatever requests are released and backends flip in between.
FewestConnections ==
  strategy = LeastConnections =>
    \A r \in Requests : pc[r] = "selected" =>
      \A b \in steady[r] : activeConnections[selected[r]] <= atStart[r][b]

\* Round robin rotates evenly: a backend is not picked again before every
\* backend that stayed healthy since its last turn has had a turn of its own.
EvenRotation ==
  [][\A r \in Requests : PickRoundRobin(r) => owed[Visited(r)] = {}]_vars

\* As pool.go describes Acquire: "It returns false when every backend is
\* unhealthy", so a refusal means there was a moment when all of them were.
RefusedOnlyWhenAllDown ==
  [][\A r \in Requests : Refuse(r) => r \in dark]_vars

\* The detailed walk keeps the pool's promise: an assigned backend was healthy
\* during the call, and "no backend" means that none was healthy throughout.
Promise == INSTANCE BackendPool WITH
  NoBackend <- None,
  asking <- selectionMu,
  assigned <- [r \in Requests |->
                 IF pc[r] \in {"held", "cas"} THEN selected[r] ELSE None]

ImplementsBackendPool == Promise!BPSpec
=============================================================================
