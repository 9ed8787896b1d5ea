----------------------------- MODULE Readiness -----------------------------
(***************************************************************************)
(* The operational endpoints: health.go and circuit_breaker.go in          *)
(* internal/metrics, over UnavailablePools and CircuitBreakerStates in     *)
(* internal/proxy/gateway.go.                                              *)
(*                                                                         *)
(* They take no snapshot.  The state of each breaker and the health of     *)
(* each backend is read at a moment of its own, in any order of the pools  *)
(* (they are the keys of a Go map), while breakers trip and recover and    *)
(* the health checker stores its verdicts.  Readers change nothing, so one *)
(* at a time is enough.                                                    *)
(***************************************************************************)
EXTENDS Integers, FiniteSets

CONSTANTS Pools,
          Size            \* backends in every pool

\* Validate and NewPoolAccepts: there is a pool, and a backend in every pool.
ASSUME ReadinessAssumption == Pools # {} /\ Size \in Nat \ {0}

VARIABLES breaker,        \* State() of each pool's breaker
          healthy,        \* Healthy() of each pool's backends, in order
          at,             \* the reader: "idle", between "pools", at the
                          \*   "backends" of one, in a "scrape", or "answered"
          endpoint,       \* the one the reader asked for
          left,           \* pools the reader has still to visit
          pool, index,    \* where hasHealthyBackend is
          unavailable,    \* the result of UnavailablePools so far
          status,         \* the answer; 0 while there is none
          states,         \* the result of CircuitBreakerStates so far
          gauge,          \* the series sent to Prometheus: <<pool, state>>
          closed, tripped,  \* history: pools whose breaker was closed, or was
                            \*   not, at some moment of the probe
          steady, seen    \* history: backends <<pool, index>> healthy during
                          \*   all of the probe, or at some moment of it

environment == <<breaker, healthy>>
scan == <<pool, index, unavailable>>
series == <<states, gauge>>
reader == <<at, endpoint, left, scan, status, series>>
history == <<closed, tripped, steady, seen>>
vars == <<environment, reader, history>>

circuitBreakerStates == {"closed", "open", "half-open"}
Methods == {"GET", "HEAD", "POST"}
Endpoints == {"/healthz", "/readyz", "/metrics"}

Closed == {p \in Pools : breaker[p] = "closed"}
Up == {b \in Pools \X (1 .. Size) : healthy[b[1]][b[2]]}

TypeOK ==
  /\ breaker \in [Pools -> circuitBreakerStates]
  /\ healthy \in [Pools -> [1 .. Size -> BOOLEAN]]
  /\ at \in {"idle", "pools", "backends", "scrape", "answered"}
  /\ endpoint \in Endpoints
  /\ left \subseteq Pools
  /\ pool \in Pools
  /\ index \in 1 .. Size
  /\ unavailable \subseteq Pools
  /\ status \in {0, 200, 405, 503}
  /\ DOMAIN states \subseteq Pools
  /\ DOMAIN gauge \subseteq (DOMAIN states) \X circuitBreakerStates

Init ==
  /\ breaker = [p \in Pools |-> "closed"]
  /\ healthy = [p \in Pools |-> [i \in 1 .. Size |-> TRUE]]
  /\ at = "idle"
  /\ endpoint = "/healthz"
  /\ left = {}
  /\ pool = CHOOSE p \in Pools : TRUE
  /\ index = 1
  /\ unavailable = {}
  /\ status = 0
  /\ states = [p \in {} |-> "closed"]
  /\ gauge = [s \in {} |-> 0]
  /\ closed = {} /\ tripped = {} /\ steady = {} /\ seen = {}

-----------------------------------------------------------------------------
allowsProbeMethod(method) == method \in {"GET", "HEAD"}

\* writeHealthResponse, or http.Error.
Answers(code) ==
  /\ at' = "answered"
  /\ status' = code

HealthHandler(method) ==
  /\ at = "idle"
  /\ Answers(IF allowsProbeMethod(method) THEN 200 ELSE 405)
  /\ endpoint' = "/healthz"
  /\ UNCHANGED <<environment, left, scan, series, history>>

\* ReadinessHandler calls UnavailablePools, or refuses the method.
ReadinessHandler(method) ==
  /\ at = "idle"
  /\ endpoint' = "/readyz"
  /\ IF allowsProbeMethod(method)
     THEN /\ at' = "pools"
          /\ left' = Pools
          /\ closed' = Closed
          /\ tripped' = Pools \ Closed
          /\ steady' = Up
          /\ seen' = Up
          /\ UNCHANGED status
     ELSE Answers(405) /\ UNCHANGED <<left, history>>
  /\ UNCHANGED <<environment, scan, series>>

\* Mutant: only an open breaker makes a pool unavailable.
OutOfService(state) == state = "open"

\* What State() must not say of a pool that is available.
NotClosed(state) == state # "closed"

\* The loop of UnavailablePools reads the state of the next pool's breaker.
ReadState(p) ==
  /\ at = "pools"
  /\ p \in left
  /\ left' = left \ {p}
  /\ IF NotClosed(breaker[p])
     THEN unavailable' = unavailable \union {p} /\ UNCHANGED <<at, pool, index>>
     ELSE at' = "backends" /\ pool' = p /\ index' = 1 /\ UNCHANGED unavailable
  /\ UNCHANGED <<environment, endpoint, status, series, history>>

\* Mutant: the loop goes one past the last backend.
hasHealthyOnePast ==
  /\ at = "backends"
  /\ IF index > Size
     THEN /\ at' = "pools"
          /\ unavailable' = unavailable \union {pool}
          /\ UNCHANGED index
     ELSE IF healthy[pool][index]
     THEN at' = "pools" /\ UNCHANGED <<index, unavailable>>
     ELSE index' = index + 1 /\ UNCHANGED <<at, unavailable>>
  /\ UNCHANGED <<environment, endpoint, left, pool, status, series, history>>

\* Mutant: one unhealthy backend is enough.
allHealthy ==
  /\ at = "backends"
  /\ IF ~healthy[pool][index]
     THEN /\ at' = "pools"
          /\ unavailable' = unavailable \union {pool}
          /\ UNCHANGED index
     ELSE IF index = Size
     THEN at' = "pools" /\ UNCHANGED <<index, unavailable>>
     ELSE index' = index + 1 /\ UNCHANGED <<at, unavailable>>
  /\ UNCHANGED <<environment, endpoint, left, pool, status, series, history>>

\* hasHealthyBackend reads the next backend of the pool.
hasHealthyBackend ==
  /\ at = "backends"
  /\ IF healthy[pool][index]
     THEN at' = "pools" /\ UNCHANGED <<index, unavailable>>
     ELSE IF index = Size
     THEN /\ at' = "pools"
          /\ unavailable' = unavailable \union {pool}
          /\ UNCHANGED index
     ELSE index' = index + 1 /\ UNCHANGED <<at, unavailable>>
  /\ UNCHANGED <<environment, endpoint, left, pool, status, series, history>>

Reported ==
  /\ at = "pools"
  /\ left = {}
  /\ Answers(IF unavailable = {} THEN 200 ELSE 503)
  /\ UNCHANGED <<environment, endpoint, left, scan, series, history>>

-----------------------------------------------------------------------------
\* A scrape makes the collector call CircuitBreakerStates ...
Scrape ==
  /\ at = "idle"
  /\ at' = "scrape"
  /\ endpoint' = "/metrics"
  /\ left' = Pools
  /\ UNCHANGED <<environment, scan, status, series, history>>

CircuitBreakerStates(p) ==
  /\ at = "scrape"
  /\ p \in left
  /\ left' = left \ {p}
  /\ states' = [q \in DOMAIN states \union {p} |->
                  IF q = p THEN breaker[p] ELSE states[q]]
  /\ UNCHANGED <<environment, at, endpoint, scan, status, gauge, history>>

\* Mutant: every series asks the breaker again.
stateNow(p) == breaker[p]

currentState(p) == states[p]

\* ... and send one series per pool and state.
Collect(p, state) ==
  /\ at = "scrape"
  /\ left = {}
  /\ <<p, state>> \notin DOMAIN gauge
  /\ gauge' = [s \in DOMAIN gauge \union {<<p, state>>} |->
                 IF s # <<p, state>> THEN gauge[s]
                 ELSE IF currentState(p) = state THEN 1 ELSE 0]
  /\ UNCHANGED <<environment, at, endpoint, left, scan, status, states,
                 history>>

Scraped ==
  /\ at = "scrape"
  /\ left = {}
  /\ DOMAIN gauge = Pools \X circuitBreakerStates
  /\ Answers(200)
  /\ UNCHANGED <<environment, endpoint, left, scan, series, history>>

\* The reader is done with, and another may come.
Forget ==
  /\ at = "answered"
  /\ at' = "idle"
  /\ status' = 0
  /\ pool' = CHOOSE p \in Pools : TRUE
  /\ index' = 1
  /\ unavailable' = {}
  /\ states' = [p \in {} |-> "closed"]
  /\ gauge' = [s \in {} |-> 0]
  /\ closed' = {} /\ tripped' = {} /\ steady' = {} /\ seen' = {}
  /\ UNCHANGED <<environment, endpoint, left>>

-----------------------------------------------------------------------------
Probing == at \in {"pools", "backends"}

\* A breaker trips, lets probes through, closes or falls back.
BreakerMoves(p, state) ==
  /\ <<breaker[p], state>> \in
       {<<"closed", "open">>, <<"open", "half-open">>,
        <<"half-open", "closed">>, <<"half-open", "open">>}
  /\ breaker' = [breaker EXCEPT ![p] = state]
  /\ closed' = IF Probing /\ state = "closed" THEN closed \union {p} ELSE closed
  /\ tripped' =
       IF Probing /\ state # "closed" THEN tripped \union {p} ELSE tripped
  /\ UNCHANGED <<healthy, reader, steady, seen>>

\* The health checker stores a verdict.
SetHealthy(p, i, up) ==
  /\ healthy[p][i] # up
  /\ healthy' = [healthy EXCEPT ![p][i] = up]
  /\ seen' = IF Probing /\ up THEN seen \union {<<p, i>>} ELSE seen
  /\ steady' = steady \ {<<p, i>>}
  /\ UNCHANGED <<breaker, reader, closed, tripped>>

Next ==
  \/ \E method \in Methods : HealthHandler(method) \/ ReadinessHandler(method)
  \/ \E p \in Pools : ReadState(p) \/ CircuitBreakerStates(p)
  \/ hasHealthyBackend \/ Reported
  \/ Scrape \/ Scraped
  \/ \E p \in Pools, state \in circuitBreakerStates :
       Collect(p, state) \/ BreakerMoves(p, state)
  \/ \E p \in Pools, i \in 1 .. Size, up \in BOOLEAN : SetHealthy(p, i, up)
  \/ Forget

Spec == Init /\ [][Next]_vars

-----------------------------------------------------------------------------
\* A pool that UnavailablePools lists had its breaker not closed at some moment
\* of the probe, or had no backend that was healthy all the time: what changes
\* between two reads cannot take down an instance whose pools had a closed
\* breaker and one backend that never failed.
NoFalseAlarm ==
  \A p \in unavailable :
    p \in tripped \/ \A i \in 1 .. Size : <<p, i>> \notin steady

\* An instance is reported ready only if every pool had its breaker closed at
\* some moment of the probe and a healthy backend at some moment of it.
NoFalseReady ==
  (endpoint = "/readyz" /\ status = 200) =>
    \A p \in Pools : p \in closed /\ \E i \in 1 .. Size : <<p, i>> \in seen

\* docs/architecture.md: "Exactly one of the closed, open, and half-open series
\* has value 1 for each pool", in every scrape, though the breaker moves while
\* the series are sent.
OneHot ==
  at = "answered" =>
    \A p \in DOMAIN states :
      Cardinality({state \in circuitBreakerStates : gauge[<<p, state>>] = 1}) = 1
=============================================================================
