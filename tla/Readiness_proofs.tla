-------------------------- MODULE Readiness_proofs --------------------------
(***************************************************************************)
(* The operational endpoints, for any number of pools and backends, while  *)
(* breakers and backends change between any two reads.                     *)
(*                                                                         *)
(* Probe says what UnavailablePools knows half-way: of every pool it has   *)
(* passed, that it was found available at some moment of the probe or is   *)
(* listed; of the backends of the pool it is at, that those passed were    *)
(* down.  Series says that a scrape sends what CircuitBreakerStates        *)
(* returned, whatever the breakers do meanwhile.                           *)
(***************************************************************************)
EXTENDS Readiness, TLAPS

\* What the history variables record.
History ==
  /\ \A p \in Pools, i \in 1 .. Size : <<p, i>> \in steady => healthy[p][i]
  /\ Probing =>
       \A p \in Pools :
         /\ breaker[p] = "closed" => p \in closed
         /\ breaker[p] # "closed" => p \in tripped
         /\ \A i \in 1 .. Size : healthy[p][i] => <<p, i>> \in seen

\* The pool was available, breaker and backends each at some moment.
WasAvailable(p) == p \in closed /\ \E i \in 1 .. Size : <<p, i>> \in seen

Probe ==
  /\ status # 0 <=> at = "answered"
  /\ Probing => endpoint = "/readyz"
  /\ at = "scrape" => endpoint = "/metrics"
  /\ at \in {"idle", "scrape"} => unavailable = {}
  /\ at = "pools" =>
       \A p \in Pools \ left : p \in unavailable \/ WasAvailable(p)
  /\ at = "backends" =>
       /\ \A p \in Pools \ left : p = pool \/ p \in unavailable \/ WasAvailable(p)
       /\ pool \in closed
       /\ \A i \in 1 .. Size : i < index => <<pool, i>> \notin steady
  /\ NoFalseAlarm
  /\ NoFalseReady

Series ==
  /\ at \notin {"scrape", "answered"} => DOMAIN states = {}
  /\ at = "scrape" => DOMAIN states = Pools \ left
  /\ \A p \in DOMAIN states : states[p] \in circuitBreakerStates
  /\ \A p \in DOMAIN states, state \in circuitBreakerStates :
       /\ at = "answered" => <<p, state>> \in DOMAIN gauge
       /\ <<p, state>> \in DOMAIN gauge =>
            gauge[<<p, state>>] = IF states[p] = state THEN 1 ELSE 0

RInv == TypeOK /\ History /\ Probe /\ Series

\* What the environment does between two reads is recorded.
LEMMA BreakerMovesKeeps ==
  ASSUME RInv, NEW p \in Pools, NEW state \in circuitBreakerStates, BreakerMoves(p, state)
  PROVE  RInv'
<1>1. /\ UNCHANGED reader /\ UNCHANGED <<healthy, steady, seen>>
      /\ closed \subseteq closed' /\ tripped \subseteq tripped'
      /\ breaker' = [breaker EXCEPT ![p] = state]
      /\ breaker' \in [Pools -> circuitBreakerStates]
      /\ Probing' = Probing
      /\ Probing => \A q \in Pools :
           /\ breaker'[q] = "closed" => q \in closed'
           /\ breaker'[q] # "closed" => q \in tripped'
  BY DEF BreakerMoves, RInv, TypeOK, History, reader, Probing
<1>2. UNCHANGED <<at, endpoint, left, pool, index, unavailable, status, states, gauge>>
  BY <1>1 DEF reader, scan, series
<1>3. TypeOK'
  BY <1>1, <1>2 DEF RInv, TypeOK
<1>4. History'
  BY <1>1, <1>2 DEF RInv, History
<1>5. Probe'
  BY <1>1, <1>2 DEF RInv, Probe, NoFalseAlarm, NoFalseReady, WasAvailable, Probing
<1>6. Series'
  BY <1>2 DEF RInv, Series
<1> QED BY <1>3, <1>4, <1>5, <1>6 DEF RInv

\* The same for a verdict of the health checker.
LEMMA SetHealthyKeeps ==
  ASSUME RInv, NEW p \in Pools, NEW i \in 1 .. Size, NEW up \in BOOLEAN, SetHealthy(p, i, up)
  PROVE  RInv'
<1>1. /\ UNCHANGED reader /\ UNCHANGED <<breaker, closed, tripped>>
      /\ seen \subseteq seen' /\ steady' \subseteq steady
      /\ <<p, i>> \notin steady'
      /\ Probing /\ up => <<p, i>> \in seen'
      /\ healthy' = [healthy EXCEPT ![p][i] = up]
  BY DEF SetHealthy
<1>2. UNCHANGED <<at, endpoint, left, pool, index, unavailable, status, states, gauge>>
  BY <1>1 DEF reader, scan, series
<1>3. /\ healthy' \in [Pools -> [1 .. Size -> BOOLEAN]]
      /\ healthy'[p][i] = up
      /\ \A q \in Pools, j \in 1 .. Size : q # p \/ j # i => healthy'[q][j] = healthy[q][j]
  <2>1. healthy \in [Pools -> [1 .. Size -> BOOLEAN]]
    BY DEF RInv, TypeOK
  <2>2. PICK row \in [1 .. Size -> BOOLEAN] :
          /\ healthy' = [healthy EXCEPT ![p] = row]
          /\ row[i] = up
          /\ \A j \in 1 .. Size : j # i => row[j] = healthy[p][j]
    <3>1. PICK row \in [1 .. Size -> BOOLEAN] : row = [healthy[p] EXCEPT ![i] = up]
      BY <2>1
    <3>2. row[i] = up /\ \A j \in 1 .. Size : j # i => row[j] = healthy[p][j]
      BY <2>1, <3>1
    <3>3. healthy' = [healthy EXCEPT ![p] = row]
      BY <1>1, <3>1
    <3> QED BY <3>2, <3>3
  <2>3. healthy'[p] = row /\ \A q \in Pools : q # p => healthy'[q] = healthy[q]
    BY <2>1, <2>2
  <2>4. healthy' \in [Pools -> [1 .. Size -> BOOLEAN]]
    BY <2>1, <2>2
  <2>5. \A q \in Pools, j \in 1 .. Size : q # p \/ j # i => healthy'[q][j] = healthy[q][j]
    BY <2>2, <2>3, Zenon
  <2> QED BY <2>2, <2>3, <2>4, <2>5
<1>4. TypeOK'
  BY <1>1, <1>2, <1>3 DEF RInv, TypeOK
<1>5. History'
  <2>1. ASSUME NEW q \in Pools, NEW j \in 1 .. Size
        PROVE  /\ <<q, j>> \in steady' => healthy'[q][j]
               /\ Probing /\ healthy'[q][j] => <<q, j>> \in seen'
    <3>1. CASE q = p /\ j = i
      BY <1>1, <1>3, <3>1
    <3>2. CASE ~(q = p /\ j = i)
      <4>1. healthy'[q][j] = healthy[q][j]
        BY <1>3, <3>2
      <4> QED BY <1>1, <4>1 DEF RInv, History
    <3> QED BY <3>1, <3>2
  <2> QED BY <1>1, <1>2, <2>1 DEF RInv, History, Probing
<1>6. Probe'
  BY <1>1, <1>2 DEF RInv, Probe, NoFalseAlarm, NoFalseReady, WasAvailable, Probing
<1>7. Series'
  BY <1>2 DEF RInv, Series
<1> QED BY <1>4, <1>5, <1>6, <1>7 DEF RInv

\* A step of the reader that leaves the environment and the history alone keeps
\* what the history records, unless a probe begins.
LEMMA ReaderKeepsHistory ==
  ASSUME RInv, UNCHANGED <<environment, history>>, Probing' => Probing
  PROVE  History'
BY DEF RInv, History, environment, history

\* A readiness probe begins, and with it the history of the probe.
LEMMA ReadinessKeeps ==
  ASSUME RInv, NEW method \in Methods, ReadinessHandler(method)
  PROVE  RInv'
<1>1. CASE ~allowsProbeMethod(method)
  <2>1. /\ at' = "answered" /\ status' = 405 /\ endpoint' = "/readyz"
        /\ UNCHANGED <<environment, left, scan, series, history>>
    BY <1>1 DEF ReadinessHandler, Answers
  <2>2. UNCHANGED <<breaker, healthy, left, pool, index, unavailable, states, gauge,
                    closed, tripped, steady, seen>>
    BY <2>1 DEF environment, scan, series, history
  <2>3. at = "idle"
    BY DEF ReadinessHandler
  <2>4. TypeOK'
    BY <2>1, <2>2 DEF RInv, TypeOK, Endpoints
  <2>5. History'
    BY <2>1, ReaderKeepsHistory DEF Probing
  <2>6. Probe'
    BY <2>1, <2>2, <2>3 DEF RInv, Probe, NoFalseAlarm, NoFalseReady, WasAvailable, Probing
  <2>7. Series'
    BY <2>1, <2>2, <2>3 DEF RInv, Series
  <2> QED BY <2>4, <2>5, <2>6, <2>7 DEF RInv
<1>2. CASE allowsProbeMethod(method)
  <2>1. /\ at = "idle" /\ at' = "pools" /\ endpoint' = "/readyz" /\ left' = Pools
        /\ closed' = Closed /\ tripped' = Pools \ Closed
        /\ steady' = Up /\ seen' = Up /\ status' = status
        /\ UNCHANGED <<environment, scan, series>>
    BY <1>2 DEF ReadinessHandler
  <2>2. UNCHANGED <<breaker, healthy, pool, index, unavailable, states, gauge>>
    BY <2>1 DEF environment, scan, series
  <2>3. TypeOK'
    BY <2>1, <2>2 DEF RInv, TypeOK, Endpoints
  <2>4. \A p \in Pools, i \in 1 .. Size : <<p, i>> \in Up <=> healthy[p][i]
    BY DEF Up
  <2>5. History'
    BY <2>1, <2>2, <2>4 DEF History, Closed
  <2>6. Probe'
    BY <2>1, <2>2 DEF RInv, Probe, NoFalseAlarm, NoFalseReady, Probing
  <2>7. Series'
    BY <2>1, <2>2 DEF RInv, Series
  <2> QED BY <2>3, <2>5, <2>6, <2>7 DEF RInv
<1> QED BY <1>1, <1>2

\* UnavailablePools reads a breaker: what it finds was so at this moment.
LEMMA ReadStateKeeps ==
  ASSUME RInv, NEW p \in Pools, ReadState(p)
  PROVE  RInv'
<1>1. /\ at = "pools" /\ p \in left /\ left' = left \ {p}
      /\ UNCHANGED <<breaker, healthy, endpoint, status, states, gauge,
                     closed, tripped, steady, seen>>
      /\ UNCHANGED <<environment, history>>
  BY DEF ReadState, environment, series, history
<1>2. Probing /\ Probing'
  BY <1>1 DEF ReadState, Probing
<1>3. History'
  BY <1>1, <1>2, ReaderKeepsHistory
<1>4. Series'
  BY <1>1, <1>2 DEF RInv, Series, Probing
<1>5. CASE NotClosed(breaker[p])
  <2>1. unavailable' = unavailable \union {p} /\ UNCHANGED <<at, pool, index>>
    BY <1>5 DEF ReadState
  <2>2. p \in tripped
    BY <1>2, <1>5 DEF RInv, History, NotClosed
  <2>3. TypeOK'
    BY <1>1, <2>1 DEF RInv, TypeOK
  <2>4. Probe'
    BY <1>1, <2>1, <2>2 DEF RInv, Probe, NoFalseAlarm, NoFalseReady, WasAvailable, Probing
  <2> QED BY <1>3, <1>4, <2>3, <2>4 DEF RInv
<1>6. CASE ~NotClosed(breaker[p])
  <2>1. at' = "backends" /\ pool' = p /\ index' = 1 /\ unavailable' = unavailable
    BY <1>6 DEF ReadState
  <2>2. p \in closed
    BY <1>2, <1>6 DEF RInv, History, NotClosed
  <2>3. TypeOK'
    BY <1>1, <2>1, ReadinessAssumption DEF RInv, TypeOK
  <2>4. Probe'
    BY <1>1, <2>1, <2>2 DEF RInv, Probe, NoFalseAlarm, NoFalseReady, WasAvailable, Probing
  <2> QED BY <1>3, <1>4, <2>3, <2>4 DEF RInv
<1> QED BY <1>5, <1>6

\* It reads a backend: one found down was not up all the time.
LEMMA HasHealthyBackendKeeps ==
  ASSUME RInv, hasHealthyBackend
  PROVE  RInv'
<1>1. /\ at = "backends"
      /\ UNCHANGED <<breaker, healthy, endpoint, left, pool, status, states, gauge,
                     closed, tripped, steady, seen>>
      /\ UNCHANGED <<environment, history>>
  BY DEF hasHealthyBackend, environment, series, history
<1>2. Probing /\ Probing'
  BY <1>1 DEF hasHealthyBackend, Probing
<1>3. pool \in Pools /\ index \in 1 .. Size /\ Size \in Nat
  BY ReadinessAssumption DEF RInv, TypeOK
<1>4. History'
  BY <1>1, <1>2, ReaderKeepsHistory
<1>5. Series'
  BY <1>1, <1>2 DEF RInv, Series, Probing
<1>6. CASE healthy[pool][index]
  <2>1. at' = "pools" /\ UNCHANGED <<index, unavailable>>
    BY <1>6 DEF hasHealthyBackend
  <2>2. <<pool, index>> \in seen
    BY <1>2, <1>3, <1>6 DEF RInv, History
  <2>3. TypeOK'
    BY <1>1, <2>1 DEF RInv, TypeOK
  <2>4. WasAvailable(pool)
    BY <1>1, <1>3, <2>2 DEF RInv, Probe, WasAvailable
  <2>5. Probe'
    BY <1>1, <2>1, <2>4 DEF RInv, Probe, NoFalseAlarm, NoFalseReady, WasAvailable, Probing
  <2> QED BY <1>4, <1>5, <2>3, <2>5 DEF RInv
<1>7. CASE ~healthy[pool][index]
  <2>1. <<pool, index>> \notin steady
    BY <1>3, <1>7 DEF RInv, History
  <2>2. \A i \in 1 .. Size : i <= index => <<pool, i>> \notin steady
    <3>1. \A i \in 1 .. Size : i < index => <<pool, i>> \notin steady
      BY <1>1 DEF RInv, Probe
    <3> QED BY <1>3, <2>1, <3>1
  <2>3. CASE index = Size
    <3>1. at' = "pools" /\ unavailable' = unavailable \union {pool} /\ index' = index
      BY <1>7, <2>3 DEF hasHealthyBackend
    <3>2. TypeOK'
      BY <1>1, <1>3, <3>1 DEF RInv, TypeOK
    <3>3. \A i \in 1 .. Size : <<pool, i>> \notin steady
      BY <1>3, <2>2, <2>3
    <3>4. Probe'
      BY <1>1, <3>1, <3>3 DEF RInv, Probe, NoFalseAlarm, NoFalseReady, WasAvailable, Probing
    <3> QED BY <1>4, <1>5, <3>2, <3>4 DEF RInv
  <2>4. CASE index # Size
    <3>1. index' = index + 1 /\ at' = at /\ unavailable' = unavailable
      BY <1>7, <2>4 DEF hasHealthyBackend
    <3>2. TypeOK'
      BY <1>1, <1>3, <2>4, <3>1 DEF RInv, TypeOK
    <3>3. \A i \in 1 .. Size : i < index' => <<pool, i>> \notin steady
      BY <1>3, <2>2, <3>1
    <3>4. Probe'
      BY <1>1, <3>1, <3>3 DEF RInv, Probe, NoFalseAlarm, NoFalseReady, WasAvailable, Probing
    <3> QED BY <1>4, <1>5, <3>2, <3>4 DEF RInv
  <2> QED BY <2>3, <2>4
<1> QED BY <1>6, <1>7

\* A reader is answered: every pool has been read, every series sent.
LEMMA AnswersKeeps ==
  ASSUME RInv, Reported \/ Scraped \/ \E method \in Methods : HealthHandler(method)
  PROVE  RInv'
<1>1. /\ at' = "answered" /\ at # "answered"
      /\ UNCHANGED <<breaker, healthy, left, pool, index, unavailable, states, gauge,
                     closed, tripped, steady, seen>>
      /\ UNCHANGED <<environment, history>>
      /\ status' \in {200, 405, 503} /\ endpoint' \in Endpoints
  BY DEF Reported, Scraped, HealthHandler, Answers, environment, scan, series, history,
         RInv, TypeOK, Endpoints
<1>2. TypeOK'
  BY <1>1 DEF RInv, TypeOK
<1>3. History'
  BY <1>1, ReaderKeepsHistory DEF Probing
<1>4. Probe'
  <2>1. endpoint' = "/readyz" /\ status' = 200 => \A p \in Pools : WasAvailable(p)
    <3>1. CASE Reported
      BY <3>1 DEF Reported, Answers, RInv, Probe
    <3>2. CASE Scraped \/ \E method \in Methods : HealthHandler(method)
      BY <3>2 DEF Scraped, HealthHandler, RInv, Probe
    <3> QED BY <3>1, <3>2
  <2> QED BY <1>1, <2>1 DEF RInv, Probe, NoFalseAlarm, NoFalseReady, WasAvailable, Probing
<1>5. Series'
  <2>1. \A p \in DOMAIN states, state \in circuitBreakerStates : <<p, state>> \in DOMAIN gauge
    <3>1. CASE Reported \/ \E method \in Methods : HealthHandler(method)
      BY <3>1 DEF Reported, HealthHandler, RInv, Series
    <3>2. CASE Scraped
      BY <3>2 DEF Scraped, RInv, TypeOK
    <3> QED BY <3>1, <3>2
  <2> QED BY <1>1, <2>1 DEF RInv, Series
<1> QED BY <1>2, <1>3, <1>4, <1>5 DEF RInv

\* The steps of a scrape.
LEMMA ScrapeKeeps ==
  ASSUME RInv, Scrape \/ \E p \in Pools : CircuitBreakerStates(p)
  PROVE  RInv'
<1>1. /\ at' = "scrape" /\ at \in {"idle", "scrape"} /\ endpoint' \in Endpoints
      /\ endpoint' = "/metrics" /\ left' \subseteq Pools
      /\ UNCHANGED <<breaker, healthy, pool, index, unavailable, status, gauge,
                     closed, tripped, steady, seen>>
      /\ UNCHANGED <<environment, history>>
  <2>1. CASE Scrape
    BY <2>1 DEF Scrape, environment, scan, series, history, Endpoints
  <2>2. CASE \E p \in Pools : CircuitBreakerStates(p)
    BY <2>2 DEF CircuitBreakerStates, environment, scan, history, RInv, TypeOK, Probe
  <2> QED BY <2>1, <2>2
<1>2. History'
  BY <1>1, ReaderKeepsHistory DEF Probing
<1>3. Probe'
  BY <1>1 DEF RInv, Probe, NoFalseAlarm, NoFalseReady, Probing
<1>4. CASE Scrape
  <2>1. at = "idle" /\ left' = Pools /\ states' = states
    BY <1>4 DEF Scrape, series
  <2>2. TypeOK' /\ Series'
    BY <1>1, <2>1 DEF RInv, TypeOK, Series
  <2> QED BY <1>2, <1>3, <2>2 DEF RInv
<1>5. ASSUME NEW p \in Pools, CircuitBreakerStates(p) PROVE RInv'
  <2>1. /\ at = "scrape" /\ p \in left /\ left' = left \ {p}
        /\ states' = [q \in DOMAIN states \union {p} |->
                        IF q = p THEN breaker[p] ELSE states[q]]
    BY <1>5 DEF CircuitBreakerStates
  <2>2. p \notin DOMAIN states /\ DOMAIN states = Pools \ left
    BY <2>1 DEF RInv, Series
  <2>3. DOMAIN states' = Pools \ left'
    BY <2>1, <2>2
  <2>4. /\ states'[p] \in circuitBreakerStates
        /\ \A q \in DOMAIN states : states'[q] = states[q]
    BY <2>1, <2>2 DEF RInv, TypeOK
  <2>5. \A q \in DOMAIN states' : q = p \/ q \in DOMAIN states
    BY <2>1
  <2>6. TypeOK'
    BY <1>1, <2>1, <2>2, <2>3 DEF RInv, TypeOK
  <2>7. \A state \in circuitBreakerStates : <<p, state>> \notin DOMAIN gauge
    BY <2>2 DEF RInv, TypeOK
  <2>8. Series'
    BY <1>1, <2>3, <2>4, <2>5, <2>7 DEF RInv, Series
  <2> QED BY <1>2, <1>3, <2>6, <2>8 DEF RInv
<1> QED BY <1>4, <1>5

\* A series says whether the pool was found in the state it is about.
LEMMA CollectKeeps ==
  ASSUME RInv, NEW p \in Pools, NEW state \in circuitBreakerStates, Collect(p, state)
  PROVE  RInv'
<1>1. /\ at = "scrape" /\ left = {}
      /\ UNCHANGED <<breaker, healthy, at, endpoint, left, pool, index, unavailable,
                     status, states, closed, tripped, steady, seen>>
      /\ UNCHANGED <<environment, history>>
  BY DEF Collect, environment, scan, history
<1>2. /\ gauge' = [s \in DOMAIN gauge \union {<<p, state>>} |->
                     IF s # <<p, state>> THEN gauge[s]
                     ELSE IF states[p] = state THEN 1 ELSE 0]
      /\ DOMAIN gauge' = DOMAIN gauge \union {<<p, state>>}
  BY DEF Collect, currentState
<1>3. DOMAIN states = Pools
  BY <1>1 DEF RInv, Series
<1>4. TypeOK'
  BY <1>1, <1>2, <1>3 DEF RInv, TypeOK
<1>5. History'
  BY <1>1, ReaderKeepsHistory DEF Probing
<1>6. Probe'
  BY <1>1 DEF RInv, Probe, NoFalseAlarm, NoFalseReady, Probing
<1>7. ASSUME NEW q \in DOMAIN states, NEW other \in circuitBreakerStates,
             <<q, other>> \in DOMAIN gauge'
      PROVE  gauge'[<<q, other>>] = IF states[q] = other THEN 1 ELSE 0
  <2>1. CASE <<q, other>> = <<p, state>>
    BY <1>2, <2>1
  <2>2. CASE <<q, other>> # <<p, state>>
    <3>1. <<q, other>> \in DOMAIN gauge /\ gauge'[<<q, other>>] = gauge[<<q, other>>]
      BY <1>2, <1>7, <2>2
    <3> QED BY <3>1 DEF RInv, Series
  <2> QED BY <2>1, <2>2
<1>8. Series'
  BY <1>1, <1>7 DEF RInv, Series
<1> QED BY <1>4, <1>5, <1>6, <1>8 DEF RInv

\* The next reader starts from nothing.
LEMMA ForgetKeeps ==
  ASSUME RInv, Forget
  PROVE  RInv'
<1>1. /\ at' = "idle" /\ status' = 0 /\ index' = 1 /\ unavailable' = {}
      /\ pool' \in Pools /\ DOMAIN states' = {} /\ DOMAIN gauge' = {}
      /\ closed' = {} /\ tripped' = {} /\ steady' = {} /\ seen' = {}
      /\ UNCHANGED <<breaker, healthy, endpoint, left>>
  BY ReadinessAssumption DEF Forget, environment
<1>2. TypeOK'
  BY <1>1, ReadinessAssumption DEF RInv, TypeOK
<1>3. History' /\ Probe'
  BY <1>1 DEF History, Probe, NoFalseAlarm, NoFalseReady, Probing
<1>4. Series'
  BY <1>1 DEF Series
<1> QED BY <1>2, <1>3, <1>4 DEF RInv

\* RInv holds in every state of every behaviour.
LEMMA RInvInvariant == Spec => []RInv
<1>1. Init => RInv
  <2> SUFFICES ASSUME Init PROVE RInv
    OBVIOUS
  <2>1. pool \in Pools /\ DOMAIN states = {} /\ DOMAIN gauge = {} /\ 1 \in 1 .. Size
    BY ReadinessAssumption DEF Init
  <2>2. TypeOK
    BY <2>1 DEF Init, TypeOK, circuitBreakerStates, Endpoints
  <2>3. History /\ Probe
    BY DEF Init, History, Probe, NoFalseAlarm, NoFalseReady, Probing
  <2>4. Series
    BY <2>1 DEF Init, Series
  <2> QED BY <2>2, <2>3, <2>4 DEF RInv
<1>2. RInv /\ [Next]_vars => RInv'
  <2> SUFFICES ASSUME RInv, [Next]_vars PROVE RInv'
    OBVIOUS
  <2>1. CASE UNCHANGED vars
    <3>1. /\ UNCHANGED <<breaker, healthy, at, endpoint, left, pool, index, unavailable>>
          /\ UNCHANGED <<status, states, gauge, closed, tripped, steady, seen>>
      BY <2>1 DEF vars, environment, reader, scan, series, history
    <3>2. TypeOK' /\ History'
      BY <3>1 DEF RInv, TypeOK, History, Probing
    <3>3. Probe'
      BY <3>1 DEF RInv, Probe, NoFalseAlarm, NoFalseReady, WasAvailable, Probing
    <3>4. Series'
      BY <3>1 DEF RInv, Series
    <3> QED BY <3>2, <3>3, <3>4 DEF RInv
  <2>2. CASE Next
    BY <2>2, ReadinessKeeps, ReadStateKeeps, HasHealthyBackendKeeps, AnswersKeeps,
       ScrapeKeeps, CollectKeeps, ForgetKeeps, BreakerMovesKeeps, SetHealthyKeeps
       DEF Next
  <2> QED BY <2>1, <2>2
<1> QED BY <1>1, <1>2, PTL DEF Spec

\* Every variable keeps its type: hasHealthyBackend reads no backend past the
\* last one, and a scrape sends series of the pools it has read only.
THEOREM TypeCorrect == Spec => []TypeOK
<1>1. RInv => TypeOK
  BY DEF RInv
<1> QED BY <1>1, RInvInvariant, PTL

\* For any number of pools and backends: a pool that UnavailablePools lists had
\* its breaker not closed, or no backend that stayed healthy, during the probe.
THEOREM NeverAFalseAlarm == Spec => []NoFalseAlarm
<1>1. RInv => NoFalseAlarm
  BY DEF RInv, Probe
<1> QED BY <1>1, RInvInvariant, PTL

\* For any number of pools and backends: ReadinessHandler answers 200 only if
\* each pool had a closed breaker, and a healthy backend, during the probe.
THEOREM NeverFalselyReady == Spec => []NoFalseReady
<1>1. RInv => NoFalseReady
  BY DEF RInv, Probe
<1> QED BY <1>1, RInvInvariant, PTL

INSTANCE FiniteSetTheorems

\* For any number of pools: in every scrape exactly one of a pool's three series
\* has value 1 (circuitBreakerCollector.Collect).
THEOREM AlwaysOneHot == Spec => []OneHot
<1>1. ASSUME RInv PROVE OneHot
  <2> SUFFICES ASSUME at = "answered", NEW p \in DOMAIN states
               PROVE  Cardinality({state \in circuitBreakerStates :
                                     gauge[<<p, state>>] = 1}) = 1
    BY DEF OneHot
  <2>1. /\ states[p] \in circuitBreakerStates
        /\ \A state \in circuitBreakerStates :
             gauge[<<p, state>>] = IF states[p] = state THEN 1 ELSE 0
    BY <1>1 DEF RInv, Series
  <2>2. {state \in circuitBreakerStates : gauge[<<p, state>>] = 1} = {states[p]}
    BY <2>1
  <2> QED BY <2>2, FS_Singleton
<1> QED BY <1>1, RInvInvariant, PTL
=============================================================================
