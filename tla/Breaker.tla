------------------------------ MODULE Breaker ------------------------------
(***************************************************************************)
(* The circuit breaker of one backend pool, internal/breaker/breaker.go.   *)
(*                                                                         *)
(* Every method runs under Breaker.mu, so each is one step; the requests   *)
(* that hold permits run concurrently, so the methods interleave freely    *)
(* and a result can arrive any number of transitions after its permit was  *)
(* issued.  permit[p] is the Permit a request goroutine p holds: a         *)
(* sync.Once has fired when its status is "used", and a used permit's slot *)
(* can be taken by a later request.                                        *)
(***************************************************************************)
EXTENDS Integers, FiniteSets

CONSTANTS Permits,                \* request goroutines
          FailureThreshold,       \* Config, where 0 means the default
          OpenTimeout,            \*   (in seconds; the clock ticks seconds)
          HalfOpenMaxRequests,
          MaxTime,                \* bound: the clock stops here
          MaxGeneration           \* bound: no transition beyond this one

ASSUME BreakerAssumption ==
  /\ IsFiniteSet(Permits)
  /\ FailureThreshold \in Nat
  /\ OpenTimeout \in Nat
  /\ HalfOpenMaxRequests \in Nat
  /\ MaxTime \in Nat
  /\ MaxGeneration \in Nat

DefaultFailureThreshold == 5
DefaultOpenTimeout == 30
DefaultHalfOpenMaxRequests == 1

\* newWithConfig: a zero setting takes the package default.
failureThreshold ==
  IF FailureThreshold = 0 THEN DefaultFailureThreshold ELSE FailureThreshold
openTimeout ==
  IF OpenTimeout = 0 THEN DefaultOpenTimeout ELSE OpenTimeout
halfOpenMaxRequests ==
  IF HalfOpenMaxRequests = 0 THEN DefaultHalfOpenMaxRequests
                             ELSE HalfOpenMaxRequests

StateClosed == "closed"
StateOpen == "open"
StateHalfOpen == "half-open"
States == {StateClosed, StateOpen, StateHalfOpen}

VARIABLES state, consecutiveFailures, openedAt, generation,
          halfOpenAdmitted, halfOpenSuccesses,
          permit,                 \* the Permit of each request goroutine
          now                     \* the breaker's clock

breakerVars == <<state, consecutiveFailures, openedAt, generation,
                 halfOpenAdmitted, halfOpenSuccesses>>
vars == <<breakerVars, permit, now>>

Permit == [generation : Nat, probe : BOOLEAN, status : {"none", "live", "used"}]

TypeOK ==
  /\ state \in States
  /\ consecutiveFailures \in Nat
  /\ openedAt \in Nat
  /\ generation \in Nat
  /\ halfOpenAdmitted \in Nat
  /\ halfOpenSuccesses \in Nat
  /\ permit \in [Permits -> Permit]
  /\ now \in Nat

Init ==
  /\ state = StateClosed
  /\ consecutiveFailures = 0
  /\ openedAt = 0
  /\ generation = 0
  /\ halfOpenAdmitted = 0
  /\ halfOpenSuccesses = 0
  /\ permit = [p \in Permits |->
                 [generation |-> 0, probe |-> FALSE, status |-> "none"]]
  /\ now = 0

-----------------------------------------------------------------------------
\* Mutant: closing the breaker forgets to reset the failure counter.
transitionKeepsFailures(next, admitted, failures) ==
  /\ generation < MaxGeneration
  /\ state' = next
  /\ generation' = generation + 1
  /\ halfOpenAdmitted' = admitted
  /\ halfOpenSuccesses' = 0
  /\ openedAt' = IF next = StateOpen THEN now ELSE openedAt
  /\ consecutiveFailures' = failures

\* transitionLocked, with the two counters its callers also change in the same
\* critical section: the slot taken after it and the failures counted before.
transitionLocked(next, admitted, failures) ==
  /\ generation < MaxGeneration
  /\ state' = next
  /\ generation' = generation + 1
  /\ halfOpenAdmitted' = admitted
  /\ halfOpenSuccesses' = 0
  /\ openedAt' = IF next = StateOpen THEN now ELSE openedAt
  /\ consecutiveFailures' = IF next = StateClosed THEN 0 ELSE failures

\* The Permit that Acquire returns: it carries the generation and the state
\* in which the request was admitted.
Issue(p) ==
  /\ permit[p].status # "live"
  /\ permit' = [permit EXCEPT ![p] = [generation |-> generation',
                                      probe |-> state' = StateHalfOpen,
                                      status |-> "live"]]

\* The two fail-fast answers of Acquire.
ErrOpen == state = StateOpen /\ now < openedAt + openTimeout
ErrHalfOpenProbeLimit ==
  state = StateHalfOpen /\ halfOpenAdmitted >= halfOpenMaxRequests

AcquireClosed(p) ==
  /\ state = StateClosed
  /\ UNCHANGED <<breakerVars, now>>
  /\ Issue(p)

\* The open timeout has expired: move to half-open and take the first slot.
AcquireExpired(p) ==
  /\ state = StateOpen
  /\ ~ErrOpen
  /\ transitionLocked(StateHalfOpen, 1, consecutiveFailures)
  /\ Issue(p)
  /\ UNCHANGED now

AcquireProbe(p) ==
  /\ state = StateHalfOpen
  /\ ~ErrHalfOpenProbeLimit
  /\ halfOpenAdmitted' = halfOpenAdmitted + 1
  /\ UNCHANGED <<state, consecutiveFailures, openedAt, generation,
                 halfOpenSuccesses, now>>
  /\ Issue(p)

AcquireRejected(p) ==
  /\ permit[p].status # "live"
  /\ ErrOpen \/ ErrHalfOpenProbeLimit
  /\ UNCHANGED vars

Acquire(p) ==
  AcquireClosed(p) \/ AcquireExpired(p) \/ AcquireProbe(p) \/ AcquireRejected(p)

-----------------------------------------------------------------------------
\* Mutant: a permit accepts every result, not only the first.
DoEveryTime(p) ==
  /\ permit[p].status # "none"
  /\ permit' = [permit EXCEPT ![p].status = "used"]

\* Permit.once: only the first result or cancellation gets through.
OnceDo(p) ==
  /\ permit[p].status = "live"
  /\ permit' = [permit EXCEPT ![p].status = "used"]

\* Mutant: results of an obsolete generation are not told apart.
CountsAnyGeneration(p) ==
  state = IF permit[p].probe THEN StateHalfOpen ELSE StateClosed

\* record and cancel return early unless the permit is of this generation and
\* of the state that issued it.
Counts(p) ==
  /\ permit[p].generation = generation
  /\ state = IF permit[p].probe THEN StateHalfOpen ELSE StateClosed

RecordIgnored(p) ==
  /\ ~Counts(p)
  /\ OnceDo(p)
  /\ UNCHANGED <<breakerVars, now>>

RecordProbeSuccess(p) ==
  /\ permit[p].probe /\ Counts(p)
  /\ OnceDo(p)
  /\ IF halfOpenSuccesses + 1 = halfOpenMaxRequests
     THEN transitionLocked(StateClosed, 0, consecutiveFailures)
     ELSE /\ halfOpenSuccesses' = halfOpenSuccesses + 1
          /\ UNCHANGED <<state, consecutiveFailures, openedAt, generation,
                         halfOpenAdmitted>>
  /\ UNCHANGED now

RecordProbeFailure(p) ==
  /\ permit[p].probe /\ Counts(p)
  /\ OnceDo(p)
  /\ transitionLocked(StateOpen, 0, consecutiveFailures)
  /\ UNCHANGED now

RecordClosedSuccess(p) ==
  /\ ~permit[p].probe /\ Counts(p)
  /\ OnceDo(p)
  /\ consecutiveFailures' = 0
  /\ UNCHANGED <<state, openedAt, generation, halfOpenAdmitted,
                 halfOpenSuccesses, now>>

\* The failure that reaches the threshold opens the breaker; the counter
\* keeps its value until the breaker closes again.
RecordClosedFailure(p) ==
  /\ ~permit[p].probe /\ Counts(p)
  /\ OnceDo(p)
  /\ IF consecutiveFailures + 1 = failureThreshold
     THEN transitionLocked(StateOpen, 0, consecutiveFailures + 1)
     ELSE /\ consecutiveFailures' = consecutiveFailures + 1
          /\ UNCHANGED <<state, openedAt, generation, halfOpenAdmitted,
                         halfOpenSuccesses>>
  /\ UNCHANGED now

RecordSuccess(p) ==
  RecordIgnored(p) \/ RecordProbeSuccess(p) \/ RecordClosedSuccess(p)
RecordFailure(p) ==
  RecordIgnored(p) \/ RecordProbeFailure(p) \/ RecordClosedFailure(p)

\* Cancel gives an unused probe slot back; any other permit is just used up.
Cancel(p) ==
  /\ OnceDo(p)
  /\ halfOpenAdmitted' = IF permit[p].probe /\ Counts(p) /\ halfOpenAdmitted > 0
                         THEN halfOpenAdmitted - 1
                         ELSE halfOpenAdmitted
  /\ UNCHANGED <<state, consecutiveFailures, openedAt, generation,
                 halfOpenSuccesses, now>>

-----------------------------------------------------------------------------
validTransition(current, next) ==
  <<current, next>> \in {<<StateClosed, StateOpen>>, <<StateOpen, StateHalfOpen>>,
                         <<StateHalfOpen, StateClosed>>,
                         <<StateHalfOpen, StateOpen>>}

\* TransitionTo; repeating the state is a no-op and an invalid edge an error.
TransitionTo(next) ==
  \/ /\ validTransition(state, next)
     /\ transitionLocked(next, 0, consecutiveFailures)
     /\ UNCHANGED <<permit, now>>
  \/ /\ ~validTransition(state, next)
     /\ UNCHANGED vars

Tick ==
  /\ now < MaxTime
  /\ now' = now + 1
  /\ UNCHANGED <<breakerVars, permit>>

Next ==
  \/ \E p \in Permits : Acquire(p) \/ RecordSuccess(p) \/ RecordFailure(p)
                        \/ Cancel(p)
  \/ \E next \in States : TransitionTo(next)
  \/ Tick

Spec == Init /\ [][Next]_vars

-----------------------------------------------------------------------------
\* The permits whose result the breaker will still act on.
Current == {p \in Permits : permit[p].status = "live" /\ Counts(p)}

\* Half-open bookkeeping: every slot halfOpenAdmitted counts belongs either to
\* a probe of this batch that succeeded or to one that is still out, so a slot
\* is neither lost (the pool would refuse traffic forever) nor handed out
\* twice, however late results and cancellations of older batches arrive.
SlotsAccounted ==
  state = StateHalfOpen =>
    /\ halfOpenAdmitted = halfOpenSuccesses + Cardinality(Current)
    /\ halfOpenAdmitted <= halfOpenMaxRequests
    /\ halfOpenSuccesses < halfOpenMaxRequests

\* The failure counter never passes the threshold while the breaker is closed.
\* record compares with ==, so one overshoot would disarm the breaker for good.
ThresholdArmed ==
  state = StateClosed => consecutiveFailures < failureThreshold

\* The breaker keeps what CircuitBreaker promises: generations void exactly
\* the permits of earlier modes, halfOpenAdmitted is exactly the occupied
\* part of the batch, and the clock comparison is the timeout.
Promise == INSTANCE CircuitBreaker WITH
  Threshold <- failureThreshold,
  Timeout <- openTimeout,
  Batch <- halfOpenMaxRequests,
  mode <- state,
  streak <- IF state = StateClosed THEN consecutiveFailures ELSE 0,
  waited <- IF state = StateOpen
            THEN IF now < openedAt + openTimeout THEN now - openedAt
                                                 ELSE openTimeout
            ELSE 0,
  valid <- Current,
  passed <- halfOpenSuccesses

ImplementsCircuitBreaker == Promise!CBSpec
=============================================================================
