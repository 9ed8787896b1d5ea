--------------------------- MODULE Breaker_proofs ---------------------------
(***************************************************************************)
(* Machine-checked proofs about Breaker, for every set of requests and     *)
(* every configuration: the type invariant, the half-open bookkeeping, the *)
(* failure threshold, and that Breaker implements CircuitBreaker.          *)
(***************************************************************************)
EXTENDS Breaker, FiniteSetTheorems, TLAPS

\* The facts that make the safety invariants inductive.  No permit is newer
\* than the breaker, so a transition voids all of them at once; the success
\* counter is zero outside half-open, so a new batch starts from nothing; and
\* the breaker opened in the past.
IInv ==
  /\ TypeOK
  /\ SlotsAccounted
  /\ ThresholdArmed
  /\ state # StateHalfOpen => halfOpenSuccesses = 0
  /\ \A p \in Permits : permit[p].generation <= generation
  /\ openedAt <= now

USE DEF StateClosed, StateOpen, StateHalfOpen, States

-----------------------------------------------------------------------------
\* The effective settings that newWithConfig computes are positive.
LEMMA SettingsPositive ==
  /\ failureThreshold \in Nat \ {0}
  /\ openTimeout \in Nat \ {0}
  /\ halfOpenMaxRequests \in Nat \ {0}
BY BreakerAssumption
   DEF failureThreshold, openTimeout, halfOpenMaxRequests,
       DefaultFailureThreshold, DefaultOpenTimeout, DefaultHalfOpenMaxRequests

\* Current is a finite set, so counting its members makes sense.
LEMMA CurrentFinite ==
  /\ Current \subseteq Permits
  /\ IsFiniteSet(Current)
  /\ Cardinality(Current) \in Nat
<1>1. Current \subseteq Permits
  BY DEF Current
<1>2. IsFiniteSet(Current)
  BY <1>1, BreakerAssumption, FS_Subset
<1>. QED
  BY <1>1, <1>2, FS_CardinalityType

\* A transition voids every permit: none is current in the new generation.
LEMMA TransitionVoids ==
  ASSUME IInv, permit' \in [Permits -> Permit], generation' = generation + 1,
         \A p \in Permits : permit'[p].generation = permit[p].generation
  PROVE  Current' = {}
BY DEF IInv, TypeOK, Current, Counts

\* A transition that also issues a permit makes that permit the only one.
LEMMA TransitionIssues ==
  ASSUME IInv, NEW p \in Permits, generation < MaxGeneration,
         generation' = generation + 1, state' = StateHalfOpen, Issue(p)
  PROVE  Current' = {p}
<1>1. /\ permit'[p].status = "live"
      /\ permit'[p].generation = generation'
      /\ permit'[p].probe = (state' = StateHalfOpen)
      /\ \A q \in Permits \ {p} : permit'[q] = permit[q]
  BY DEF IInv, TypeOK, Issue
<1>2. \A q \in Permits \ {p} : permit'[q].generation # generation'
  BY <1>1 DEF IInv, TypeOK, Permit
<1>3. p \in Current'
  BY <1>1 DEF Current, Counts
<1>. QED
  BY <1>2, <1>3 DEF Current, Counts

\* Issuing a permit without a transition adds it to the current ones.
LEMMA IssueAdds ==
  ASSUME TypeOK, NEW p \in Permits, Issue(p),
         UNCHANGED <<state, generation>>, state # StateOpen
  PROVE  p \notin Current /\ Current' = Current \union {p}
BY DEF TypeOK, Permit, Current, Counts, Issue

\* Using a permit up without a transition removes it from the current ones.
LEMMA OnceDoRemoves ==
  ASSUME TypeOK, NEW p \in Permits, OnceDo(p), UNCHANGED <<state, generation>>
  PROVE  /\ Current' = Current \ {p}
         /\ p \in Current <=> Counts(p)
         /\ \A q \in Permits : permit'[q].generation = permit[q].generation
         /\ permit' \in [Permits -> Permit]
BY DEF TypeOK, Permit, Current, Counts, OnceDo

\* Every transition preserves the invariant, provided it leaves the right
\* number of slots taken: none, or the one permit it issues.
LEMMA TransitionPreserves ==
  ASSUME IInv, NEW next \in States, NEW admitted \in {0, 1},
         NEW failures \in Nat, transitionLocked(next, admitted, failures),
         permit' \in [Permits -> Permit],
         \A p \in Permits : permit'[p].generation <= generation',
         next = StateHalfOpen => Cardinality(Current') = admitted,
         UNCHANGED now
  PROVE  IInv'
<1>. USE SettingsPositive
<1>1. TypeOK'
  BY DEF IInv, TypeOK, transitionLocked
<1>2. SlotsAccounted'
  BY DEF IInv, TypeOK, SlotsAccounted, transitionLocked
<1>3. ThresholdArmed'
  BY DEF IInv, TypeOK, ThresholdArmed, transitionLocked
<1>. QED
  BY <1>1, <1>2, <1>3 DEF IInv, TypeOK, transitionLocked

\* The invariant is inductive.
LEMMA IInvStep == IInv /\ [Next]_vars => IInv'
<1>. SUFFICES ASSUME IInv, [Next]_vars PROVE IInv'
  OBVIOUS
<1>. USE SettingsPositive, CurrentFinite
<1>1. ASSUME NEW p \in Permits, AcquireClosed(p) PROVE IInv'
  <2>1. TypeOK'
    BY <1>1 DEF AcquireClosed, Issue, breakerVars, IInv, TypeOK, Permit
  <2>. QED
    BY <1>1, <2>1 DEF AcquireClosed, Issue, breakerVars, IInv, TypeOK, Permit,
                      SlotsAccounted, ThresholdArmed
<1>2. ASSUME NEW p \in Permits, AcquireExpired(p) PROVE IInv'
  <2>1. Issue(p) /\ transitionLocked(StateHalfOpen, 1, consecutiveFailures)
    BY <1>2 DEF AcquireExpired
  <2>2. Current' = {p}
    BY <2>1, TransitionIssues DEF transitionLocked
  <2>3. Cardinality(Current') = 1
    BY <2>2, FS_Singleton
  <2>4. /\ permit' \in [Permits -> Permit]
        /\ \A q \in Permits : permit'[q].generation <= generation'
    BY <2>1 DEF Issue, transitionLocked, IInv, TypeOK, Permit
  <2>. QED
    BY <1>2, <2>1, <2>3, <2>4, TransitionPreserves DEF AcquireExpired, IInv, TypeOK
<1>3. ASSUME NEW p \in Permits, AcquireProbe(p) PROVE IInv'
  <2>1. p \notin Current /\ Current' = Current \union {p}
    BY <1>3, IssueAdds DEF AcquireProbe, IInv
  <2>2. Cardinality(Current') = Cardinality(Current) + 1
    BY <2>1, FS_AddElement
  <2>3. TypeOK'
    BY <1>3 DEF AcquireProbe, Issue, IInv, TypeOK, Permit
  <2>4. SlotsAccounted'
    BY <1>3, <2>2 DEF AcquireProbe, ErrHalfOpenProbeLimit, IInv, TypeOK,
                      SlotsAccounted
  <2>. QED
    BY <1>3, <2>3, <2>4 DEF AcquireProbe, Issue, IInv, TypeOK, Permit,
                            ThresholdArmed
<1>4. ASSUME NEW p \in Permits, AcquireRejected(p) PROVE IInv'
  BY <1>4 DEF AcquireRejected, vars, breakerVars, IInv, TypeOK, SlotsAccounted,
              ThresholdArmed, Current, Counts
<1>5. ASSUME NEW p \in Permits, RecordIgnored(p) PROVE IInv'
  <2>1. OnceDo(p) /\ UNCHANGED <<breakerVars, now>> /\ ~Counts(p)
    BY <1>5 DEF RecordIgnored
  <2>2. Current' = Current /\ permit' \in [Permits -> Permit]
        /\ \A q \in Permits : permit'[q].generation = permit[q].generation
    BY <2>1, OnceDoRemoves DEF breakerVars, IInv
  <2>. QED
    BY <2>1, <2>2 DEF breakerVars, IInv, TypeOK, SlotsAccounted, ThresholdArmed
<1>6. ASSUME NEW p \in Permits, RecordProbeSuccess(p) PROVE IInv'
  <2>1. CASE halfOpenSuccesses + 1 = halfOpenMaxRequests
    <3>1. transitionLocked(StateClosed, 0, consecutiveFailures) /\ OnceDo(p)
      BY <1>6, <2>1 DEF RecordProbeSuccess
    <3>2. /\ permit' \in [Permits -> Permit]
          /\ \A q \in Permits : permit'[q].generation <= generation'
      BY <3>1 DEF OnceDo, transitionLocked, IInv, TypeOK, Permit
    <3>. QED
      BY <1>6, <3>1, <3>2, TransitionPreserves
         DEF RecordProbeSuccess, IInv, TypeOK
  <2>2. CASE halfOpenSuccesses + 1 # halfOpenMaxRequests
    <3>1. /\ halfOpenSuccesses' = halfOpenSuccesses + 1
          /\ UNCHANGED <<state, consecutiveFailures, openedAt, generation,
                         halfOpenAdmitted, now>>
          /\ OnceDo(p) /\ Counts(p) /\ state = StateHalfOpen
      BY <1>6, <2>2 DEF RecordProbeSuccess, Counts
    <3>2. /\ Current' = Current \ {p} /\ p \in Current
          /\ permit' \in [Permits -> Permit]
          /\ \A q \in Permits : permit'[q].generation = permit[q].generation
      BY <3>1, OnceDoRemoves DEF IInv
    <3>3. Cardinality(Current') = Cardinality(Current) - 1
      BY <3>2, FS_RemoveElement
    <3>4. SlotsAccounted'
      BY <2>2, <3>1, <3>3 DEF IInv, TypeOK, SlotsAccounted
    <3>. QED
      BY <3>1, <3>2, <3>4 DEF IInv, TypeOK, ThresholdArmed
  <2>. QED
    BY <2>1, <2>2
<1>7. ASSUME NEW p \in Permits, RecordProbeFailure(p) PROVE IInv'
  <2>1. transitionLocked(StateOpen, 0, consecutiveFailures) /\ OnceDo(p)
    BY <1>7 DEF RecordProbeFailure
  <2>2. /\ permit' \in [Permits -> Permit]
        /\ \A q \in Permits : permit'[q].generation <= generation'
    BY <2>1 DEF OnceDo, transitionLocked, IInv, TypeOK, Permit
  <2>. QED
    BY <1>7, <2>1, <2>2, TransitionPreserves DEF RecordProbeFailure, IInv, TypeOK
<1>8. ASSUME NEW p \in Permits, RecordClosedSuccess(p) PROVE IInv'
  <2>1. OnceDo(p) /\ state = StateClosed /\ UNCHANGED <<state, generation>>
    BY <1>8 DEF RecordClosedSuccess, Counts
  <2>2. /\ permit' \in [Permits -> Permit]
        /\ \A q \in Permits : permit'[q].generation = permit[q].generation
    BY <2>1, OnceDoRemoves DEF IInv
  <2>. QED
    BY <1>8, <2>1, <2>2 DEF RecordClosedSuccess, IInv, TypeOK, SlotsAccounted,
                            ThresholdArmed
<1>9. ASSUME NEW p \in Permits, RecordClosedFailure(p) PROVE IInv'
  <2>0. state = StateClosed /\ OnceDo(p)
    BY <1>9 DEF RecordClosedFailure, Counts
  <2>1. CASE consecutiveFailures + 1 = failureThreshold
    <3>1. transitionLocked(StateOpen, 0, consecutiveFailures + 1)
      BY <1>9, <2>1 DEF RecordClosedFailure
    <3>2. /\ permit' \in [Permits -> Permit]
          /\ \A q \in Permits : permit'[q].generation <= generation'
      BY <2>0, <3>1 DEF OnceDo, transitionLocked, IInv, TypeOK, Permit
    <3>. QED
      BY <1>9, <3>1, <3>2, TransitionPreserves
         DEF RecordClosedFailure, IInv, TypeOK
  <2>2. CASE consecutiveFailures + 1 # failureThreshold
    <3>1. /\ consecutiveFailures' = consecutiveFailures + 1
          /\ UNCHANGED <<state, openedAt, generation, halfOpenAdmitted,
                         halfOpenSuccesses, now>>
      BY <1>9, <2>2 DEF RecordClosedFailure
    <3>2. /\ permit' \in [Permits -> Permit]
          /\ \A q \in Permits : permit'[q].generation = permit[q].generation
      BY <2>0, <3>1, OnceDoRemoves DEF IInv
    <3>. QED
      BY <2>0, <2>2, <3>1, <3>2 DEF IInv, TypeOK, SlotsAccounted, ThresholdArmed
  <2>. QED
    BY <2>1, <2>2
<1>10. ASSUME NEW p \in Permits, Cancel(p) PROVE IInv'
  <2>1. /\ OnceDo(p)
        /\ UNCHANGED <<state, consecutiveFailures, openedAt, generation,
                       halfOpenSuccesses, now>>
    BY <1>10 DEF Cancel
  <2>2. /\ Current' = Current \ {p}
        /\ p \in Current <=> Counts(p)
        /\ permit' \in [Permits -> Permit]
        /\ \A q \in Permits : permit'[q].generation = permit[q].generation
    BY <2>1, OnceDoRemoves DEF IInv
  <2>3. SlotsAccounted'
    <3>. SUFFICES ASSUME state = StateHalfOpen PROVE SlotsAccounted'
      BY <2>1 DEF SlotsAccounted
    <3>1. CASE Counts(p)
      <4>1. Cardinality(Current') = Cardinality(Current) - 1
        BY <2>2, <3>1, FS_RemoveElement
      <4>2. permit[p].probe
        BY <3>1 DEF Counts
      <4>3. Cardinality(Current) > 0
        BY <2>2, <3>1, FS_EmptySet
      <4>4. halfOpenAdmitted' = halfOpenAdmitted - 1
        BY <1>10, <3>1, <4>2, <4>3 DEF Cancel, IInv, TypeOK, SlotsAccounted
      <4>. QED
        BY <2>1, <4>1, <4>4 DEF IInv, TypeOK, SlotsAccounted
    <3>2. CASE ~Counts(p)
      <4>1. Current' = Current /\ halfOpenAdmitted' = halfOpenAdmitted
        BY <1>10, <2>2, <3>2 DEF Cancel
      <4>. QED
        BY <2>1, <4>1 DEF IInv, TypeOK, SlotsAccounted
    <3>. QED
      BY <3>1, <3>2
  <2>4. TypeOK'
    BY <1>10, <2>1, <2>2 DEF Cancel, IInv, TypeOK
  <2>. QED
    BY <2>1, <2>2, <2>3, <2>4 DEF IInv, TypeOK, ThresholdArmed
<1>11. ASSUME NEW next \in States, TransitionTo(next) PROVE IInv'
  <2>1. CASE UNCHANGED vars
    BY <2>1 DEF vars, breakerVars, IInv, TypeOK, SlotsAccounted, ThresholdArmed,
                Current, Counts
  <2>2. CASE transitionLocked(next, 0, consecutiveFailures) /\ UNCHANGED <<permit, now>>
    <3>1. Current' = {}
      BY <2>2, TransitionVoids DEF transitionLocked, IInv, TypeOK
    <3>2. Cardinality(Current') = 0
      BY <3>1, FS_EmptySet
    <3>3. \A q \in Permits : permit'[q].generation <= generation'
      BY <2>2 DEF transitionLocked, IInv, TypeOK, Permit
    <3>. QED
      BY <2>2, <3>2, <3>3, TransitionPreserves DEF IInv, TypeOK
  <2>. QED
    BY <1>11, <2>1, <2>2 DEF TransitionTo
<1>12. CASE Tick
  BY <1>12 DEF Tick, breakerVars, IInv, TypeOK, SlotsAccounted, ThresholdArmed,
               Current, Counts
<1>13. CASE UNCHANGED vars
  BY <1>13 DEF vars, breakerVars, IInv, TypeOK, SlotsAccounted, ThresholdArmed,
               Current, Counts
<1>. QED
  BY <1>1, <1>2, <1>3, <1>4, <1>5, <1>6, <1>7, <1>8, <1>9, <1>10, <1>11, <1>12,
     <1>13 DEF Next, Acquire, RecordSuccess, RecordFailure

\* IInv holds in every reachable state of the breaker.
LEMMA IInvInvariant == Spec => []IInv
<1>1. Init => IInv
  BY SettingsPositive DEF Init, IInv, TypeOK, Permit, SlotsAccounted, ThresholdArmed
<1>. QED
  BY <1>1, IInvStep, PTL DEF Spec

\* Every variable of the breaker keeps its type; in particular neither half-open
\* counter ever goes below zero.
THEOREM TypeCorrect == Spec => []TypeOK
<1>1. IInv => TypeOK
  BY DEF IInv
<1>. QED
  BY <1>1, IInvInvariant, PTL

\* Acquire, record, cancel and transitionLocked keep every half-open slot
\* accounted for, for any number of requests and any batch size.
THEOREM SlotsAlwaysAccounted == Spec => []SlotsAccounted
<1>1. IInv => SlotsAccounted
  BY DEF IInv
<1>. QED
  BY <1>1, IInvInvariant, PTL

\* record's equality test against failureThreshold never misses.
THEOREM ThresholdAlwaysArmed == Spec => []ThresholdArmed
<1>1. IInv => ThresholdArmed
  BY DEF IInv
<1>. QED
  BY <1>1, IInvInvariant, PTL

-----------------------------------------------------------------------------
\* A transition of the breaker is an entry of the promised machine.
LEMMA TransitionEnters ==
  ASSUME IInv, NEW next \in States, NEW admitted, NEW failures,
         transitionLocked(next, admitted, failures), UNCHANGED now
  PROVE  Promise!Enter(next, Current')
BY SettingsPositive DEF IInv, TypeOK, transitionLocked, Promise!Enter

\* The promise counts permits with the same Cardinality as the breaker.
LEMMA SameCardinality == \A S : Promise!Cardinality(S) = Cardinality(S)
BY DEF Promise!Cardinality, Cardinality

\* Every step of the breaker is a step of the promised machine or none at all.
LEMMA StepSimulation == IInv /\ [Next]_vars => [Promise!CBNext]_(Promise!cbVars)
<1>. SUFFICES ASSUME IInv, [Next]_vars PROVE [Promise!CBNext]_(Promise!cbVars)
  OBVIOUS
<1>. USE SettingsPositive, CurrentFinite
<1>1. ASSUME NEW p \in Permits, AcquireClosed(p) PROVE Promise!Admit(p)
  <2>1. p \notin Current /\ Current' = Current \union {p}
    BY <1>1, IssueAdds DEF AcquireClosed, breakerVars, IInv
  <2>. QED
    BY <1>1, <2>1 DEF AcquireClosed, breakerVars, Promise!Admit, Promise!Refusing
<1>2. ASSUME NEW p \in Permits, AcquireExpired(p) PROVE Promise!Admit(p)
  <2>1. Issue(p) /\ transitionLocked(StateHalfOpen, 1, consecutiveFailures)
        /\ state = StateOpen /\ ~ErrOpen /\ UNCHANGED now
    BY <1>2 DEF AcquireExpired
  <2>2. Current' = {p}
    BY <2>1, TransitionIssues DEF transitionLocked
  <2>3. p \notin Current
    BY <2>1 DEF Current, Counts, Issue
  <2>4. Promise!Enter(StateHalfOpen, {p})
    BY <2>1, <2>2, TransitionEnters
  <2>. QED
    BY <2>1, <2>3, <2>4 DEF ErrOpen, Promise!Admit, Promise!Refusing
<1>3. ASSUME NEW p \in Permits, AcquireProbe(p) PROVE Promise!Admit(p)
  <2>1. p \notin Current /\ Current' = Current \union {p}
    BY <1>3, IssueAdds DEF AcquireProbe, IInv
  <2>2. state = StateHalfOpen
        /\ UNCHANGED <<state, consecutiveFailures, openedAt, halfOpenSuccesses, now>>
    BY <1>3 DEF AcquireProbe
  <2>3. ~Promise!Refusing
    BY <1>3, <2>2, SameCardinality DEF AcquireProbe, ErrHalfOpenProbeLimit, IInv, TypeOK,
                      SlotsAccounted, Promise!Refusing
  <2>. QED
    BY <2>1, <2>2, <2>3 DEF Promise!Admit
<1>4. ASSUME NEW p \in Permits, AcquireRejected(p) PROVE UNCHANGED Promise!cbVars
  BY <1>4 DEF AcquireRejected, vars, breakerVars, Current, Counts, Promise!cbVars
<1>5. ASSUME NEW p \in Permits, RecordIgnored(p) PROVE UNCHANGED Promise!cbVars
  <2>1. Current' = Current
    BY <1>5, OnceDoRemoves DEF RecordIgnored, breakerVars, IInv
  <2>. QED
    BY <1>5, <2>1 DEF RecordIgnored, breakerVars, Promise!cbVars
<1>6. ASSUME NEW p \in Permits, RecordProbeSuccess(p) PROVE Promise!Succeed(p)
  <2>0. state = StateHalfOpen /\ OnceDo(p) /\ Counts(p) /\ p \in Current
    BY <1>6 DEF RecordProbeSuccess, Counts, OnceDo, Current
  <2>1. CASE halfOpenSuccesses + 1 = halfOpenMaxRequests
    <3>1. transitionLocked(StateClosed, 0, consecutiveFailures) /\ UNCHANGED now
      BY <1>6, <2>1 DEF RecordProbeSuccess
    <3>2. Current' = {}
      BY <2>0, <3>1, TransitionVoids DEF OnceDo, transitionLocked, IInv, TypeOK, Permit
    <3>3. Promise!Enter(StateClosed, {})
      BY <3>1, <3>2, TransitionEnters
    <3>. QED
      BY <2>0, <2>1, <3>3 DEF Promise!Succeed
  <2>2. CASE halfOpenSuccesses + 1 # halfOpenMaxRequests
    <3>1. /\ halfOpenSuccesses' = halfOpenSuccesses + 1
          /\ UNCHANGED <<state, consecutiveFailures, openedAt, generation, now>>
      BY <1>6, <2>2 DEF RecordProbeSuccess
    <3>2. Current' = Current \ {p}
      BY <2>0, <3>1, OnceDoRemoves DEF IInv
    <3>3. halfOpenSuccesses + 1 < halfOpenMaxRequests
      BY <2>0, <2>2 DEF IInv, TypeOK, SlotsAccounted
    <3>. QED
      BY <2>0, <3>1, <3>2, <3>3 DEF Promise!Succeed
  <2>. QED
    BY <2>1, <2>2
<1>7. ASSUME NEW p \in Permits, RecordProbeFailure(p) PROVE Promise!Fail(p)
  <2>1. /\ state = StateHalfOpen /\ OnceDo(p) /\ p \in Current /\ UNCHANGED now
        /\ transitionLocked(StateOpen, 0, consecutiveFailures)
    BY <1>7 DEF RecordProbeFailure, Counts, OnceDo, Current
  <2>2. Current' = {}
    BY <2>1, TransitionVoids DEF OnceDo, transitionLocked, IInv, TypeOK, Permit
  <2>3. Promise!Enter(StateOpen, {})
    BY <2>1, <2>2, TransitionEnters
  <2>. QED
    BY <2>1, <2>3 DEF Promise!Fail
<1>8. ASSUME NEW p \in Permits, RecordClosedSuccess(p) PROVE Promise!Succeed(p)
  <2>1. state = StateClosed /\ OnceDo(p) /\ p \in Current
    BY <1>8 DEF RecordClosedSuccess, Counts, OnceDo, Current
  <2>2. Current' = Current \ {p}
    BY <1>8, <2>1, OnceDoRemoves DEF RecordClosedSuccess, IInv
  <2>. QED
    BY <1>8, <2>1, <2>2 DEF RecordClosedSuccess, Promise!Succeed
<1>9. ASSUME NEW p \in Permits, RecordClosedFailure(p) PROVE Promise!Fail(p)
  <2>0. state = StateClosed /\ OnceDo(p) /\ p \in Current
    BY <1>9 DEF RecordClosedFailure, Counts, OnceDo, Current
  <2>1. CASE consecutiveFailures + 1 = failureThreshold
    <3>1. transitionLocked(StateOpen, 0, consecutiveFailures + 1) /\ UNCHANGED now
      BY <1>9, <2>1 DEF RecordClosedFailure
    <3>2. Current' = {}
      BY <2>0, <3>1, TransitionVoids DEF OnceDo, transitionLocked, IInv, TypeOK, Permit
    <3>3. Promise!Enter(StateOpen, {})
      BY <3>1, <3>2, TransitionEnters
    <3>. QED
      BY <2>0, <2>1, <3>3 DEF Promise!Fail
  <2>2. CASE consecutiveFailures + 1 # failureThreshold
    <3>1. /\ consecutiveFailures' = consecutiveFailures + 1
          /\ UNCHANGED <<state, openedAt, generation, halfOpenSuccesses, now>>
      BY <1>9, <2>2 DEF RecordClosedFailure
    <3>2. Current' = Current \ {p}
      BY <2>0, <3>1, OnceDoRemoves DEF IInv
    <3>3. consecutiveFailures + 1 < failureThreshold
      BY <2>0, <2>2 DEF IInv, TypeOK, ThresholdArmed
    <3>. QED
      BY <2>0, <3>1, <3>2, <3>3 DEF Promise!Fail
  <2>. QED
    BY <2>1, <2>2
<1>10. ASSUME NEW p \in Permits, Cancel(p)
       PROVE  Promise!Withdraw(p) \/ UNCHANGED Promise!cbVars
  <2>1. Current' = Current \ {p}
    BY <1>10, OnceDoRemoves DEF Cancel, IInv
  <2>2. CASE p \in Current
    BY <1>10, <2>1, <2>2 DEF Cancel, Promise!Withdraw
  <2>3. CASE p \notin Current
    BY <1>10, <2>1, <2>3 DEF Cancel, Promise!cbVars
  <2>. QED
    BY <2>2, <2>3
<1>11. ASSUME NEW next \in States, TransitionTo(next)
       PROVE  Promise!Force(next) \/ UNCHANGED Promise!cbVars
  <2>1. CASE UNCHANGED vars
    BY <2>1 DEF vars, breakerVars, Current, Counts, Promise!cbVars
  <2>2. CASE /\ validTransition(state, next)
             /\ transitionLocked(next, 0, consecutiveFailures)
             /\ UNCHANGED <<permit, now>>
    <3>1. Current' = {}
      BY <2>2, TransitionVoids DEF transitionLocked, IInv, TypeOK
    <3>2. Promise!Enter(next, {})
      BY <2>2, <3>1, TransitionEnters
    <3>. QED
      BY <2>2, <3>2 DEF validTransition, Promise!Force
  <2>. QED
    BY <1>11, <2>1, <2>2 DEF TransitionTo
<1>12. CASE Tick
  <2>1. Current' = Current
    BY <1>12 DEF Tick, breakerVars, Current, Counts
  <2>2. CASE ErrOpen
    BY <1>12, <2>1, <2>2 DEF Tick, breakerVars, ErrOpen, IInv, TypeOK,
                             Promise!CBNext, Promise!Wait
  <2>3. CASE ~ErrOpen
    BY <1>12, <2>1, <2>3 DEF Tick, breakerVars, ErrOpen, IInv, TypeOK,
                             Promise!cbVars
  <2>. QED
    BY <2>2, <2>3
<1>13. CASE UNCHANGED vars
  BY <1>13 DEF vars, breakerVars, Current, Counts, Promise!cbVars
<1>. QED
  BY <1>1, <1>2, <1>3, <1>4, <1>5, <1>6, <1>7, <1>8, <1>9, <1>10, <1>11, <1>12,
     <1>13 DEF Next, Acquire, RecordSuccess, RecordFailure, Promise!CBNext

\* The breaker implements the circuit breaker it promises: generation numbers,
\* slot counters and absolute times are invisible to the requests.
THEOREM BreakerImplementsCircuitBreaker == Spec => ImplementsCircuitBreaker
<1>1. Init => Promise!CBInit
  BY DEF Init, Promise!CBInit, Current, Counts
<1>. QED
  BY <1>1, StepSimulation, IInvInvariant, PTL
     DEF Spec, ImplementsCircuitBreaker, Promise!CBSpec
=============================================================================
