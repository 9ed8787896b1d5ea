------------------------- MODULE GatewayPool_proofs -------------------------
(***************************************************************************)
(* Machine-checked proofs about GatewayPool, for every number of requests  *)
(* and backends and every setting of the breaker: the type invariant, that *)
(* permits and backends come back on every path of a request, and the      *)
(* limit on the probes of a recovery attempt.                              *)
(***************************************************************************)
EXTENDS GatewayPool, FiniteSetTheorems, TLAPS

\* ProbeBudget is not inductive: a permit that is still on its way to the
\* balancer is counted only when the round trip begins.  Bounded counts it from
\* the moment the breaker admits it.
Bounded == mode = "half-open" => passed + Cardinality(valid) <= Batch

IInv == TypeOK /\ PermitsSettled /\ BackendsReturned /\ Bounded

cbType == CB!CBTypeOK

bpType ==
  /\ healthy \in [Backends -> BOOLEAN]
  /\ asking \subseteq Requests
  /\ assigned \in [Requests -> Backends \union {NoBackend}]
  /\ steady \in [Requests -> SUBSET Backends]
  /\ seen \in [Requests -> SUBSET Backends]

requestType ==
  /\ pc \in [Requests -> {"idle", "admitted", "asking", "refused", "roundtrip",
                          "body", "upgrade", "release"}]
  /\ verdict \in [Requests -> {"none", "success", "failure"}]
  /\ broken \subseteq Requests
  /\ faulty \in BOOLEAN

\* TypeOK speaks of the breaker, of the pool and of the requests.
LEMMA TypeParts == TypeOK <=> cbType /\ bpType /\ requestType
BY DEF TypeOK, cbType, bpType, requestType

-----------------------------------------------------------------------------
\* The breaker counts permits with the same Cardinality as this module.
LEMMA SameCardinality == \A S : CB!Cardinality(S) = Cardinality(S)
BY DEF CB!Cardinality, Cardinality

\* The permits are finitely many.
LEMMA ValidFinite ==
  ASSUME cbType
  PROVE  IsFiniteSet(valid) /\ Cardinality(valid) \in Nat
<1>1. IsFiniteSet(valid)
  BY FS_Subset, GatewayPoolAssumption DEF cbType, CB!CBTypeOK
<1> QED
  BY <1>1, FS_CardinalityType

\* Acquire: the permit of p becomes valid, others stay so or become void, and
\* the batch does not overflow.
LEMMA AdmitEffect ==
  ASSUME cbType, Bounded, NEW p \in Requests, CB!Admit(p)
  PROVE  cbType' /\ Bounded' /\ valid' \subseteq valid \union {p}
<1> USE GatewayPoolAssumption
<1>1. CASE mode = "open"
  <2>1. CB!Enter("half-open", {p})
    BY <1>1 DEF CB!Admit
  <2>2. Cardinality(valid') = 1
    BY <2>1, FS_Singleton DEF CB!Enter
  <2> QED
    BY <2>1, <2>2 DEF CB!Enter, cbType, CB!CBTypeOK, Bounded
<1>2. CASE mode # "open"
  <2>1. /\ p \notin valid /\ valid' = valid \union {p} /\ ~CB!Refusing
        /\ UNCHANGED <<mode, streak, waited, passed>>
    BY <1>2 DEF CB!Admit
  <2>2. Cardinality(valid') = Cardinality(valid) + 1
    BY <2>1, ValidFinite, FS_AddElement
  <2>3. cbType'
    BY <2>1 DEF cbType, CB!CBTypeOK
  <2>4. mode = "half-open" => passed + Cardinality(valid) < Batch
    BY <2>1, ValidFinite, SameCardinality DEF CB!Refusing, cbType, CB!CBTypeOK
  <2>5. Bounded'
    BY <2>1, <2>2, <2>4, ValidFinite DEF Bounded, cbType, CB!CBTypeOK
  <2> QED
    BY <2>1, <2>3, <2>5
<1> QED
  BY <1>1, <1>2

\* Dropping a permit without leaving the mode makes room in the batch.
LEMMA RemoveBounded ==
  ASSUME cbType, Bounded, NEW p \in valid, valid' = valid \ {p},
         UNCHANGED mode, passed' \in {passed, passed + 1}
  PROVE  Bounded'
<1>1. Cardinality(valid') = Cardinality(valid) - 1
  BY ValidFinite, FS_RemoveElement
<1> QED
  BY <1>1, ValidFinite, GatewayPoolAssumption DEF Bounded, cbType, CB!CBTypeOK

\* RecordSuccess, RecordFailure and Cancel: the permit of p is void afterwards
\* and no other becomes valid.
LEMMA SettleEffect ==
  ASSUME cbType, Bounded, NEW p \in Requests,
         CB!Succeed(p) \/ CB!Fail(p) \/ CB!Withdraw(p)
  PROVE  cbType' /\ Bounded' /\ valid' \subseteq valid \ {p}
<1> USE GatewayPoolAssumption
<1>1. CASE CB!Enter("closed", {}) \/ CB!Enter("open", {})
  BY <1>1 DEF CB!Enter, cbType, CB!CBTypeOK, Bounded
<1>2. CASE /\ p \in valid /\ valid' = valid \ {p}
           /\ UNCHANGED <<mode, waited>>
           /\ streak' \in 0 .. Threshold - 1
           /\ passed' \in {passed, passed + 1} /\ passed' < Batch
  <2>1. cbType'
    BY <1>2 DEF cbType, CB!CBTypeOK
  <2> QED
    BY <1>2, <2>1, RemoveBounded
<1>3. CB!Succeed(p) => \/ CB!Enter("closed", {})
                       \/ /\ p \in valid /\ valid' = valid \ {p}
                          /\ UNCHANGED <<mode, waited>>
                          /\ streak' \in 0 .. Threshold - 1
                          /\ passed' \in {passed, passed + 1} /\ passed' < Batch
  BY DEF CB!Succeed, cbType, CB!CBTypeOK
<1>4. CB!Fail(p) => \/ CB!Enter("open", {})
                    \/ /\ p \in valid /\ valid' = valid \ {p}
                       /\ UNCHANGED <<mode, waited>>
                       /\ streak' \in 0 .. Threshold - 1
                       /\ passed' \in {passed, passed + 1} /\ passed' < Batch
  BY DEF CB!Fail, cbType, CB!CBTypeOK
<1>5. CB!Withdraw(p) => /\ p \in valid /\ valid' = valid \ {p}
                        /\ UNCHANGED <<mode, waited>>
                        /\ streak' \in 0 .. Threshold - 1
                        /\ passed' \in {passed, passed + 1} /\ passed' < Batch
  BY DEF CB!Withdraw, cbType, CB!CBTypeOK
<1> QED
  BY <1>1, <1>2, <1>3, <1>4, <1>5

\* Record, whether or not the permit is still valid.
LEMMA RecordEffect ==
  ASSUME cbType, Bounded, requestType, NEW r \in Requests,
         NEW success \in BOOLEAN, Record(r, success)
  PROVE  /\ cbType' /\ Bounded' /\ valid' \subseteq valid \ {r}
         /\ verdict' \in [Requests -> {"none", "success", "failure"}]
<1>1. verdict' \in [Requests -> {"none", "success", "failure"}]
  BY DEF Record, requestType
<1>2. CASE r \in valid
  <2>1. CB!Succeed(r) \/ CB!Fail(r)
    BY <1>2 DEF Record
  <2> QED
    BY <1>1, <2>1, SettleEffect
<1>3. CASE r \notin valid
  BY <1>1, <1>3 DEF Record, cbVars, cbType, CB!CBTypeOK, Bounded
<1> QED
  BY <1>2, <1>3

-----------------------------------------------------------------------------
\* The invariant is inductive.  One step per action: the breaker's part by the
\* lemmas above, and where the action leaves r.
LEMMA IInvStep == IInv /\ [Next]_vars => IInv'
<1> SUFFICES ASSUME IInv, [Next]_vars PROVE IInv'
  OBVIOUS
<1> USE GatewayPoolAssumption
<1>0. cbType /\ bpType /\ requestType /\ PermitsSettled /\ BackendsReturned /\ Bounded
  BY TypeParts DEF IInv
<1>a. ASSUME cbType', bpType', requestType', PermitsSettled', BackendsReturned', Bounded'
      PROVE  IInv'
  BY <1>a DEF IInv, TypeOK, cbType, bpType, requestType
<1>b. ASSUME UNCHANGED cbVars
      PROVE  cbType' /\ Bounded' /\ valid' = valid
  BY <1>0, <1>b DEF cbVars, cbType, CB!CBTypeOK, Bounded
<1>c. ASSUME UNCHANGED bpVars
      PROVE  bpType' /\ assigned' = assigned
  BY <1>0, <1>c DEF bpVars, bpType
<1>1. ASSUME NEW r \in Requests, FailFast(r) PROVE IInv'
  BY <1>0, <1>1, <1>a, <1>b, <1>c
     DEF FailFast, vars, requestVars, requestType, PermitsSettled, BackendsReturned
<1>2. ASSUME NEW r \in Requests, Admitted(r) PROVE IInv'
  <2>1. cbType' /\ Bounded' /\ valid' \subseteq valid \union {r}
    BY <1>0, <1>2, AdmitEffect DEF Admitted
  <2>2. Step(r, "idle", "admitted") /\ UNCHANGED <<bpVars, verdict, broken, faulty>>
    BY <1>2 DEF Admitted
  <2> QED
    BY <1>0, <1>a, <1>c, <2>1, <2>2
       DEF Step, requestType, PermitsSettled, BackendsReturned
<1>3. ASSUME NEW r \in Requests, AskBalancer(r) PROVE IInv'
  <2>1. bpType' /\ assigned' = assigned
    BY <1>0, <1>3 DEF AskBalancer, BP!Ask, BP!Up, bpType
  <2>2. Step(r, "admitted", "asking") /\ UNCHANGED <<cbVars, verdict, broken, faulty>>
    BY <1>3 DEF AskBalancer
  <2> QED
    BY <1>0, <1>a, <1>b, <2>1, <2>2
       DEF Step, requestType, PermitsSettled, BackendsReturned
<1>4. ASSUME NEW r \in Requests, Assigned(r) PROVE IInv'
  <2>1. PICK b \in Backends : BP!Assign(r, b)
    BY <1>4 DEF Assigned
  <2>2. bpType' /\ assigned' = [assigned EXCEPT ![r] = b]
    BY <1>0, <2>1 DEF BP!Assign, BP!Answer, bpType
  <2>3. Step(r, "asking", "roundtrip") /\ UNCHANGED <<cbVars, verdict, broken, faulty>>
    BY <1>4 DEF Assigned
  <2> QED
    BY <1>0, <1>a, <1>b, <2>2, <2>3
       DEF Step, bpType, requestType, PermitsSettled, BackendsReturned
<1>5. ASSUME NEW r \in Requests, NoHealthyBackends(r) PROVE IInv'
  <2>1. bpType' /\ assigned' = assigned
    BY <1>0, <1>5 DEF NoHealthyBackends, BP!Refuse, BP!Answer, bpType
  <2>2. Step(r, "asking", "refused") /\ UNCHANGED <<cbVars, verdict, broken, faulty>>
    BY <1>5 DEF NoHealthyBackends
  <2> QED
    BY <1>0, <1>a, <1>b, <2>1, <2>2
       DEF Step, requestType, PermitsSettled, BackendsReturned
<1>6. ASSUME NEW r \in Requests, CancelPermit(r) PROVE IInv'
  <2>1. cbType' /\ Bounded' /\ valid' \subseteq valid \ {r}
    BY <1>0, <1>6, <1>b, SettleEffect DEF CancelPermit
  <2>2. Step(r, "refused", "idle") /\ UNCHANGED <<bpVars, verdict, broken, faulty>>
    BY <1>6 DEF CancelPermit
  <2> QED
    BY <1>0, <1>a, <1>c, <2>1, <2>2
       DEF Step, requestType, PermitsSettled, BackendsReturned
<1>7. ASSUME NEW r \in Requests, ResponseHeader(r) \/ TransportError(r) PROVE IInv'
  <2>1. PICK success \in BOOLEAN : Record(r, success)
    BY <1>7 DEF ResponseHeader, TransportError
  <2>2. /\ cbType' /\ Bounded' /\ valid' \subseteq valid \ {r}
        /\ verdict' \in [Requests -> {"none", "success", "failure"}]
    BY <1>0, <2>1, RecordEffect
  <2>3. PICK to \in {"body", "upgrade", "release"} : Step(r, "roundtrip", to)
    BY <1>7 DEF ResponseHeader, TransportError
  <2>4. UNCHANGED <<bpVars, broken, faulty>>
    BY <1>7 DEF ResponseHeader, TransportError
  <2> QED
    BY <1>0, <1>a, <1>c, <2>2, <2>3, <2>4
       DEF Step, requestType, PermitsSettled, BackendsReturned
<1>8. ASSUME NEW r \in Requests, BodyCopied(r) \/ BodyBroken(r) PROVE IInv'
  <2>1. PICK from \in {"body", "upgrade"} : Step(r, from, "release")
    BY <1>8 DEF BodyCopied, BodyBroken
  <2>2. /\ UNCHANGED <<cbVars, bpVars, verdict, faulty>>
        /\ broken' \subseteq broken \union {r}
    BY <1>8 DEF BodyCopied, BodyBroken
  <2> QED
    BY <1>0, <1>a, <1>b, <1>c, <2>1, <2>2
       DEF Step, requestType, PermitsSettled, BackendsReturned
<1>9. ASSUME NEW r \in Requests, UpgradeFailed(r) PROVE IInv'
  <2>1. /\ cbType' /\ Bounded' /\ valid' \subseteq valid \ {r}
        /\ verdict' \in [Requests -> {"none", "success", "failure"}]
    BY <1>0, <1>9, RecordEffect DEF UpgradeFailed
  <2>2. Step(r, "upgrade", "release") /\ UNCHANGED <<bpVars, broken, faulty>>
    BY <1>9 DEF UpgradeFailed
  <2> QED
    BY <1>0, <1>a, <1>c, <2>1, <2>2
       DEF Step, requestType, PermitsSettled, BackendsReturned
<1>10. ASSUME NEW r \in Requests, Release(r) PROVE IInv'
  <2>1. bpType' /\ assigned' = [assigned EXCEPT ![r] = NoBackend]
    BY <1>0, <1>10 DEF Release, BP!Finish, bpType
  <2>2. /\ Step(r, "release", "idle") /\ UNCHANGED <<cbVars, faulty>>
        /\ verdict' = [verdict EXCEPT ![r] = "none"] /\ broken' = broken \ {r}
    BY <1>10 DEF Release
  <2> QED
    BY <1>0, <1>a, <1>b, <2>1, <2>2
       DEF Step, bpType, requestType, PermitsSettled, BackendsReturned
<1>11. CASE SetHealthy
  <2>1. bpType' /\ assigned' = assigned
    BY <1>0, <1>11 DEF SetHealthy, BP!Observe, bpType
  <2> QED
    BY <1>0, <1>11, <1>a, <1>b, <2>1
       DEF SetHealthy, requestVars, requestType, PermitsSettled, BackendsReturned
<1>12. CASE Tick
  <2>1. cbType' /\ Bounded' /\ valid' = valid
    BY <1>0, <1>12 DEF Tick, CB!Wait, cbType, CB!CBTypeOK, Bounded
  <2> QED
    BY <1>0, <1>12, <1>a, <1>c, <2>1
       DEF Tick, requestVars, requestType, PermitsSettled, BackendsReturned
<1>13. CASE UpstreamsChange
  BY <1>0, <1>13, <1>a, <1>b, <1>c
     DEF UpstreamsChange, requestVars, requestType, PermitsSettled, BackendsReturned
<1>14. CASE UNCHANGED vars
  BY <1>0, <1>14, <1>a, <1>b, <1>c
     DEF vars, requestVars, requestType, PermitsSettled, BackendsReturned
<1> QED
  BY <1>1, <1>2, <1>3, <1>4, <1>5, <1>6, <1>7, <1>8, <1>9, <1>10, <1>11, <1>12,
     <1>13, <1>14 DEF Next, Handle

\* IInv holds in every state of every behaviour.
LEMMA IInvInvariant == Spec => []IInv
<1>1. Init => IInv
  <2> SUFFICES ASSUME Init PROVE IInv
    OBVIOUS
  <2>1. cbType /\ Bounded /\ PermitsSettled
    BY GatewayPoolAssumption
       DEF Init, CB!CBInit, cbType, CB!CBTypeOK, Bounded, PermitsSettled
  <2>2. bpType /\ requestType /\ BackendsReturned
    BY GatewayPoolAssumption DEF Init, BP!BPInit, bpType, requestType, BackendsReturned
  <2> QED
    BY <2>1, <2>2, TypeParts DEF IInv
<1> QED
  BY <1>1, IInvStep, PTL DEF Spec

\* Every variable of the composition keeps its type; in particular the breaker
\* never counts Threshold failures or Batch successes without moving on.
THEOREM TypeCorrect == Spec => []TypeOK
<1>1. IInv => TypeOK
  BY DEF IInv
<1> QED
  BY <1>1, IInvInvariant, PTL

\* For any number of concurrent requests, no path through pool.acquire,
\* ModifyResponse and ErrorHandler leaves the breaker waiting for a permit whose
\* request has already had its outcome.
THEOREM PermitsAlwaysSettled == Spec => []PermitsSettled
<1>1. IInv => PermitsSettled
  BY DEF IInv
<1> QED
  BY <1>1, IInvInvariant, PTL

\* For any number of requests and backends, a request holds a backend exactly
\* from balancer.Acquire to the deferred Release, whatever goes wrong between.
THEOREM BackendsAlwaysReturned == Spec => []BackendsReturned
<1>1. IInv => BackendsReturned
  BY DEF IInv
<1> QED
  BY <1>1, IInvInvariant, PTL

\* Whatever the batch size, the number of requests and the order of admissions,
\* cancellations and results: no recovery attempt sends more than Batch probes.
THEOREM ProbesAlwaysWithinBudget == Spec => []ProbeBudget
<1>1. IInv => ProbeBudget
  <2> SUFFICES ASSUME IInv, mode = "half-open"
               PROVE  passed + Cardinality({r \in valid : pc[r] = "roundtrip"}) <= Batch
    BY DEF ProbeBudget
  <2>1. cbType /\ Bounded
    BY TypeParts DEF IInv
  <2> DEFINE upstream == {r \in valid : pc[r] = "roundtrip"}
  <2>2. IsFiniteSet(valid) /\ Cardinality(valid) \in Nat
    BY <2>1, ValidFinite
  <2>3. Cardinality(upstream) <= Cardinality(valid) /\ Cardinality(upstream) \in Nat
    BY <2>2, FS_Subset, FS_CardinalityType
  <2>4. passed + Cardinality(valid) <= Batch /\ passed \in Nat /\ Batch \in Nat
    BY <2>1, GatewayPoolAssumption DEF Bounded, cbType, CB!CBTypeOK
  <2> QED
    BY <2>2, <2>3, <2>4
<1> QED
  BY <1>1, IInvInvariant, PTL
=============================================================================
