---------------------------- MODULE GatewayPool ----------------------------
(***************************************************************************)
(* The life of proxied requests in one backend pool: pool.acquire,         *)
(* Gateway.serveRoute and the callbacks of newReverseProxy in              *)
(* internal/proxy/gateway.go.                                              *)
(*                                                                         *)
(* The module composes the circuit breaker and the balancer by what they   *)
(* promise (CircuitBreaker and BackendPool, which Breaker and Balancer     *)
(* implement).  Each handler goroutine goes through                        *)
(*   breaker.Acquire -> balancer.Acquire -> upstream round trip ->         *)
(*   response body -> deferred Release,                                    *)
(* and between any two of these steps other requests, the health checker   *)
(* and the clock move.  A request identity is reused by the next request.  *)
(***************************************************************************)
EXTENDS Integers, FiniteSets

CONSTANTS Requests, Backends, NoBackend, Threshold, Timeout, Batch

\* The breaker's settings are those newWithConfig leaves: never zero.
ASSUME GatewayPoolAssumption ==
  /\ IsFiniteSet(Requests)
  /\ NoBackend \notin Backends
  /\ Threshold \in Nat \ {0}
  /\ Timeout \in Nat \ {0}
  /\ Batch \in Nat \ {0}

VARIABLES mode, streak, waited, valid, passed,          \* circuit breaker
          healthy, asking, assigned, steady, seen,      \* balancer
          pc,             \* where each handler goroutine is
          verdict,        \* history: what the permit's first record said
          broken,         \* history: requests whose response body broke off
          faulty          \* environment: upstream requests can fail now

CB == INSTANCE CircuitBreaker WITH Permits <- Requests
BP == INSTANCE BackendPool

cbVars == <<mode, streak, waited, valid, passed>>
bpVars == <<healthy, asking, assigned, steady, seen>>
requestVars == <<pc, verdict, broken>>
vars == <<cbVars, bpVars, requestVars, faulty>>

TypeOK ==
  /\ CB!CBTypeOK
  /\ healthy \in [Backends -> BOOLEAN]
  /\ asking \subseteq Requests
  /\ assigned \in [Requests -> Backends \union {NoBackend}]
  /\ steady \in [Requests -> SUBSET Backends]
  /\ seen \in [Requests -> SUBSET Backends]
  /\ pc \in [Requests -> {"idle", "admitted", "asking", "refused", "roundtrip",
                          "body", "upgrade", "release"}]
  /\ verdict \in [Requests -> {"none", "success", "failure"}]
  /\ broken \subseteq Requests
  /\ faulty \in BOOLEAN

Init ==
  /\ CB!CBInit
  /\ BP!BPInit
  /\ pc = [r \in Requests |-> "idle"]
  /\ verdict = [r \in Requests |-> "none"]
  /\ broken = {}
  /\ faulty = FALSE

Step(r, from, to) == pc[r] = from /\ pc' = [pc EXCEPT ![r] = to]

-----------------------------------------------------------------------------
\* pool.acquire asks the breaker; a refusal is answered 503 at once ...
FailFast(r) ==
  /\ pc[r] = "idle"
  /\ CB!Refusing
  /\ UNCHANGED vars

\* ... and an admitted request goes on to the balancer.
Admitted(r) ==
  /\ Step(r, "idle", "admitted")
  /\ CB!Admit(r)
  /\ UNCHANGED <<bpVars, verdict, broken, faulty>>

AskBalancer(r) ==
  /\ Step(r, "admitted", "asking")
  /\ BP!Ask(r)
  /\ UNCHANGED <<cbVars, verdict, broken, faulty>>

Assigned(r) ==
  /\ Step(r, "asking", "roundtrip")
  /\ \E b \in Backends : BP!Assign(r, b)
  /\ UNCHANGED <<cbVars, verdict, broken, faulty>>

NoHealthyBackends(r) ==
  /\ Step(r, "asking", "refused")
  /\ BP!Refuse(r)
  /\ UNCHANGED <<cbVars, verdict, broken, faulty>>

\* Mutant: the permit of a request that found no backend is dropped.
DropPermit(r) ==
  /\ Step(r, "refused", "idle")
  /\ UNCHANGED <<cbVars, bpVars, verdict, broken, faulty>>

\* permit.Cancel, then 503.
CancelPermit(r) ==
  /\ Step(r, "refused", "idle")
  /\ IF r \in valid THEN CB!Withdraw(r) ELSE UNCHANGED cbVars
  /\ UNCHANGED <<bpVars, verdict, broken, faulty>>

-----------------------------------------------------------------------------
\* RecordSuccess and RecordFailure of the permit in the request's context.
\* Only the first record of a permit counts, and only while it is not void.
Record(r, success) ==
  /\ IF r \in valid THEN IF success THEN CB!Succeed(r) ELSE CB!Fail(r)
                    ELSE UNCHANGED cbVars
  /\ verdict' = [verdict EXCEPT ![r] =
       IF @ # "none" THEN @ ELSE IF success THEN "success" ELSE "failure"]

\* ModifyResponse runs when the response header is in: a 5xx is a failure,
\* anything else a success.  A 101 goes on to the protocol upgrade.
ResponseHeader(r) ==
  /\ \/ /\ Step(r, "roundtrip", "body") \/ Step(r, "roundtrip", "upgrade")
        /\ Record(r, TRUE)
     \/ /\ faulty
        /\ Step(r, "roundtrip", "body")
        /\ Record(r, FALSE)
  /\ UNCHANGED <<bpVars, broken, faulty>>

\* Mutant: the error path answers the client but records nothing.
ErrorUnrecorded(r) ==
  /\ faulty
  /\ Step(r, "roundtrip", "release")
  /\ UNCHANGED <<cbVars, bpVars, verdict, broken, faulty>>

\* RoundTrip fails (dial, deadline, connection, client gone): ErrorHandler
\* records a failure and answers 502 or 504.
TransportError(r) ==
  /\ faulty
  /\ Step(r, "roundtrip", "release")
  /\ Record(r, FALSE)
  /\ UNCHANGED <<bpVars, broken, faulty>>

BodyCopied(r) ==
  /\ Step(r, "body", "release") \/ Step(r, "upgrade", "release")
  /\ UNCHANGED <<cbVars, bpVars, verdict, broken, faulty>>

\* Mutant: Release is not deferred, so an abort skips it.
AbortSkipsRelease(r) ==
  /\ faulty
  /\ Step(r, "body", "idle")
  /\ UNCHANGED <<cbVars, bpVars, verdict, broken, faulty>>

\* The upstream body breaks off: ReverseProxy panics with ErrAbortHandler and
\* the panic unwinds through the deferred Release.
BodyBroken(r) ==
  /\ faulty
  /\ Step(r, "body", "release")
  /\ broken' = broken \union {r}
  /\ UNCHANGED <<cbVars, bpVars, verdict, faulty>>

\* A failed upgrade calls ErrorHandler after ModifyResponse already recorded.
UpgradeFailed(r) ==
  /\ faulty
  /\ Step(r, "upgrade", "release")
  /\ Record(r, FALSE)
  /\ UNCHANGED <<bpVars, broken, faulty>>

\* The deferred backend.Release of serveRoute.
Release(r) ==
  /\ Step(r, "release", "idle")
  /\ BP!Finish(r)
  /\ verdict' = [verdict EXCEPT ![r] = "none"]
  /\ broken' = broken \ {r}
  /\ UNCHANGED <<cbVars, faulty>>

-----------------------------------------------------------------------------
\* The health checker, the clock and the upstreams.
SetHealthy ==
  /\ \E b \in Backends, up \in BOOLEAN : BP!Observe(b, up)
  /\ UNCHANGED <<cbVars, requestVars, faulty>>

Tick ==
  /\ CB!Wait
  /\ UNCHANGED <<bpVars, requestVars, faulty>>

UpstreamsChange ==
  /\ faulty' = ~faulty
  /\ UNCHANGED <<cbVars, bpVars, requestVars>>

\* What handler r does by itself once its request was admitted.
Handle(r) ==
  \/ AskBalancer(r) \/ Assigned(r) \/ NoHealthyBackends(r) \/ CancelPermit(r)
  \/ ResponseHeader(r) \/ TransportError(r) \/ BodyCopied(r) \/ BodyBroken(r)
  \/ UpgradeFailed(r) \/ Release(r)

Next ==
  \/ \E r \in Requests : FailFast(r) \/ Admitted(r) \/ Handle(r)
  \/ SetHealthy \/ Tick \/ UpstreamsChange

Spec == Init /\ [][Next]_vars

\* Handlers run on: the request deadline ends every round trip, upgraded
\* connection and read of a body; that a client reads its response or goes away
\* is assumed.  Time passes, and clients keep sending requests.
Fairness ==
  /\ \A r \in Requests : WF_vars(Handle(r))
  /\ WF_vars(Tick)
  /\ WF_vars(\E r \in Requests : Admitted(r))

FairSpec == Spec /\ Fairness

-----------------------------------------------------------------------------
\* A request whose permit the breaker still waits for has not yet had its
\* response header or error: no way out of pool.acquire, ModifyResponse or
\* ErrorHandler drops a permit that was not recorded or cancelled.
PermitsSettled ==
  \A r \in valid : pc[r] \in {"admitted", "asking", "refused", "roundtrip"}

\* A request holds a backend exactly from balancer.Acquire to its deferred
\* Release, on the error, abort and upgrade paths as well.
BackendsReturned ==
  \A r \in Requests :
    assigned[r] # NoBackend <=> pc[r] \in {"roundtrip", "body", "upgrade", "release"}

\* While half-open, at most Batch probes of this recovery attempt have been
\* sent upstream, however many permits were cancelled and issued again.
ProbeBudget ==
  mode = "half-open" =>
    passed + Cardinality({r \in valid : pc[r] = "roundtrip"}) <= Batch

\* breaker.go: "RecordSuccess reports that the permitted upstream request
\* completed without a transport error or server-side failure response."
SuccessMeansCompleted ==
  \A r \in Requests : verdict[r] = "success" => r \notin broken

\* A recovery attempt ends: while some backend stays healthy, the breaker does
\* not remain half-open for good, even if probes were cancelled or their
\* results came too late.
HalfOpenResolves ==
  (\E b \in Backends : <>[](healthy[b])) =>
    ((mode = "half-open") ~> (mode # "half-open"))

\* Once upstream requests stop failing and some backend stays healthy, the
\* pool returns to normal service for good.
Recovery ==
  (<>[](~faulty) /\ \E b \in Backends : <>[](healthy[b])) => <>[](mode = "closed")
=============================================================================
