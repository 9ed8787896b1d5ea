--------------------------- MODULE CircuitBreaker ---------------------------
(***************************************************************************)
(* What a circuit breaker (internal/breaker) promises to the requests of   *)
(* one backend pool, without the means by which the code keeps the promise.*)
(*                                                                         *)
(* A request holds a permit while it is a member of valid.  Entering a new *)
(* mode voids every permit at once: nothing an older request reports can   *)
(* be heard any more.  There are no generation numbers, no slot counter    *)
(* and no absolute clock; the free half-open slots are Batch minus the     *)
(* probes that passed and the probes that are still out.                   *)
(***************************************************************************)
EXTENDS Integers, FiniteSets

CONSTANTS Permits,      \* identities of the requests that can hold a permit
          Threshold,    \* consecutive failures that trip a closed breaker
          Timeout,      \* ticks an open breaker refuses every request
          Batch         \* probes that must pass before the breaker closes

VARIABLES mode,         \* "closed", "open" or "half-open"
          streak,       \* failures in a row, while closed
          waited,       \* ticks since it opened, up to Timeout, while open
          valid,        \* requests whose outcome still counts
          passed        \* probes of this batch that succeeded

cbVars == <<mode, streak, waited, valid, passed>>

CBTypeOK ==
  /\ mode \in {"closed", "open", "half-open"}
  /\ streak \in 0 .. Threshold - 1
  /\ waited \in 0 .. Timeout
  /\ valid \subseteq Permits
  /\ passed \in 0 .. Batch - 1

CBInit ==
  /\ mode = "closed"
  /\ streak = 0
  /\ waited = 0
  /\ valid = {}
  /\ passed = 0

\* Enter mode next with the permits in members, voiding all others.
Enter(next, members) ==
  /\ mode' = next
  /\ streak' = 0
  /\ waited' = 0
  /\ valid' = members
  /\ passed' = 0

\* Mutant: the probe limit is off by one.
RefusingOneLate ==
  \/ mode = "open" /\ waited < Timeout
  \/ mode = "half-open" /\ passed + Cardinality(valid) > Batch

\* Whether a request that asks now is refused.
Refusing ==
  \/ mode = "open" /\ waited < Timeout
  \/ mode = "half-open" /\ passed + Cardinality(valid) >= Batch

\* Request p is admitted; the first one after the timeout starts a batch.
Admit(p) ==
  /\ p \notin valid
  /\ ~Refusing
  /\ \/ /\ mode = "open"
        /\ Enter("half-open", {p})
     \/ /\ mode # "open"
        /\ valid' = valid \union {p}
        /\ UNCHANGED <<mode, streak, waited, passed>>

\* The outcome of p is heard; a void permit's outcome is not.
Succeed(p) ==
  /\ p \in valid
  /\ \/ /\ mode = "closed"
        /\ streak' = 0
        /\ valid' = valid \ {p}
        /\ UNCHANGED <<mode, waited, passed>>
     \/ /\ mode = "half-open"
        /\ passed + 1 < Batch
        /\ passed' = passed + 1
        /\ valid' = valid \ {p}
        /\ UNCHANGED <<mode, streak, waited>>
     \/ /\ mode = "half-open"
        /\ passed + 1 = Batch
        /\ Enter("closed", {})

\* Mutant: the breaker trips one failure too late.
FailTripsLate(p) ==
  /\ p \in valid
  /\ \/ /\ mode = "closed"
        /\ streak + 1 <= Threshold
        /\ streak' = streak + 1
        /\ valid' = valid \ {p}
        /\ UNCHANGED <<mode, waited, passed>>
     \/ /\ mode = "closed" => streak + 1 > Threshold
        /\ Enter("open", {})

Fail(p) ==
  /\ p \in valid
  /\ \/ /\ mode = "closed"
        /\ streak + 1 < Threshold
        /\ streak' = streak + 1
        /\ valid' = valid \ {p}
        /\ UNCHANGED <<mode, waited, passed>>
     \/ /\ mode = "closed" => streak + 1 = Threshold
        /\ Enter("open", {})

\* Request p is given up before it reached a backend.
Withdraw(p) ==
  /\ p \in valid
  /\ valid' = valid \ {p}
  /\ UNCHANGED <<mode, streak, waited, passed>>

\* An operator moves the breaker along an edge of the state machine.
Force(next) ==
  /\ <<mode, next>> \in {<<"closed", "open">>, <<"open", "half-open">>,
                         <<"half-open", "closed">>, <<"half-open", "open">>}
  /\ Enter(next, {})

Wait ==
  /\ mode = "open"
  /\ waited < Timeout
  /\ waited' = waited + 1
  /\ UNCHANGED <<mode, streak, valid, passed>>

CBNext ==
  \/ \E p \in Permits : Admit(p) \/ Succeed(p) \/ Fail(p) \/ Withdraw(p)
  \/ \E next \in {"closed", "open", "half-open"} : Force(next)
  \/ Wait

CBSpec == CBInit /\ [][CBNext]_cbVars
=============================================================================
