--------------------------- MODULE HealthChecker ---------------------------
(***************************************************************************)
(* The health-check loop of one pool, internal/balancer/health_checker.go. *)
(*                                                                         *)
(* Run checks at once and then on every tick until its context is          *)
(* cancelled.  Check starts one goroutine per backend and waits for all of *)
(* them; each goroutine's request is answered (or times out) at one moment *)
(* and its verdict is stored at a later one.                               *)
(***************************************************************************)
EXTENDS Integers, Sequences

CONSTANT Backends

VARIABLES healthy,      \* Backend.healthy
          loop,         \* Run: "new", "checking", "waiting" in its select or
                        \*   "done"
          flight,       \* the probes of each backend under way, oldest first
          ticker,       \* time.Ticker: "off", "empty" or "full" channel
          cancelled,    \* ctx.Done()
          up,           \* environment: the backend answers 2xx or 3xx in time
          sawUp, sawDown \* history: backends that were up / not up at some
                        \*   moment since the latest round began

vars == <<healthy, loop, flight, ticker, cancelled, up, sawUp, sawDown>>
history == <<sawUp, sawDown>>

UpNow == {b \in Backends : up[b]}

TypeOK ==
  /\ healthy \in [Backends -> BOOLEAN]
  /\ loop \in {"new", "checking", "waiting", "done"}
  /\ flight \in [Backends -> {<<>>, <<"sent">>, <<"good">>, <<"bad">>}]
  /\ ticker \in {"off", "empty", "full"}
  /\ cancelled \in BOOLEAN
  /\ up \in [Backends -> BOOLEAN]
  /\ sawUp \subseteq Backends
  /\ sawDown \subseteq Backends

\* NewPoolWithStrategy: the pool is presumed healthy.
Init ==
  /\ healthy = [b \in Backends |-> TRUE]
  /\ loop = "new"
  /\ flight = [b \in Backends |-> <<>>]
  /\ ticker = "off"
  /\ cancelled = FALSE
  /\ up \in [Backends -> BOOLEAN]
  /\ sawUp = UpNow
  /\ sawDown = Backends \ UpNow

-----------------------------------------------------------------------------
\* Start: Run begins with a Check, before it has a ticker.
Start ==
  /\ loop = "new"
  /\ loop' = "checking"
  /\ flight' = [b \in Backends |-> <<"sent">>]
  /\ sawUp' = UpNow
  /\ sawDown' = Backends \ UpNow
  /\ UNCHANGED <<healthy, ticker, cancelled, up>>

\* client.Do returns: the answer reflects the backend at this moment, or the
\* cancellation of the context.
Answered(b) ==
  /\ \E i \in DOMAIN flight[b], verdict \in {"good", "bad"} :
       /\ flight[b][i] = "sent"
       /\ verdict = "good" => up[b]
       /\ verdict = "bad" => ~up[b] \/ cancelled
       /\ flight' = [flight EXCEPT ![b][i] = verdict]
  /\ UNCHANGED <<healthy, loop, ticker, cancelled, up, history>>

\* checkBackend ends with SetHealthy and group.Done.
Stored(b) ==
  /\ \E i \in DOMAIN flight[b] :
       /\ flight[b][i] # "sent"
       /\ healthy' = [healthy EXCEPT ![b] = flight[b][i] = "good"]
       /\ flight' = [flight EXCEPT
            ![b] = SubSeq(@, 1, i - 1) \o SubSeq(@, i + 1, Len(@))]
  /\ UNCHANGED <<loop, ticker, cancelled, up, history>>

\* Mutant: Check does not wait for its goroutines.
NoWait == TRUE

\* group.Wait returns when no probe is left.
RoundOver == \A b \in Backends : flight[b] = <<>>

CheckReturns ==
  /\ loop = "checking"
  /\ RoundOver
  /\ loop' = "waiting"
  /\ ticker' = IF ticker = "off" THEN "empty" ELSE ticker
  /\ UNCHANGED <<healthy, flight, cancelled, up, history>>

\* Mutant: later rounds probe only the backends that are still healthy.
NextCheckOfHealthy ==
  /\ loop = "waiting"
  /\ ticker = "full"
  /\ ticker' = "empty"
  /\ loop' = "checking"
  /\ flight' = [b \in Backends |-> IF healthy[b] THEN <<"sent">> ELSE <<>>]
  /\ sawUp' = UpNow
  /\ sawDown' = Backends \ UpNow
  /\ UNCHANGED <<healthy, cancelled, up>>

\* The tick case of the select: the next Check.  A request whose context is
\* already cancelled fails at once.
NextCheck ==
  /\ loop = "waiting"
  /\ ticker = "full"
  /\ ticker' = "empty"
  /\ loop' = "checking"
  /\ flight' = [b \in Backends |->
                  Append(flight[b], IF cancelled THEN "bad" ELSE "sent")]
  /\ sawUp' = UpNow
  /\ sawDown' = Backends \ UpNow
  /\ UNCHANGED <<healthy, cancelled, up>>

\* The ctx.Done case of the select: Run returns and done is closed.
Return ==
  /\ loop = "waiting"
  /\ cancelled
  /\ loop' = "done"
  /\ UNCHANGED <<healthy, flight, ticker, cancelled, up, history>>

\* The runtime fires the ticker; a full channel drops the tick.
TickerFires ==
  /\ ticker = "empty"
  /\ loop # "done"
  /\ ticker' = "full"
  /\ UNCHANGED <<healthy, loop, flight, cancelled, up, history>>

-----------------------------------------------------------------------------
Cancel ==
  /\ ~cancelled
  /\ cancelled' = TRUE
  /\ UNCHANGED <<healthy, loop, flight, ticker, up, history>>

BackendChanges(b) ==
  /\ up' = [up EXCEPT ![b] = ~@]
  /\ sawUp' = IF up[b] THEN sawUp ELSE sawUp \union {b}
  /\ sawDown' = IF up[b] THEN sawDown \union {b} ELSE sawDown
  /\ UNCHANGED <<healthy, loop, flight, ticker, cancelled>>

Loop == CheckReturns \/ NextCheck \/ Return

Next ==
  \/ Start \/ Loop \/ TickerFires \/ Cancel
  \/ \E b \in Backends : Answered(b) \/ Stored(b) \/ BackendChanges(b)

Spec == Init /\ [][Next]_vars

-----------------------------------------------------------------------------
\* Between rounds every backend's health is a verdict of the latest round: it
\* was up, or down, at some moment since that round began.  No probe of an
\* earlier round overwrites it late.
VerdictsAreCurrent ==
  loop = "waiting" /\ ~cancelled =>
    \A b \in Backends : b \in IF healthy[b] THEN sawUp ELSE sawDown
=============================================================================
