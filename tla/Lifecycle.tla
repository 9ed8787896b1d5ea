----------------------------- MODULE Lifecycle -----------------------------
(***************************************************************************)
(* The life of the gateway process: main in cmd/gateway/main.go with       *)
(* StartHealthChecks and WaitForHealthChecks of the gateway, over the      *)
(* health-check loop of one pool as HealthChecker models it and the        *)
(* configuration as Configuration models it.                               *)
(*                                                                         *)
(* main loads the configuration, creates the gateway, starts the health    *)
(* checks and the server, then waits for a signal or a server error.  On a *)
(* signal it drains the server for at most 20 seconds, closes it by force  *)
(* if that was not enough, and only then stops the health checks and waits *)
(* for them.  http.Server is external: it starts a handler per request it  *)
(* reads, Shutdown returns when no handler is left on a connection of the  *)
(* server or its context expires, and Close does not wait for handlers.  A *)
(* handler that ReverseProxy has upgraded runs on a hijacked connection,   *)
(* which the server no longer knows.                                       *)
(***************************************************************************)
EXTENDS Configuration, Routing

CONSTANTS Backends, Requests,
          Configs,        \* the configurations an operator may write
          Environment,    \* the environment variables that are set
          Paths           \* request paths, for the property about routing

ASSUME ConfigsWellTyped == \A c \in Configs : WellTyped(c)
ASSUME NoneIsNothing == \A c \in Configs : None # c /\ None # NewGateway(c)

\* For the property about routing: what Validate accepts as a prefix, anything
\* that begins with a slash, is a path.
ASSUME PrefixesArePaths ==
  /\ Paths \subseteq Seq(STRING) \ {<<>>}
  /\ \A c \in Configs : Validate(c) =>
       \A i \in DOMAIN c.routes : c.routes[i].pathPrefix \in Paths

VARIABLES healthy, loop, flight, ticker, cancelled, up, sawUp, sawDown,
                          \* the health-check loop
          cfg,            \* the configuration, until the gateway is created
          gateway,        \* the gateway, until it serves: it never changes,
                          \*   and nothing here depends on it after that
          main,           \* where main is
          signalled,      \* a signal is waiting in shutdownSignal
          serverFailed,   \* an error is waiting in serverErrors
          handling,       \* the requests whose handlers run
          hijacked,       \* those of them that took over their connection
          forced,         \* history: the server was closed by force
          everDown        \* history: backends that were ever not up

checkerVars == <<healthy, loop, flight, ticker, cancelled, up, sawUp, sawDown>>
configVars == <<cfg, gateway>>
signalVars == <<signalled, serverFailed>>
requestVars == <<handling, hijacked>>
historyVars == <<forced, everDown>>
ownVars == <<configVars, main, signalVars, requestVars, historyVars>>
vars == <<checkerVars, ownVars>>

H == INSTANCE HealthChecker

Starting == {"starting", "loaded", "created"}
Ended == {"rejected", "not created", "fatal", "exited"}

TypeOK ==
  /\ H!TypeOK
  /\ cfg = None <=> main \notin {"starting", "loaded", "rejected", "not created"}
  /\ gateway = None <=> main # "created"
  /\ main \in Starting \union Ended
              \union {"serving", "draining", "drained", "waiting"}
  /\ signalled \in BOOLEAN
  /\ serverFailed \in BOOLEAN
  /\ handling \subseteq Requests
  /\ hijacked \subseteq handling
  /\ forced \in BOOLEAN
  /\ everDown \subseteq Backends

Init ==
  /\ H!Init
  /\ cfg \in Configs
  /\ gateway = None
  /\ main = "starting"
  /\ signalled = FALSE
  /\ serverFailed = FALSE
  /\ handling = {}
  /\ hijacked = {}
  /\ forced = FALSE
  /\ everDown = {b \in Backends : ~up[b]}

Running == main \notin Ended

-----------------------------------------------------------------------------
\* config.Load; log.Fatalf if it fails.
LoadConfiguration ==
  /\ main = "starting"
  /\ main' = IF Load(cfg, Environment) THEN "loaded" ELSE "rejected"
  /\ UNCHANGED <<checkerVars, configVars, signalVars, requestVars,
                 historyVars>>

\* proxy.NewGateway, which validates once more; log.Fatalf if it fails.
CreateGateway ==
  /\ main = "loaded"
  /\ IF Validate(cfg) /\ Constructs(cfg)
     THEN main' = "created" /\ gateway' = NewGateway(cfg) /\ cfg' = None
     ELSE main' = "not created" /\ UNCHANGED configVars
  /\ UNCHANGED <<checkerVars, signalVars, requestVars, historyVars>>

\* StartHealthChecks, then ListenAndServe and signal.Notify.
Serve ==
  /\ main = "created"
  /\ H!Start
  /\ main' = "serving"
  /\ gateway' = None
  /\ UNCHANGED <<cfg, signalVars, requestVars, historyVars>>

-----------------------------------------------------------------------------
\* The environment and http.Server.  A signal before signal.Notify just kills
\* the process.
SignalArrives ==
  /\ Running
  /\ main \notin Starting
  /\ signalled' = TRUE
  /\ UNCHANGED <<checkerVars, configVars, main, serverFailed, requestVars,
                 historyVars>>

\* ListenAndServe returns an error of its own.
ServerFails ==
  /\ main = "serving"
  /\ serverFailed' = TRUE
  /\ UNCHANGED <<checkerVars, configVars, main, signalled, requestVars,
                 historyVars>>

\* A connection accepted before Shutdown can still deliver its request while
\* the server drains, and one that Close has cut can still reach its handler.
HandlerStarts(r) ==
  /\ main \in {"serving", "draining"} \/ (forced /\ Running)
  /\ r \notin handling
  /\ handling' = handling \union {r}
  /\ UNCHANGED <<checkerVars, configVars, main, signalVars, hijacked,
                 historyVars>>

\* ReverseProxy.handleUpgradeResponse hijacks the connection.
HandlerUpgrades(r) ==
  /\ Running
  /\ r \in handling
  /\ hijacked' = hijacked \union {r}
  /\ UNCHANGED <<checkerVars, configVars, main, signalVars, handling,
                 historyVars>>

HandlerReturns(r) ==
  /\ Running
  /\ r \in handling
  /\ handling' = handling \ {r}
  /\ hijacked' = hijacked \ {r}
  /\ UNCHANGED <<checkerVars, configVars, main, signalVars, historyVars>>

\* Nobody looks at the backends before the health checks start.
BackendChanges ==
  /\ Running
  /\ main \notin Starting
  /\ \E b \in Backends :
       /\ H!BackendChanges(b)
       /\ everDown' = IF up[b] THEN everDown \union {b} ELSE everDown
  /\ UNCHANGED <<configVars, main, signalVars, requestVars, forced>>

-----------------------------------------------------------------------------
\* The error case of main's select: log.Fatalf ends the process on the spot.
Fatal ==
  /\ main = "serving"
  /\ serverFailed
  /\ main' = "fatal"
  /\ UNCHANGED <<checkerVars, configVars, signalVars, requestVars,
                 historyVars>>

\* Mutant: the health checks are stopped as soon as the signal is there.
ShutdownStopsChecks ==
  /\ main = "serving"
  /\ signalled
  /\ main' = "draining"
  /\ signalled' = FALSE
  /\ cancelled' = TRUE
  /\ UNCHANGED <<healthy, loop, flight, ticker, up, sawUp, sawDown,
                 configVars, serverFailed, requestVars, historyVars>>

\* The signal case: Shutdown closes the listener and waits for the handlers.
Shutdown ==
  /\ main = "serving"
  /\ signalled
  /\ main' = "draining"
  /\ signalled' = FALSE
  /\ UNCHANGED <<checkerVars, configVars, serverFailed, requestVars,
                 historyVars>>

Drained ==
  /\ main = "draining"
  /\ handling \subseteq hijacked
  /\ main' = "drained"
  /\ UNCHANGED <<checkerVars, configVars, signalVars, requestVars,
                 historyVars>>

\* Mutant: Shutdown gets a context without a deadline.
NoDeadline == FALSE

\* The 20 seconds of shutdownContext are over: Close.
ForceClose ==
  /\ main = "draining"
  /\ main' = "drained"
  /\ forced' = TRUE
  /\ UNCHANGED <<checkerVars, configVars, signalVars, requestVars, everDown>>

StopHealthChecks ==
  /\ main = "drained"
  /\ H!Cancel
  /\ main' = "waiting"
  /\ UNCHANGED <<configVars, signalVars, requestVars, historyVars>>

\* Mutant: main does not wait for the health checks.
LeaveAtOnce ==
  /\ main = "waiting"
  /\ main' = "exited"
  /\ UNCHANGED <<checkerVars, configVars, signalVars, requestVars,
                 historyVars>>

\* WaitForHealthChecks returns, CloseIdleConnections, and main returns.
Exit ==
  /\ main = "waiting"
  /\ loop = "done"
  /\ main' = "exited"
  /\ UNCHANGED <<checkerVars, configVars, signalVars, requestVars,
                 historyVars>>

Main ==
  \/ LoadConfiguration \/ CreateGateway \/ Serve
  \/ Fatal \/ Shutdown \/ Drained \/ StopHealthChecks \/ Exit

\* The goroutines of the health checker.
Probe(b) ==
  /\ Running
  /\ H!Answered(b) \/ H!Stored(b)
  /\ UNCHANGED ownVars

CheckLoop ==
  /\ Running
  /\ H!Loop
  /\ UNCHANGED ownVars

TickerFires ==
  /\ Running
  /\ H!TickerFires
  /\ UNCHANGED ownVars

Next ==
  \/ SignalArrives \/ ServerFails \/ BackendChanges
  \/ \E r \in Requests :
       HandlerStarts(r) \/ HandlerUpgrades(r) \/ HandlerReturns(r)
  \/ Main \/ ForceClose
  \/ \E b \in Backends : Probe(b)
  \/ CheckLoop \/ TickerFires

Spec == Init /\ [][Next]_vars

\* main's goroutine and the health checker's run, probes end (each has a
\* time-out), the ticker ticks, the deadline of Shutdown expires and select is
\* fair to ctx.Done.  Handlers may take for ever.
Fairness ==
  /\ WF_vars(Main)
  /\ WF_vars(ForceClose)
  /\ \A b \in Backends : WF_vars(Probe(b))
  /\ WF_vars(CheckLoop)
  /\ WF_vars(TickerFires)
  /\ SF_vars(Running /\ H!Return /\ UNCHANGED ownVars)

FairSpec == Spec /\ Fairness

-----------------------------------------------------------------------------
\* A configuration that Load accepts is never refused by a constructor, and
\* the gateway built from it, defaults filled in, can run: the two places that
\* know the rules agree.
AcceptedIsSound ==
  /\ main # "not created"
  /\ main = "created" => Sound(gateway)

RepeatsLastSlash(prefix) ==
  LET n == Len(prefix)
  IN  n > 1 /\ prefix[n] = Empty /\ prefix[n - 1] = Empty

\* Of the routes that match a path one is chosen, by length, and unless its
\* prefix ends in several slashes it is the one that covers the fewest paths
\* ("The most specific matching route wins", README); of routes that cover the
\* same paths it is the first.  Slashes at the end lengthen a prefix without
\* narrowing it: "/a///" is chosen before "/a/b", which is more specific.
MostSpecificRoute ==
  main = "created" =>
    LET prefix(i) == gateway.routes[i].pathPrefix
        covered(i) == {path \in Paths : prefixMatches(prefix(i), path)}
    IN  \A path \in Paths :
          LET chosen == matchRoute(gateway.routes, path)
          IN  \A i \in Matches(gateway.routes, path) :
                /\ chosen # 0
                /\ \/ RepeatsLastSlash(prefix(chosen))
                   \/ /\ covered(chosen) \subseteq covered(i)
                      /\ covered(chosen) = covered(i) => chosen <= i

\* Between rounds every backend's health is a verdict of the latest round: it
\* was up, or down, at some moment since that round began.  No probe of an
\* earlier round overwrites it late.
VerdictsAreCurrent == H!VerdictsAreCurrent

\* A backend that stays up or down for good is eventually seen as such for
\* good, as long as the process runs and the loop is not cancelled.
HealthConverges ==
  [](Running /\ ~cancelled) =>
    \A b \in Backends :
      /\ <>[](up[b]) => <>[](healthy[b])
      /\ <>[](~up[b]) => <>[](~healthy[b])

\* As long as the server serves or drains, shutting down takes no backend away
\* from the requests: one that was never down is in rotation.  The cancelled
\* probes that mark sound backends unhealthy come after draining.
DrainKeepsBackends ==
  main \in {"serving", "draining"} =>
    \A b \in Backends : healthy[b] \/ b \in everDown

\* When main returns, no health probe is still at work, and after a graceful
\* shutdown no handler is either, unless it took over its connection.
NothingLeftBehind ==
  main = "exited" =>
    /\ \A b \in Backends : flight[b] = <<>>
    /\ forced \/ handling \subseteq hijacked

\* A signal ends the process, even if some handler never returns, probes are
\* under way or the server fails at the same time.  In particular the cancelled
\* health-check loop stops, though select may prefer a tick to ctx.Done.
ShutdownEnds == signalled ~> ~Running
=============================================================================
