-------------------------- MODULE Lifecycle_proofs --------------------------
(***************************************************************************)
(* The gateway process, for every set of well-typed configurations, any    *)
(* number of pools, backends, routes and requests.                         *)
(*                                                                         *)
(* Configurations: the rules are kept in two places, Validate and the      *)
(* constructors, and the defaults in a third; ValidConstructs and          *)
(* ValidIsSound relate them.  AcceptedIsSound is not inductive: it needs   *)
(* to know that main has loaded only what is valid (IInv).                 *)
(*                                                                         *)
(* The health checks and the end of the process: LInv says what the probes *)
(* under way and the stored verdicts owe to the latest round, and what     *)
(* each stage of main implies for the checker and the handlers.            *)
(*                                                                         *)
(* Routing: the length of a prefix in bytes is compared with the set of    *)
(* paths it covers, segment by segment.                                    *)
(***************************************************************************)
EXTENDS Lifecycle, TLAPS

\* A rate limit that validateRateLimit lets pass and that turns limiting on is
\* one that NewClientLimiter accepts.
LEMMA LimitAccepted ==
  ASSUME NEW limit \in LimitType, validateRateLimit(limit), limit.rate > 0
  PROVE  NewClientLimiterAccepts(limit)
  BY DEF LimitType, validateRateLimit, NewClientLimiterAccepts

\* The limit of a route, its own or the global one, is well-typed and valid.
LEMMA RouteLimitValid ==
  ASSUME NEW cfgn, WellTyped(cfgn), Validate(cfgn), NEW i \in DOMAIN cfgn.routes
  PROVE  /\ routeLimit(cfgn, cfgn.routes[i]) \in LimitType
         /\ validateRateLimit(routeLimit(cfgn, cfgn.routes[i]))
<1> DEFINE route == cfgn.routes[i]
<1>1. route \in RouteType
  BY DEF WellTyped
<1>2. validateRoute(cfgn, route)
  BY DEF Validate
<1>3. CASE route.rateLimit = None
  BY <1>3 DEF routeLimit, WellTyped, Validate
<1>4. CASE route.rateLimit # None
  <2>1. route.rateLimit \in LimitType
    BY <1>1, <1>4 DEF RouteType
  <2>2. validateRateLimit(route.rateLimit)
    BY <1>2, <1>4 DEF validateRoute
  <2> QED BY <1>4, <2>1, <2>2 DEF routeLimit
<1> QED BY <1>3, <1>4

\* NewGatewayWithTransport and the constructors it calls refuse nothing that
\* Validate accepts.
LEMMA ValidConstructs ==
  ASSUME NEW cfgn, WellTyped(cfgn), Validate(cfgn)
  PROVE  Constructs(cfgn)
<1>1. ASSUME NEW name \in DOMAIN cfgn.backendPools
      PROVE  /\ NewPoolAccepts(cfgn.backendPools[name])
             /\ NewHealthCheckerAccepts(cfgn.backendPools[name].healthCheck)
             /\ NewBreakerAccepts(cfgn.backendPools[name].breaker)
             /\ \A i \in DOMAIN cfgn.backendPools[name].backends :
                  cfgn.backendPools[name].backends[i] # "malformed"
  <2>1. validatePool(cfgn.backendPools[name])
    BY <1>1 DEF Validate
  <2> QED BY <2>1 DEF validatePool, validateHealthCheck, NewPoolAccepts,
                      NewHealthCheckerAccepts, NewBreakerAccepts
<1>2. ASSUME NEW i \in DOMAIN cfgn.routes
      PROVE  /\ routeLimit(cfgn, cfgn.routes[i]).rate > 0 =>
                  NewClientLimiterAccepts(routeLimit(cfgn, cfgn.routes[i]))
             /\ cfgn.routes[i].cache # None => NewCacheAccepts(cfgn.routes[i].cache)
  <2>1. routeLimit(cfgn, cfgn.routes[i]).rate > 0 =>
          NewClientLimiterAccepts(routeLimit(cfgn, cfgn.routes[i]))
    BY <1>2, RouteLimitValid, LimitAccepted
  <2>2. validateRoute(cfgn, cfgn.routes[i])
    BY <1>2 DEF Validate
  <2>3. cfgn.routes[i].cache # None => NewCacheAccepts(cfgn.routes[i].cache)
    BY <2>2 DEF validateRoute, validateCache, NewCacheAccepts
  <2> QED BY <2>1, <2>3
<1> QED BY <1>1, <1>2 DEF Constructs

\* A pool section that validatePool lets pass becomes a pool that can run: all
\* its settings are positive once the defaults are filled in.
LEMMA PoolSound ==
  ASSUME NEW section \in PoolType, validatePool(section)
  PROVE  LET pool == buildPool(section)
         IN  /\ pool.size > 0
             /\ pool.interval > 0
             /\ pool.timeout > 0
             /\ pool.failureThreshold > 0
             /\ pool.openTimeout > 0
             /\ pool.halfOpenMaxRequests > 0
<1>1. Len(section.backends) > 0
  <2>1. section.backends \in Seq(STRING) /\ section.backends # <<>>
    BY DEF PoolType, validatePool
  <2> QED BY <2>1
<1>2. \A value \in Int, default \in Nat \ {0} : value >= 0 => ifZero(value, default) > 0
  BY DEF ifZero
<1>3. /\ section.healthCheck.interval \in Int /\ section.healthCheck.interval >= 0
      /\ section.healthCheck.timeout \in Int /\ section.healthCheck.timeout >= 0
  BY DEF PoolType, validatePool, validateHealthCheck
<1>4. /\ section.breaker.failureThreshold \in Int /\ section.breaker.failureThreshold >= 0
      /\ section.breaker.openTimeout \in Int /\ section.breaker.openTimeout >= 0
      /\ section.breaker.halfOpenMaxRequests \in Int
      /\ section.breaker.halfOpenMaxRequests >= 0
  BY DEF PoolType, validatePool
<1> QED BY <1>1, <1>2, <1>3, <1>4 DEF buildPool

\* The gateway built from a valid configuration can run: no ticker panics, no
\* time-out has expired from the start, every route has its pool, and every
\* protected route has keys.
LEMMA ValidIsSound ==
  ASSUME NEW cfgn, WellTyped(cfgn), Validate(cfgn)
  PROVE  Sound(NewGateway(cfgn))
<1> DEFINE g == NewGateway(cfgn)
<1>1. g.requestTimeout > 0
  <2>1. cfgn.requestTimeout \in Int
    BY DEF WellTyped
  <2> QED BY <2>1 DEF NewGateway, withDefault
<1>2. DOMAIN g.pools = DOMAIN cfgn.backendPools
  BY DEF NewGateway
<1>3. ASSUME NEW name \in DOMAIN g.pools
      PROVE  /\ g.pools[name].size > 0
             /\ g.pools[name].interval > 0
             /\ g.pools[name].timeout > 0
             /\ g.pools[name].failureThreshold > 0
             /\ g.pools[name].openTimeout > 0
             /\ g.pools[name].halfOpenMaxRequests > 0
  <2>1. name \in DOMAIN cfgn.backendPools
    BY <1>2, <1>3
  <2>2. cfgn.backendPools[name] \in PoolType /\ validatePool(cfgn.backendPools[name])
    BY <2>1 DEF WellTyped, Validate
  <2>3. g.pools[name] = buildPool(cfgn.backendPools[name])
    BY <2>1 DEF NewGateway
  <2> HIDE DEF g
  <2> QED BY <2>2, <2>3, PoolSound
<1>4. ASSUME NEW i \in DOMAIN g.routes
      PROVE  /\ g.routes[i].pool \in DOMAIN g.pools
             /\ g.routes[i].protected => g.apiKeys # <<>>
             /\ g.routes[i].burst >= 0
  <2>1. i \in DOMAIN cfgn.routes
    BY <1>4 DEF NewGateway
  <2>2. g.routes[i] = buildRoute(cfgn, cfgn.routes[i]) /\ g.apiKeys = cfgn.apiKeys
    BY <2>1 DEF NewGateway
  <2>3. validateRoute(cfgn, cfgn.routes[i])
    BY <2>1 DEF Validate
  <2>4. g.routes[i].pool \in DOMAIN g.pools
    BY <1>2, <2>2, <2>3 DEF buildRoute, validateRoute
  <2>5. g.routes[i].protected => g.apiKeys # <<>>
    BY <2>2, <2>3 DEF buildRoute, validateRoute
  <2>6. g.routes[i].burst >= 0
    <3>1. /\ routeLimit(cfgn, cfgn.routes[i]) \in LimitType
          /\ validateRateLimit(routeLimit(cfgn, cfgn.routes[i]))
      BY <2>1, RouteLimitValid
    <3> QED BY <2>2, <3>1 DEF buildRoute, LimitType, validateRateLimit
  <2> QED BY <2>4, <2>5, <2>6
<1>5. Sound(g)
  <2> HIDE DEF g
  <2> QED BY <1>1, <1>3, <1>4 DEF Sound
<1> QED BY <1>5

\* Nor can the middleware be surprised by such a gateway: a limit, where there is
\* one, is a natural number, and every origin is allowed only without credentials.
THEOREM ValidIsWellBuilt ==
  ASSUME NEW cfgn, WellTyped(cfgn), Validate(cfgn)
  PROVE  WellBuilt(NewGateway(cfgn))
<1> DEFINE g == NewGateway(cfgn)
<1>1. g.routes = [i \in DOMAIN cfgn.routes |-> buildRoute(cfgn, cfgn.routes[i])]
      /\ g.cors = cfgn.cors
  BY DEF NewGateway
<1>2. Len(cfgn.routes) \in Nat /\ DOMAIN cfgn.routes = 1 .. Len(cfgn.routes)
  <2>1. cfgn.routes \in Seq(RouteType)
    BY DEF WellTyped
  <2> QED BY <2>1
<1>3. ASSUME NEW i \in DOMAIN cfgn.routes
      PROVE  buildRoute(cfgn, cfgn.routes[i]) \in BuiltRoute
  <2> DEFINE limit == routeLimit(cfgn, cfgn.routes[i])
             burst == IF limit.rate > 0 THEN limit.burst ELSE 0
             route == cfgn.routes[i]
  <2>1. limit \in LimitType /\ validateRateLimit(limit)
    BY RouteLimitValid
  <2>2. burst \in Nat
    <3> HIDE DEF limit
    <3> QED BY <2>1 DEF LimitType, validateRateLimit
  <2>3. route \in RouteType
    BY DEF WellTyped
  <2>4. /\ route.pathPrefix \in Seq(STRING) /\ route.backendPool \in STRING
        /\ route.protected \in BOOLEAN
    <3> HIDE DEF route
    <3> QED BY <2>3 DEF RouteType
  <2>5. buildRoute(cfgn, route) =
          [pathPrefix |-> route.pathPrefix, pool |-> route.backendPool,
           protected |-> route.protected, burst |-> burst,
           cached |-> route.cache # None]
    BY DEF buildRoute
  <2> HIDE DEF burst, route
  <2> QED BY <2>2, <2>4, <2>5 DEF BuiltRoute, route
<1>4. g.routes \in Seq(BuiltRoute)
  <2> DEFINE f == [i \in 1 .. Len(cfgn.routes) |-> buildRoute(cfgn, cfgn.routes[i])]
  <2>1. g.routes = f
    BY <1>1, <1>2
  <2>2. f \in [1 .. Len(cfgn.routes) -> BuiltRoute]
    BY <1>2, <1>3
  <2> HIDE DEF f, g
  <2> QED BY <1>2, <2>1, <2>2
<1>5. "*" \in cfgn.cors.allowedOrigins => ~cfgn.cors.allowCredentials
  BY DEF Validate, validateCORS
<1> HIDE DEF g
<1>6. WellBuilt(g)
  BY <1>1, <1>4, <1>5 DEF WellBuilt
<1> QED BY <1>6 DEF g

-----------------------------------------------------------------------------
\* What main knows of the configuration between its steps.
IInv ==
  /\ main \in {"starting", "loaded"} => cfg \in Configs /\ WellTyped(cfg)
  /\ main = "loaded" => Validate(cfg)
  /\ main = "created" => \E c \in Configs : Validate(c) /\ gateway = NewGateway(c)
  /\ AcceptedIsSound

\* Steps after start-up leave the configuration behind.
Later == {"serving", "draining", "drained", "waiting", "fatal", "exited"}

\* They, and the steps that are not main's, keep IInv.
LEMMA LaterKeepsIInv ==
  IInv /\ (main' \in Later \/ UNCHANGED <<main, configVars>>) => IInv'
<1> SUFFICES ASSUME IInv, main' \in Later \/ UNCHANGED <<main, configVars>>
             PROVE  IInv'
  OBVIOUS
<1>1. CASE main' \in Later
  BY <1>1 DEF IInv, AcceptedIsSound, Later
<1>2. CASE UNCHANGED <<main, configVars>>
  BY <1>2 DEF IInv, AcceptedIsSound, configVars
<1> QED BY <1>1, <1>2

\* Every step keeps IInv.
LEMMA StepKeepsIInv == IInv /\ [Next]_vars => IInv'
<1> SUFFICES ASSUME IInv, [Next]_vars PROVE IInv'
  OBVIOUS
<1>1. CASE LoadConfiguration
  BY <1>1 DEF LoadConfiguration, configVars, IInv, AcceptedIsSound, Load
<1>2. CASE CreateGateway
  <2>1. cfg \in Configs /\ WellTyped(cfg) /\ Validate(cfg)
    BY <1>2 DEF CreateGateway, IInv
  <2>2. Constructs(cfg) /\ Sound(NewGateway(cfg))
    BY <2>1, ValidConstructs, ValidIsSound
  <2>3. main' = "created" /\ gateway' = NewGateway(cfg)
    BY <1>2, <2>1, <2>2 DEF CreateGateway
  <2> QED BY <2>1, <2>2, <2>3 DEF IInv, AcceptedIsSound
<1>3. CASE Serve \/ Fatal \/ Shutdown \/ Drained \/ StopHealthChecks \/ Exit \/ ForceClose
  <2>1. main' \in Later
    BY <1>3 DEF Serve, Fatal, Shutdown, Drained, StopHealthChecks, Exit, ForceClose,
                Later
  <2> QED BY <2>1, LaterKeepsIInv
<1>4. CASE SignalArrives \/ ServerFails \/ BackendChanges \/ CheckLoop \/ TickerFires
  <2>1. UNCHANGED <<main, configVars>>
    BY <1>4 DEF SignalArrives, ServerFails, BackendChanges, CheckLoop, TickerFires,
                ownVars
  <2> QED BY <2>1, LaterKeepsIInv
<1>5. ASSUME NEW r \in Requests,
             HandlerStarts(r) \/ HandlerUpgrades(r) \/ HandlerReturns(r)
      PROVE  IInv'
  <2>1. UNCHANGED <<main, configVars>>
    BY <1>5 DEF HandlerStarts, HandlerUpgrades, HandlerReturns
  <2> QED BY <2>1, LaterKeepsIInv
<1>6. ASSUME NEW b \in Backends, Probe(b) PROVE IInv'
  <2>1. UNCHANGED <<main, configVars>>
    BY <1>6 DEF Probe, ownVars
  <2> QED BY <2>1, LaterKeepsIInv
<1>7. CASE UNCHANGED vars
  <2>1. UNCHANGED <<main, configVars>>
    BY <1>7 DEF vars, ownVars
  <2> QED BY <2>1, LaterKeepsIInv
<1> QED BY <1>1, <1>2, <1>3, <1>4, <1>5, <1>6, <1>7 DEF Next, Main

\* IInv holds in every state of every behaviour.
LEMMA IInvInvariant == Spec => []IInv
<1>1. Init => IInv
  BY ConfigsWellTyped DEF Init, IInv, AcceptedIsSound
<1> QED BY <1>1, StepKeepsIInv, PTL DEF Spec

\* For every set of well-typed configurations: a configuration that Load accepts
\* is never refused by NewGateway, and the gateway built from it can run.
THEOREM AcceptedAlwaysSound == Spec => []AcceptedIsSound
<1>1. IInv => AcceptedIsSound
  BY DEF IInv
<1> QED BY <1>1, IInvInvariant, PTL

-----------------------------------------------------------------------------
(* The health checks and the end of the process.                            *)

\* Outside a round no probe is under way (group.Wait in Check).
Flights == loop # "checking" => \A b \in Backends : flight[b] = <<>>

\* Until the context is cancelled, a verdict, on its way or stored in this
\* round, is what the backend was at some moment since the round began.
Verdicts ==
  \A b \in Backends :
    /\ b \in IF up[b] THEN sawUp ELSE sawDown
    /\ flight[b] = <<"good">> => b \in sawUp
    /\ flight[b] = <<"bad">> /\ ~cancelled => b \in sawDown
    /\ flight[b] = <<>> /\ loop \in {"checking", "waiting"} /\ ~cancelled =>
         b \in IF healthy[b] THEN sawUp ELSE sawDown

\* Until then, only a backend that was down is or will be marked unhealthy.
Downs ==
  \A b \in Backends \ everDown :
    up[b] /\ (~cancelled => healthy[b] /\ flight[b] # <<"bad">>)

Checker == H!TypeOK /\ Flights /\ Verdicts /\ Downs /\ everDown \subseteq Backends

\* The health checks are cancelled after draining and have stopped before main
\* returns, and no handler starts once the server has drained by itself.
Stages ==
  /\ main \in Starting \union Ended
              \union {"serving", "draining", "drained", "waiting"}
  /\ cancelled => main \in {"waiting", "exited"}
  /\ main = "exited" => loop = "done"
  /\ main \in {"drained", "waiting", "exited"} => forced \/ handling \subseteq hijacked

\* The rest of TypeOK.
OwnTypes ==
  /\ cfg = None <=> main \notin {"starting", "loaded", "rejected", "not created"}
  /\ cfg = None \/ cfg \in Configs
  /\ gateway = None <=> main # "created"
  /\ signalled \in BOOLEAN
  /\ serverFailed \in BOOLEAN
  /\ handling \subseteq Requests
  /\ hijacked \subseteq handling
  /\ forced \in BOOLEAN

LInv == Checker /\ Stages /\ OwnTypes

\* Replacing or removing the only probe of a backend.
LEMMA OneFlight ==
  ASSUME NEW f \in {<<>>, <<"sent">>, <<"good">>, <<"bad">>}, NEW i \in DOMAIN f
  PROVE  /\ i = 1 /\ f = <<f[1]>>
         /\ SubSeq(f, 1, i - 1) \o SubSeq(f, i + 1, Len(f)) = <<>>
         /\ \A found \in {"good", "bad"} : [f EXCEPT ![i] = found] = <<found>>
<1>1. f # <<>> /\ i = 1 /\ f = <<f[1]>> /\ Len(f) = 1
  OBVIOUS
<1>2. SubSeq(f, 1, 0) = <<>> /\ SubSeq(f, 2, 1) = <<>>
  BY <1>1
<1> QED BY <1>1, <1>2

\* A probe is answered: the verdict is what the backend is now, unless the
\* context was cancelled.
LEMMA AnsweredKeeps ==
  ASSUME Checker, NEW b \in Backends, H!Answered(b), UNCHANGED everDown
  PROVE  Checker'
<1>1. PICK i \in DOMAIN flight[b], found \in {"good", "bad"} :
        /\ flight[b][i] = "sent"
        /\ found = "good" => up[b]
        /\ found = "bad" => ~up[b] \/ cancelled
        /\ flight' = [flight EXCEPT ![b][i] = found]
  BY DEF H!Answered
<1>2. UNCHANGED <<healthy, loop, ticker, cancelled, up, sawUp, sawDown>>
  BY DEF H!Answered, H!history
<1>t. flight \in [Backends -> {<<>>, <<"sent">>, <<"good">>, <<"bad">>}]
  BY DEF Checker, H!TypeOK
<1>3. flight' = [flight EXCEPT ![b] = <<found>>] /\ flight[b] # <<>>
  <2>1. PICK f \in {<<>>, <<"sent">>, <<"good">>, <<"bad">>} : f = flight[b]
    BY <1>t
  <2>2. [f EXCEPT ![i] = found] = <<found>> /\ f = <<f[1]>>
    <3>1. i \in DOMAIN f
      BY <2>1
    <3>2. /\ f = <<f[1]>>
          /\ \A v \in {"good", "bad"} : [f EXCEPT ![i] = v] = <<v>>
      BY <3>1, OneFlight
    <3> QED BY <3>2
  <2>3. flight' = [flight EXCEPT ![b] = [f EXCEPT ![i] = found]]
    BY <1>1, <2>1
  <2>4. flight[b] # <<>>
    BY <2>1, <2>2
  <2> QED BY <2>2, <2>3, <2>4
<1>4. H!TypeOK' /\ everDown' \subseteq Backends
  BY <1>2, <1>3 DEF Checker, H!TypeOK
<1>5. Flights'
  BY <1>2, <1>3 DEF Checker, Flights
<1>6. Verdicts'
  BY <1>t, <1>1, <1>2, <1>3 DEF Checker, Verdicts
<1>7. Downs'
  BY <1>t, <1>1, <1>2, <1>3 DEF Checker, Downs
<1> QED BY <1>4, <1>5, <1>6, <1>7 DEF Checker

\* checkBackend stores its verdict.
LEMMA StoredKeeps ==
  ASSUME Checker, NEW b \in Backends, H!Stored(b), UNCHANGED everDown
  PROVE  Checker'
<1>1. PICK i \in DOMAIN flight[b] :
        /\ flight[b][i] # "sent"
        /\ healthy' = [healthy EXCEPT ![b] = flight[b][i] = "good"]
        /\ flight' = [flight EXCEPT ![b] =
             SubSeq(flight[b], 1, i - 1) \o SubSeq(flight[b], i + 1, Len(flight[b]))]
  BY DEF H!Stored
<1>2. UNCHANGED <<loop, ticker, cancelled, up, sawUp, sawDown>>
  BY DEF H!Stored, H!history
<1>t. /\ flight \in [Backends -> {<<>>, <<"sent">>, <<"good">>, <<"bad">>}]
      /\ healthy \in [Backends -> BOOLEAN]
  BY DEF Checker, H!TypeOK
<1>3. /\ flight' = [flight EXCEPT ![b] = <<>>]
      /\ flight[b] \in {<<"good">>, <<"bad">>}
      /\ healthy' = [healthy EXCEPT ![b] = (flight[b] = <<"good">>)]
  <2>1. flight[b] \in {<<>>, <<"sent">>, <<"good">>, <<"bad">>}
    BY <1>t
  <2>2. /\ SubSeq(flight[b], 1, i - 1) \o SubSeq(flight[b], i + 1, Len(flight[b])) = <<>>
        /\ i = 1 /\ flight[b] = <<flight[b][1]>>
    BY <2>1, OneFlight
  <2>3. flight[b] \in {<<"good">>, <<"bad">>}
    BY <1>1, <2>1, <2>2
  <2>4. (flight[b][i] = "good") = (flight[b] = <<"good">>)
    BY <2>2, <2>3
  <2> QED BY <1>1, <2>2, <2>3, <2>4
<1>4. H!TypeOK' /\ everDown' \subseteq Backends
  <2>1. flight' \in [Backends -> {<<>>, <<"sent">>, <<"good">>, <<"bad">>}]
    BY <1>t, <1>3
  <2>2. healthy' \in [Backends -> BOOLEAN]
    BY <1>t, <1>3
  <2> QED BY <1>2, <2>1, <2>2 DEF Checker, H!TypeOK
<1>5. Flights'
  BY <1>t, <1>2, <1>3 DEF Checker, Flights
<1>6. Verdicts'
  <2> SUFFICES ASSUME NEW d \in Backends
               PROVE  /\ d \in IF up[d] THEN sawUp ELSE sawDown
                      /\ flight'[d] = <<"good">> => d \in sawUp
                      /\ flight'[d] = <<"bad">> /\ ~cancelled => d \in sawDown
                      /\ flight'[d] = <<>> /\ loop \in {"checking", "waiting"} /\ ~cancelled
                           => d \in IF healthy'[d] THEN sawUp ELSE sawDown
    BY <1>2 DEF Verdicts
  <2>1. CASE d # b
    <3>1. flight'[d] = flight[d] /\ healthy'[d] = healthy[d]
      BY <1>t, <1>3, <2>1
    <3> QED BY <3>1 DEF Checker, Verdicts
  <2>2. CASE d = b
    <3>1. flight'[d] = <<>> /\ (healthy'[d] <=> flight[d] = <<"good">>)
      BY <1>t, <1>3, <2>2
    <3>2. flight[d] = <<"good">> \/ flight[d] = <<"bad">>
      BY <1>3, <2>2
    <3>3. CASE flight[d] = <<"good">>
      BY <3>1, <3>3 DEF Checker, Verdicts
    <3>4. CASE flight[d] = <<"bad">>
      <4>1. ~healthy'[d]
        BY <3>1, <3>4
      <4> QED BY <3>1, <3>4, <4>1 DEF Checker, Verdicts
    <3> QED BY <3>2, <3>3, <3>4
  <2> QED BY <2>1, <2>2
<1>7. Downs'
  <2> SUFFICES ASSUME NEW d \in Backends \ everDown
               PROVE  up[d] /\ (~cancelled => healthy'[d] /\ flight'[d] # <<"bad">>)
    BY <1>2 DEF Downs
  <2>1. up[d] /\ (~cancelled => healthy[d] /\ flight[d] # <<"bad">>)
    BY DEF Checker, Downs
  <2>2. CASE d # b
    BY <1>t, <1>3, <2>1, <2>2
  <2>3. CASE d = b
    BY <1>t, <1>3, <2>1, <2>3
  <2> QED BY <2>2, <2>3
<1> QED BY <1>4, <1>5, <1>6, <1>7 DEF Checker

\* A round begins: Start, or the tick case of Run's select.
LEMMA RoundKeeps ==
  ASSUME Checker, H!Start \/ H!NextCheck, UNCHANGED everDown
  PROVE  Checker'
<1>1. /\ loop # "checking" /\ loop' = "checking"
      /\ sawUp' = H!UpNow /\ sawDown' = Backends \ H!UpNow
      /\ UNCHANGED <<healthy, cancelled, up>>
      /\ ticker' \in {"off", "empty", "full"}
  BY DEF H!Start, H!NextCheck, Checker, H!TypeOK
<1>2. \A b \in Backends : flight[b] = <<>>
  BY <1>1 DEF Checker, Flights
<1>3. \/ flight' = [b \in Backends |-> <<"sent">>]
      \/ cancelled /\ flight' = [b \in Backends |-> <<"bad">>]
  <2>1. CASE H!Start
    BY <2>1 DEF H!Start
  <2>2. CASE H!NextCheck
    <3>1. \A m \in {"bad", "sent"} : Append(<<>>, m) = <<m>>
      OBVIOUS
    <3>2. flight' = [b \in Backends |-> Append(<<>>, IF cancelled THEN "bad" ELSE "sent")]
      BY <1>2, <2>2 DEF H!NextCheck
    <3> QED BY <3>1, <3>2
  <2> QED BY <2>1, <2>2
<1>4. H!TypeOK' /\ everDown' \subseteq Backends
  BY <1>1, <1>3 DEF Checker, H!TypeOK, H!UpNow
<1>5. Flights'
  BY <1>1 DEF Flights
<1>6. ASSUME NEW b \in Backends
      PROVE  /\ flight'[b] # <<>> /\ flight'[b] # <<"good">>
             /\ flight'[b] = <<"bad">> => cancelled
  BY <1>3
<1>7. Verdicts'
  BY <1>1, <1>6 DEF Verdicts, H!UpNow
<1>8. Downs'
  BY <1>1, <1>6 DEF Checker, Downs
<1> QED BY <1>4, <1>5, <1>7, <1>8 DEF Checker

\* The steps that leave the verdicts alone.
LEMMA OtherCheckerSteps ==
  ASSUME Checker, UNCHANGED everDown,
         H!CheckReturns \/ H!Return \/ H!TickerFires \/ H!Cancel
  PROVE  Checker'
<1>1. UNCHANGED <<healthy, flight, up, sawUp, sawDown>>
  BY DEF H!CheckReturns, H!Return, H!TickerFires, H!Cancel, H!history
<1>2. H!TypeOK' /\ everDown' \subseteq Backends
  BY DEF Checker, H!TypeOK, H!CheckReturns, H!Return, H!TickerFires, H!Cancel, H!history
<1>3. /\ cancelled => cancelled'
      /\ loop' \in {"checking", "waiting"} => loop \in {"checking", "waiting"}
      /\ loop' # "checking" => loop # "checking" \/ \A b \in Backends : flight[b] = <<>>
  BY DEF H!CheckReturns, H!RoundOver, H!Return, H!TickerFires, H!Cancel
<1>4. Flights'
  BY <1>1, <1>3 DEF Checker, Flights
<1>5. Verdicts'
  BY <1>1, <1>3 DEF Checker, Verdicts
<1>6. Downs'
  BY <1>1, <1>3 DEF Checker, Downs
<1> QED BY <1>2, <1>4, <1>5, <1>6 DEF Checker

\* A backend comes or goes.
LEMMA BackendChangesKeeps ==
  ASSUME Checker, BackendChanges
  PROVE  Checker'
<1>1. PICK b \in Backends :
        /\ H!BackendChanges(b)
        /\ everDown' = IF up[b] THEN everDown \union {b} ELSE everDown
  BY DEF BackendChanges
<1>2. /\ up' = [up EXCEPT ![b] = ~up[b]]
      /\ sawUp' = IF up[b] THEN sawUp ELSE sawUp \union {b}
      /\ sawDown' = IF up[b] THEN sawDown \union {b} ELSE sawDown
      /\ UNCHANGED <<healthy, loop, flight, ticker, cancelled>>
  BY <1>1 DEF H!BackendChanges
<1>t. up \in [Backends -> BOOLEAN]
  BY DEF Checker, H!TypeOK
<1>3. H!TypeOK' /\ everDown' \subseteq Backends
  BY <1>t, <1>1, <1>2 DEF Checker, H!TypeOK
<1>4. Flights'
  BY <1>2 DEF Checker, Flights
<1>5. \A d \in Backends : up'[d] = IF d = b THEN ~up[d] ELSE up[d]
  BY <1>t, <1>2
<1>6. Verdicts'
  BY <1>2, <1>5 DEF Checker, Verdicts
<1>7. Downs'
  BY <1>1, <1>2, <1>5 DEF Checker, Downs
<1> QED BY <1>3, <1>4, <1>6, <1>7 DEF Checker

\* The steps of main and of the server leave the health checks alone.
LEMMA CheckerKept ==
  ASSUME Checker, UNCHANGED <<checkerVars, everDown>>
  PROVE  Checker'
BY DEF Checker, H!TypeOK, Flights, Verdicts, Downs, checkerVars

\* Every step of the process keeps what Checker says of the health checks.
LEMMA CheckerStep ==
  ASSUME Checker, [Next]_vars
  PROVE  Checker'
<1>1. CASE \/ LoadConfiguration \/ CreateGateway \/ Fatal \/ Shutdown \/ Drained \/ Exit
           \/ ForceClose \/ SignalArrives \/ ServerFails
           \/ \E r \in Requests : HandlerStarts(r) \/ HandlerUpgrades(r) \/ HandlerReturns(r)
  <2>1. UNCHANGED <<checkerVars, everDown>>
    BY <1>1 DEF LoadConfiguration, CreateGateway, Fatal, Shutdown, Drained, Exit, ForceClose,
                SignalArrives, ServerFails, HandlerStarts, HandlerUpgrades, HandlerReturns,
                historyVars
  <2> QED BY <2>1, CheckerKept
<1>2. CASE Serve
  BY <1>2, RoundKeeps DEF Serve, historyVars
<1>3. CASE StopHealthChecks
  BY <1>3, OtherCheckerSteps DEF StopHealthChecks, historyVars
<1>4. CASE BackendChanges
  BY <1>4, BackendChangesKeeps
<1>5. ASSUME NEW b \in Backends, Probe(b) PROVE Checker'
  BY <1>5, AnsweredKeeps, StoredKeeps DEF Probe, ownVars, historyVars
<1>6. CASE CheckLoop
  BY <1>6, RoundKeeps, OtherCheckerSteps DEF CheckLoop, H!Loop, ownVars, historyVars
<1>7. CASE TickerFires
  BY <1>7, OtherCheckerSteps DEF TickerFires, ownVars, historyVars
<1>8. CASE UNCHANGED vars
  BY <1>8, CheckerKept DEF vars, ownVars, historyVars
<1> QED BY <1>1, <1>2, <1>3, <1>4, <1>5, <1>6, <1>7, <1>8 DEF Next, Main

\* The stages of the process.
LEMMA StagesStep ==
  ASSUME Checker, Stages, OwnTypes, [Next]_vars
  PROVE  Stages'
<1> USE DEF Stages, Starting, Ended, Running
<1>1. CASE LoadConfiguration \/ CreateGateway \/ Serve \/ Fatal \/ Shutdown
  <2>1. cancelled' = cancelled
    BY <1>1 DEF LoadConfiguration, CreateGateway, Serve, Fatal, Shutdown, H!Start,
                checkerVars
  <2>2. main \notin {"waiting", "exited"}
    BY <1>1 DEF LoadConfiguration, CreateGateway, Serve, Fatal, Shutdown
  <2>3. main' \in {"loaded", "rejected", "created", "not created", "serving", "fatal",
                   "draining"}
    BY <1>1 DEF LoadConfiguration, CreateGateway, Serve, Fatal, Shutdown
  <2> QED BY <2>1, <2>2, <2>3
<1>2. CASE Drained
  BY <1>2 DEF Drained, checkerVars, requestVars, historyVars
<1>3. CASE ForceClose
  BY <1>3 DEF ForceClose, checkerVars, requestVars
<1>4. CASE StopHealthChecks
  BY <1>4 DEF StopHealthChecks, H!Cancel, requestVars, historyVars
<1>5. CASE Exit
  BY <1>5 DEF Exit, checkerVars, requestVars, historyVars
<1>6. CASE SignalArrives \/ ServerFails
  <2>1. UNCHANGED <<main, cancelled, loop, handling, hijacked, forced>>
    BY <1>6 DEF SignalArrives, ServerFails, checkerVars, requestVars, historyVars
  <2> QED BY <2>1
<1>7. ASSUME NEW r \in Requests, HandlerStarts(r) PROVE Stages'
  BY <1>7 DEF HandlerStarts, checkerVars, historyVars
<1>8. ASSUME NEW r \in Requests, HandlerUpgrades(r) PROVE Stages'
  BY <1>8 DEF HandlerUpgrades, checkerVars, historyVars
<1>9. ASSUME NEW r \in Requests, HandlerReturns(r) PROVE Stages'
  BY <1>9 DEF HandlerReturns, checkerVars, historyVars
<1>10. CASE BackendChanges \/ CheckLoop \/ TickerFires \/ \E b \in Backends : Probe(b)
  <2>1. Running /\ UNCHANGED <<main, handling, hijacked, forced>>
    BY <1>10 DEF BackendChanges, CheckLoop, TickerFires, Probe, ownVars, requestVars,
                 historyVars
  <2>2. cancelled' = cancelled
    BY <1>10 DEF BackendChanges, H!BackendChanges, CheckLoop, H!Loop, H!CheckReturns,
                 H!NextCheck, H!Return, TickerFires, H!TickerFires, Probe, H!Answered,
                 H!Stored
  <2> QED BY <2>1, <2>2
<1>11. CASE UNCHANGED vars
  BY <1>11 DEF vars, checkerVars, ownVars, requestVars, historyVars
<1> QED BY <1>1, <1>2, <1>3, <1>4, <1>5, <1>6, <1>7, <1>8, <1>9, <1>10, <1>11
        DEF Next, Main

\* The types of main's own variables.
LEMMA OwnTypesStep ==
  ASSUME Stages, OwnTypes, [Next]_vars
  PROVE  OwnTypes'
<1> USE DEF OwnTypes
<1>1. CASE LoadConfiguration
  BY <1>1 DEF LoadConfiguration, configVars, signalVars, requestVars, historyVars
<1>2. CASE CreateGateway
  <2>1. cfg \in Configs /\ NewGateway(cfg) # None
    BY <1>2, NoneIsNothing DEF CreateGateway
  <2> QED BY <1>2, <2>1 DEF CreateGateway, configVars, signalVars, requestVars, historyVars
<1>3. CASE Serve
  BY <1>3 DEF Serve, signalVars, requestVars, historyVars
<1>4. CASE Fatal \/ Shutdown \/ Drained \/ StopHealthChecks \/ Exit \/ ForceClose
  BY <1>4 DEF Fatal, Shutdown, Drained, StopHealthChecks, Exit, ForceClose, configVars,
              signalVars, requestVars, historyVars
<1>5. CASE SignalArrives \/ ServerFails \/ BackendChanges
  BY <1>5 DEF SignalArrives, ServerFails, BackendChanges, configVars, signalVars,
              requestVars, historyVars
<1>6. ASSUME NEW r \in Requests,
             HandlerStarts(r) \/ HandlerUpgrades(r) \/ HandlerReturns(r)
      PROVE  OwnTypes'
  BY <1>6 DEF HandlerStarts, HandlerUpgrades, HandlerReturns, configVars, signalVars,
              historyVars
<1>7. CASE CheckLoop \/ TickerFires \/ UNCHANGED vars \/ \E b \in Backends : Probe(b)
  <2>1. UNCHANGED ownVars
    BY <1>7 DEF CheckLoop, TickerFires, Probe, vars
  <2> QED BY <2>1 DEF ownVars, configVars, signalVars, requestVars, historyVars
<1> QED BY <1>1, <1>2, <1>3, <1>4, <1>5, <1>6, <1>7 DEF Next, Main

\* LInv holds in every state of every behaviour.
LEMMA LInvInvariant == Spec => []LInv
<1>1. Init => LInv
  <2> SUFFICES ASSUME Init PROVE LInv
    OBVIOUS
  <2>1. Checker
    <3>1. H!TypeOK
      BY DEF Init, H!Init, H!TypeOK, H!UpNow
    <3>2. Flights /\ Verdicts /\ Downs /\ everDown \subseteq Backends
      BY DEF Init, H!Init, H!UpNow, Flights, Verdicts, Downs
    <3> QED BY <3>1, <3>2 DEF Checker
  <2>2. Stages
    BY DEF Init, H!Init, Stages, Starting
  <2>3. OwnTypes
    BY NoneIsNothing DEF Init, OwnTypes
  <2> QED BY <2>1, <2>2, <2>3 DEF LInv
<1>2. LInv /\ [Next]_vars => LInv'
  BY CheckerStep, StagesStep, OwnTypesStep DEF LInv
<1> QED BY <1>1, <1>2, PTL DEF Spec

\* Every variable keeps its type; in particular a backend has at most one probe
\* under way, so that no verdict can overtake a later one (HealthChecker.Check).
THEOREM TypeCorrect == Spec => []TypeOK
<1>1. LInv => TypeOK
  BY DEF LInv, Checker, Stages, OwnTypes, TypeOK
<1> QED BY <1>1, LInvInvariant, PTL

\* For any number of backends, between two rounds of an uncancelled loop every
\* stored verdict is one of the latest round (HealthChecker.Check and Run).
THEOREM VerdictsAlwaysCurrent == Spec => []VerdictsAreCurrent
<1>1. LInv => VerdictsAreCurrent
  <2> SUFFICES ASSUME LInv, loop = "waiting", ~cancelled, NEW b \in Backends
               PROVE  b \in IF healthy[b] THEN sawUp ELSE sawDown
    BY DEF VerdictsAreCurrent, H!VerdictsAreCurrent
  <2>1. flight[b] = <<>>
    BY DEF LInv, Checker, Flights
  <2> QED BY <2>1 DEF LInv, Checker, Verdicts
<1> QED BY <1>1, LInvInvariant, PTL

\* While the server serves or drains, a backend that was never down stays in
\* rotation (main cancels the health checks only after Shutdown or Close).
THEOREM DrainAlwaysKeepsBackends == Spec => []DrainKeepsBackends
<1>1. LInv => DrainKeepsBackends
  BY DEF LInv, Checker, Downs, Stages, DrainKeepsBackends
<1> QED BY <1>1, LInvInvariant, PTL

\* When main returns no probe is at work, and after a graceful shutdown no
\* handler is, but for those on hijacked connections (WaitForHealthChecks,
\* http.Server.Shutdown).
THEOREM NothingIsLeftBehind == Spec => []NothingLeftBehind
<1>1. LInv => NothingLeftBehind
  BY DEF LInv, Checker, Flights, Stages, NothingLeftBehind
<1> QED BY <1>1, LInvInvariant, PTL

-----------------------------------------------------------------------------
(* Routing.                                                                 *)

INSTANCE FiniteSetTheorems

\* Every nonempty set of naturals has a least element.
LEMMA LeastNatural ==
  ASSUME NEW S \in SUBSET Nat, S # {}
  PROVE  \E n \in S : \A m \in S : n <= m
<1> DEFINE R == {ss \in Nat \X Nat : ss[1] < ss[2]}
<1>1. IsWellFoundedOn(R, Nat)
  BY NatLessThanWellFounded DEF OpToRel
<1> HIDE DEF R
<1>2. PICK n \in S : \A m \in S : ~(<<m, n>> \in R)
  BY <1>1, WFMin
<1>3. ASSUME NEW m \in S PROVE n <= m
  <2>1. ~(<<m, n>> \in R) /\ m \in Nat /\ n \in Nat
    BY <1>2
  <2>2. ~(m < n)
    BY <2>1 DEF R
  <2> QED BY <2>1, <2>2
<1> QED BY <1>3

\* Of finitely many indices with a rank there is a first one of highest rank:
\* the loop of matchRoute finds one.
LEMMA BestExists ==
  ASSUME NEW n \in Nat, NEW M \in SUBSET (1 .. n), M # {}, NEW f \in [M -> Nat]
  PROVE  \E i \in M : \A j \in M : f[i] > f[j] \/ (f[i] = f[j] /\ i <= j)
<1> DEFINE Best(i, m) == /\ i \in M /\ i <= m
                         /\ \A j \in M : j <= m => f[i] > f[j] \/ (f[i] = f[j] /\ i <= j)
           Bad == {m \in Nat : (\E j \in M : j <= m) /\ ~(\E i \in M : Best(i, m))}
<1>0. \A j \in M : j \in Nat /\ 1 <= j /\ j <= n
  OBVIOUS
<1>1. Bad = {}
  <2> SUFFICES ASSUME Bad # {} PROVE FALSE
    OBVIOUS
  <2>1. PICK m \in Bad : \A k \in Bad : m <= k
    BY LeastNatural
  <2>2. m \in Nat /\ m # 0 /\ m - 1 \in Nat /\ m - 1 \notin Bad
    <3>1. m \in Nat /\ \E j \in M : j <= m
      BY <2>1
    <3>2. m # 0 /\ m - 1 \in Nat
      BY <1>0, <3>1
    <3>3. m - 1 \notin Bad
      <4> SUFFICES ASSUME m - 1 \in Bad PROVE FALSE
        OBVIOUS
      <4>1. m <= m - 1
        BY <2>1
      <4> QED BY <3>1, <4>1
    <3> QED BY <3>1, <3>2, <3>3
  <2>3. CASE m \notin M
    <3>1. \A j \in M : j <= m <=> j <= m - 1
      <4> SUFFICES ASSUME NEW j \in M PROVE j <= m <=> j <= m - 1
        OBVIOUS
      <4>1. j \in Nat /\ j # m
        BY <1>0, <2>3
      <4> QED BY <2>2, <4>1
    <3>2. PICK i \in M : Best(i, m - 1)
      BY <2>1, <2>2, <3>1
    <3>3. Best(i, m)
      BY <2>2, <3>1, <3>2
    <3> QED BY <2>1, <3>3
  <2>4. CASE m \in M /\ ~(\E j \in M : j <= m - 1)
    <3>1. \A j \in M : j <= m => j = m
      BY <2>2, <2>4
    <3>2. Best(m, m)
      BY <2>2, <2>4, <3>1
    <3> QED BY <2>1, <2>4, <3>2
  <2>5. CASE m \in M /\ \E j \in M : j <= m - 1
    <3>1. PICK i \in M : Best(i, m - 1)
      BY <2>2, <2>5
    <3>2. \A j \in M : f[j] \in Nat /\ j \in Nat
      OBVIOUS
    <3>3. \A j \in M : j <= m => j <= m - 1 \/ j = m
      BY <2>2, <3>2
    <3>4. CASE f[m] > f[i]
      <4>1. Best(m, m)
        BY <2>2, <2>5, <3>1, <3>2, <3>3, <3>4
      <4> QED BY <2>1, <2>5, <4>1
    <3>5. CASE ~(f[m] > f[i])
      <4>1. Best(i, m)
        BY <2>2, <2>5, <3>1, <3>2, <3>3, <3>5
      <4> QED BY <2>1, <4>1
    <3> QED BY <3>4, <3>5
  <2> QED BY <2>3, <2>4, <2>5
<1>2. n \notin Bad /\ \E j \in M : j <= n
  BY <1>0, <1>1
<1> QED BY <1>0, <1>2

\* Sequences of the same length and the same elements are equal.
LEMMA SameSequence ==
  ASSUME NEW S, NEW s \in Seq(S), NEW t \in Seq(S), Len(s) = Len(t),
         \A i \in 1 .. Len(s) : s[i] = t[i]
  PROVE  s = t
OBVIOUS

\* An absolute path, and the number of its segments without the slashes at the
\* end (TrimSlashes).
IsPath(p) == p \in Seq(STRING) \ {<<>>}
LastSegment(p, n) == /\ n > 0 => p[n] # Empty
                     /\ \A i \in n + 1 .. Len(p) : p[i] = Empty
Trimmed(p) == CHOOSE n \in 0 .. Len(p) : LastSegment(p, n)

\* A path has a last segment that is not empty, or none that is not.
LEMMA TrimmedType ==
  ASSUME NEW p, IsPath(p)
  PROVE  /\ Len(p) \in Nat /\ Len(p) > 0 /\ DOMAIN p = 1 .. Len(p)
         /\ Trimmed(p) \in 0 .. Len(p)
         /\ Trimmed(p) > 0 => p[Trimmed(p)] # Empty
         /\ \A i \in DOMAIN p : i > Trimmed(p) => p[i] = Empty
<1> DEFINE S == {n \in Nat : n <= Len(p) /\ \A i \in n + 1 .. Len(p) : p[i] = Empty}
<1>1. Len(p) \in Nat /\ Len(p) > 0 /\ DOMAIN p = 1 .. Len(p)
  <2>1. p \in Seq(STRING) /\ p # <<>>
    BY DEF IsPath
  <2> QED BY <2>1
<1>2. S \in SUBSET Nat /\ Len(p) \in S
  BY <1>1
<1>3. PICK m \in S : \A n \in S : m <= n
  <2> HIDE DEF S
  <2> QED BY <1>2, LeastNatural
<1>4. m \in 0 .. Len(p) /\ \A i \in m + 1 .. Len(p) : p[i] = Empty
  BY <1>1, <1>3
<1>5. m > 0 => p[m] # Empty
  <2> SUFFICES ASSUME m > 0, p[m] = Empty PROVE FALSE
    OBVIOUS
  <2>1. m - 1 \in Nat /\ m - 1 <= Len(p) /\ ~(m <= m - 1)
    BY <1>1, <1>4
  <2>2. ASSUME NEW i \in (m - 1) + 1 .. Len(p) PROVE p[i] = Empty
    <3>1. i = m \/ i \in m + 1 .. Len(p)
      BY <1>1, <1>4
    <3> QED BY <1>4, <3>1
  <2>3. m - 1 \in S
    BY <2>1, <2>2
  <2> QED BY <1>3, <2>1, <2>3
<1>6. LastSegment(p, m)
  BY <1>4, <1>5 DEF LastSegment
<1>7. Trimmed(p) \in 0 .. Len(p) /\ LastSegment(p, Trimmed(p))
  BY <1>4, <1>6 DEF Trimmed
<1>8. \A i \in DOMAIN p : i > Trimmed(p) => p[i] = Empty
  <2> SUFFICES ASSUME NEW i \in DOMAIN p, i > Trimmed(p) PROVE p[i] = Empty
    OBVIOUS
  <2>1. i \in Trimmed(p) + 1 .. Len(p)
    BY <1>1, <1>7
  <2> QED BY <1>7, <2>1 DEF LastSegment
<1> QED BY <1>1, <1>7, <1>8 DEF LastSegment

\* One slash at the end adds no more than one to the segments.
LEMMA OneSlash ==
  ASSUME NEW p, IsPath(p), ~RepeatsLastSlash(p)
  PROVE  Len(p) <= Trimmed(p) + 1
<1> DEFINE n == Len(p)
           k == Trimmed(p)
<1>1. /\ n \in Nat /\ DOMAIN p = 1 .. n /\ k \in 0 .. n
      /\ \A i \in DOMAIN p : i > k => p[i] = Empty
  BY TrimmedType
<1>2. ~(n > 1 /\ p[n] = Empty /\ p[n - 1] = Empty)
  BY DEF RepeatsLastSlash
<1> HIDE DEF n, k
<1>3. n <= k + 1
  <2> SUFFICES ASSUME n > k + 1 PROVE FALSE
    BY <1>1
  <2>1. n \in DOMAIN p /\ n - 1 \in DOMAIN p /\ n > k /\ n - 1 > k /\ n > 1
    BY <1>1
  <2> QED BY <1>1, <1>2, <2>1
<1> QED BY <1>3 DEF n, k

\* What a prefix matches, segment by segment.
LEMMA PathMatches ==
  ASSUME NEW p, IsPath(p), NEW path, IsPath(path)
  PROVE  prefixMatches(p, path) <=>
           \/ path = p
           \/ /\ Len(path) > Trimmed(p)
              /\ \A i \in 1 .. Trimmed(p) : path[i] = p[i]
<1> DEFINE k == Trimmed(p)
           t == SubSeq(p, 1, k)
<1>1. k \in 0 .. Len(p) /\ Len(p) \in Nat /\ p \in Seq(STRING)
  BY TrimmedType DEF IsPath
<1>2. t \in Seq(STRING) /\ Len(t) = k /\ \A i \in 1 .. k : t[i] = p[i]
  BY <1>1
<1>3. TrimSlashes(p) = t
  BY DEF TrimSlashes, Trimmed, LastSegment
<1>4. p = Root => k = 0
  <2> SUFFICES ASSUME p = Root, k # 0 PROVE FALSE
    OBVIOUS
  <2>1. Len(p) = 1 /\ p[1] = Empty
    BY DEF Root
  <2>2. k = 1 /\ p[k] # Empty
    BY <1>1, <2>1, TrimmedType
  <2> QED BY <2>1, <2>2
<1>5. Len(path) \in Nat /\ Len(path) > 0
  BY TrimmedType
<1> HIDE DEF k, t
<1>6. IsBelow(path, t) <=> Len(path) > k /\ \A i \in 1 .. k : path[i] = t[i]
  BY <1>2 DEF IsBelow
<1>7. prefixMatches(p, path) <=> p = Root \/ path = p \/ IsBelow(path, t)
  BY <1>3 DEF prefixMatches
<1>8. p = Root => IsBelow(path, t)
  BY <1>4, <1>5, <1>6
<1>9. IsBelow(path, t) <=> Len(path) > k /\ \A i \in 1 .. k : path[i] = p[i]
  BY <1>2, <1>6
<1> QED BY <1>7, <1>8, <1>9 DEF k

\* Where the segments that are not empty are.
Segments(p) == {i \in DOMAIN p : p[i] # Empty}

\* The length of a path in bytes.
LEMMA PathLength ==
  ASSUME NEW p, IsPath(p)
  PROVE  /\ IsFiniteSet(Segments(p)) /\ Cardinality(Segments(p)) \in Nat
         /\ Length(p) = Len(p) + Cardinality(Segments(p))
         /\ Length(p) \in Nat
<1>1. Len(p) \in Nat /\ DOMAIN p = 1 .. Len(p)
  BY TrimmedType
<1>2. Segments(p) \subseteq 1 .. Len(p)
  BY <1>1 DEF Segments
<1>3. IsFiniteSet(1 .. Len(p))
  BY <1>1, FS_Interval
<1>4. IsFiniteSet(Segments(p)) /\ Cardinality(Segments(p)) \in Nat
  BY <1>2, <1>3, FS_Subset, FS_CardinalityType
<1>5. Length(p) = Len(p) + Cardinality(Segments(p))
  BY DEF Length, Segments
<1> QED BY <1>1, <1>4, <1>5

\* Of two prefixes that agree as far as the first goes, the one with more
\* segments is longer, unless slashes make up for them.
LEMMA AgreeingPrefixes ==
  ASSUME NEW p, NEW q, IsPath(p), IsPath(q), ~RepeatsLastSlash(p),
         Trimmed(p) <= Trimmed(q), \A i \in 1 .. Trimmed(p) : p[i] = q[i]
  PROVE  /\ Trimmed(p) < Trimmed(q) => Length(p) < Length(q)
         /\ Trimmed(p) = Trimmed(q) => Length(q) - Length(p) = Len(q) - Len(p)
<1>1. /\ Trimmed(p) \in 0 .. Len(p) /\ Len(p) \in Nat /\ Len(p) <= Trimmed(p) + 1
      /\ \A i \in DOMAIN p : i > Trimmed(p) => p[i] = Empty
      /\ DOMAIN p = 1 .. Len(p)
  BY TrimmedType, OneSlash
<1>2. /\ Trimmed(q) \in 0 .. Len(q) /\ Len(q) \in Nat
      /\ Trimmed(q) > 0 => q[Trimmed(q)] # Empty
      /\ \A i \in DOMAIN q : i > Trimmed(q) => q[i] = Empty
      /\ DOMAIN q = 1 .. Len(q)
  BY TrimmedType
<1>3. Segments(p) \subseteq Segments(q) /\ \A i \in Segments(p) : i <= Trimmed(p)
  BY <1>1, <1>2 DEF Segments
<1>4. /\ IsFiniteSet(Segments(q)) /\ Cardinality(Segments(q)) \in Nat
      /\ Length(q) = Len(q) + Cardinality(Segments(q))
  BY PathLength
<1>5. /\ Cardinality(Segments(p)) \in Nat
      /\ Length(p) = Len(p) + Cardinality(Segments(p))
  BY PathLength
<1>6. /\ Cardinality(Segments(p)) <= Cardinality(Segments(q))
      /\ Cardinality(Segments(p)) = Cardinality(Segments(q)) => Segments(p) = Segments(q)
  BY <1>3, <1>4, FS_Subset
<1>7. ASSUME Trimmed(p) < Trimmed(q) PROVE Length(p) < Length(q)
  <2>1. Trimmed(q) \in Segments(q)
    BY <1>1, <1>2, <1>7 DEF Segments
  <2>2. Segments(p) # Segments(q)
    BY <1>1, <1>2, <1>3, <1>7, <2>1
  <2>3. Cardinality(Segments(p)) < Cardinality(Segments(q))
    BY <1>4, <1>5, <1>6, <2>2
  <2>4. Len(p) <= Len(q)
    BY <1>1, <1>2, <1>7
  <2> QED BY <1>1, <1>2, <1>4, <1>5, <2>3, <2>4
<1>8. ASSUME Trimmed(p) = Trimmed(q) PROVE Length(q) - Length(p) = Len(q) - Len(p)
  <2>1. Segments(q) \subseteq Segments(p)
    BY <1>1, <1>2, <1>8 DEF Segments
  <2>2. Segments(q) = Segments(p)
    BY <1>3, <2>1
  <2> QED BY <1>1, <1>2, <1>4, <1>5, <2>2
<1> QED BY <1>7, <1>8

\* A path that a prefix matches begins with the prefix's segments.
LEMMA MatchesAgree ==
  ASSUME NEW p, IsPath(p), NEW path, IsPath(path), prefixMatches(p, path)
  PROVE  Len(path) >= Trimmed(p) /\ \A i \in 1 .. Trimmed(p) : path[i] = p[i]
<1>1. Trimmed(p) \in 0 .. Len(p) /\ Len(p) \in Nat /\ Len(path) \in Nat
  BY TrimmedType
<1> QED BY <1>1, PathMatches

\* Of two prefixes that match the same path, the longer covers no path that the
\* shorter does not, unless it ends in several slashes.
LEMMA LongerCoversLess ==
  ASSUME NEW p, NEW q, NEW path, NEW y, IsPath(p), IsPath(q), IsPath(path), IsPath(y),
         ~RepeatsLastSlash(p), prefixMatches(p, path), prefixMatches(q, path),
         Length(p) >= Length(q), prefixMatches(p, y)
  PROVE  prefixMatches(q, y)
<1>1. /\ Trimmed(p) \in 0 .. Len(p) /\ Len(p) \in Nat /\ p \in Seq(STRING)
  BY TrimmedType DEF IsPath
<1>2. /\ Trimmed(q) \in 0 .. Len(q) /\ Len(q) \in Nat /\ q \in Seq(STRING)
  BY TrimmedType DEF IsPath
<1>3. Length(p) \in Nat /\ Length(q) \in Nat
  BY PathLength
<1>4. \A i \in 1 .. Trimmed(p) : path[i] = p[i]
  BY MatchesAgree
<1>5. \A i \in 1 .. Trimmed(q) : path[i] = q[i]
  BY MatchesAgree
<1>6. Trimmed(p) >= Trimmed(q)
  <2> SUFFICES ASSUME Trimmed(p) < Trimmed(q) PROVE FALSE
    BY <1>1, <1>2
  <2>1. Trimmed(p) <= Trimmed(q) /\ \A i \in 1 .. Trimmed(p) : p[i] = q[i]
    BY <1>1, <1>2, <1>4, <1>5
  <2>2. Length(p) < Length(q)
    BY <2>1, AgreeingPrefixes
  <2> QED BY <1>3, <2>2
<1>7. \A i \in 1 .. Trimmed(q) : q[i] = p[i]
  BY <1>1, <1>2, <1>4, <1>5, <1>6
<1>8. Len(y) \in Nat /\ Len(y) >= Trimmed(p) /\ \A i \in 1 .. Trimmed(p) : y[i] = p[i]
  BY MatchesAgree, TrimmedType
<1>9. \A i \in 1 .. Trimmed(q) : y[i] = q[i]
  BY <1>1, <1>2, <1>6, <1>7, <1>8
<1>10. CASE Len(y) > Trimmed(q)
  BY <1>9, <1>10, PathMatches
<1>11. CASE Len(y) = Trimmed(q)
  <2>1. Trimmed(p) = Trimmed(q) /\ ~(Len(y) > Trimmed(p))
    BY <1>1, <1>2, <1>6, <1>8, <1>11
  <2>2. y = p
    BY <2>1, PathMatches
  <2>3. Len(q) <= Len(p)
    <3>1. Trimmed(p) <= Trimmed(q) /\ \A i \in 1 .. Trimmed(p) : p[i] = q[i]
      BY <1>1, <1>2, <1>7, <2>1
    <3>2. Length(q) - Length(p) = Len(q) - Len(p)
      BY <2>1, <3>1, AgreeingPrefixes
    <3> QED BY <1>1, <1>2, <1>3, <3>2
  <2>4. Len(q) = Len(y) /\ y \in Seq(STRING)
    BY <1>1, <1>2, <1>11, <2>2, <2>3
  <2>5. y = q
    BY <1>2, <1>9, <1>11, <2>4, SameSequence
  <2> QED BY <2>5 DEF prefixMatches
<1> QED BY <1>1, <1>2, <1>6, <1>8, <1>10, <1>11

\* A shorter prefix matches itself; the longer one does not match it, unless it
\* ends in several slashes.
LEMMA ShorterIsNotCovered ==
  ASSUME NEW p, NEW q, IsPath(p), IsPath(q), ~RepeatsLastSlash(p),
         Length(p) > Length(q)
  PROVE  prefixMatches(q, q) /\ ~prefixMatches(p, q)
<1>1. prefixMatches(q, q)
  BY DEF prefixMatches
<1>2. /\ Trimmed(p) \in 0 .. Len(p) /\ Len(p) \in Nat /\ Len(p) <= Trimmed(p) + 1
      /\ Trimmed(p) > 0 => p[Trimmed(p)] # Empty
  BY TrimmedType, OneSlash
<1>3. /\ Trimmed(q) \in 0 .. Len(q) /\ Len(q) \in Nat /\ DOMAIN q = 1 .. Len(q)
      /\ \A i \in DOMAIN q : i > Trimmed(q) => q[i] = Empty
  BY TrimmedType
<1>4. Length(p) \in Nat /\ Length(q) \in Nat
  BY PathLength
<1> SUFFICES ASSUME prefixMatches(p, q) PROVE FALSE
  BY <1>1
<1>5. q # p
  BY <1>4
<1>6. Len(q) > Trimmed(p) /\ \A i \in 1 .. Trimmed(p) : q[i] = p[i]
  BY <1>5, PathMatches
<1>7. Trimmed(p) <= Trimmed(q)
  <2> SUFFICES ASSUME Trimmed(p) > Trimmed(q) PROVE FALSE
    BY <1>2, <1>3
  <2>1. /\ Trimmed(p) > 0 /\ Trimmed(p) \in 1 .. Trimmed(p)
        /\ Trimmed(p) \in DOMAIN q
    BY <1>2, <1>3, <1>6
  <2> QED BY <1>2, <1>3, <1>6, <2>1
<1>8. /\ Trimmed(p) < Trimmed(q) => Length(p) < Length(q)
      /\ Trimmed(p) = Trimmed(q) => Length(q) - Length(p) = Len(q) - Len(p)
  <2>1. \A i \in 1 .. Trimmed(p) : p[i] = q[i]
    BY <1>6
  <2> QED BY <1>7, <2>1, AgreeingPrefixes
<1>9. Len(q) >= Len(p)
  BY <1>2, <1>3, <1>6
<1> QED BY <1>2, <1>3, <1>4, <1>7, <1>8, <1>9

\* What matchRoute returns, for any number of routes.
LEMMA MatchRouteChooses ==
  ASSUME NEW n \in Nat, NEW routes, DOMAIN routes = 1 .. n, NEW path,
         \A i \in 1 .. n : Length(routes[i].pathPrefix) \in Nat,
         Matches(routes, path) # {}
  PROVE  /\ matchRoute(routes, path) \in Matches(routes, path)
         /\ \A j \in Matches(routes, path) :
              LET chosen == matchRoute(routes, path)
                  longest == Length(routes[chosen].pathPrefix)
              IN  \/ longest > Length(routes[j].pathPrefix)
                  \/ longest = Length(routes[j].pathPrefix) /\ chosen <= j
<1> DEFINE M == Matches(routes, path)
           length(i) == Length(routes[i].pathPrefix)
           f == [i \in M |-> length(i)]
           First(i) == \A j \in M : length(i) > length(j) \/ (length(i) = length(j) /\ i <= j)
<1>1. M \in SUBSET (1 .. n) /\ M # {}
  BY DEF Matches
<1> HIDE DEF M
<1>2. f \in [M -> Nat]
  BY <1>1
<1> HIDE DEF f
<1>3. PICK i \in M : \A j \in M : f[i] > f[j] \/ (f[i] = f[j] /\ i <= j)
  BY <1>1, <1>2, BestExists, Zenon
<1>4. First(i)
  BY <1>3 DEF f
<1>5. matchRoute(routes, path) = CHOOSE k \in M : First(k)
  BY <1>1 DEF matchRoute, M
<1> HIDE DEF First
<1>6. matchRoute(routes, path) \in M /\ First(matchRoute(routes, path))
  BY <1>3, <1>4, <1>5
<1> QED BY <1>6 DEF First, M

\* For any routes that Validate accepts: of those that match a path, the one
\* chosen by length is the one that covers the fewest paths, and the first of
\* those that cover the same ones, unless its prefix ends in several slashes,
\* as those of the others may (matchRoute, prefixMatches).
THEOREM MostSpecificRouteChosen == Spec => []MostSpecificRoute
<1>1. ASSUME IInv PROVE MostSpecificRoute
  <2> SUFFICES ASSUME main = "created", NEW path \in Paths,
                      NEW i \in Matches(gateway.routes, path)
               PROVE
                 LET covered(k) ==
                       {x \in Paths : prefixMatches(gateway.routes[k].pathPrefix, x)}
                     chosen == matchRoute(gateway.routes, path)
                 IN  /\ chosen # 0
                     /\ \/ RepeatsLastSlash(gateway.routes[chosen].pathPrefix)
                        \/ /\ covered(chosen) \subseteq covered(i)
                           /\ covered(chosen) = covered(i) => chosen <= i
    BY DEF MostSpecificRoute
  <2>1. PICK c \in Configs : Validate(c) /\ gateway = NewGateway(c)
    BY <1>1 DEF IInv
  <2> DEFINE n == Len(c.routes)
             prefix(k) == c.routes[k].pathPrefix
             routes == gateway.routes
             chosen == matchRoute(routes, path)
  <2>2. n \in Nat /\ DOMAIN c.routes = 1 .. n
    BY <2>1, ConfigsWellTyped DEF WellTyped
  <2>3. DOMAIN routes = 1 .. n /\ \A k \in 1 .. n : routes[k].pathPrefix = prefix(k)
    BY <2>1, <2>2 DEF NewGateway, buildRoute
  <2>4. ASSUME NEW k \in 1 .. n
        PROVE  prefix(k) \in Paths /\ IsPath(prefix(k)) /\ Length(prefix(k)) \in Nat
    <3>1. prefix(k) \in Paths /\ IsPath(prefix(k))
      BY <2>1, <2>2, PrefixesArePaths DEF IsPath
    <3> HIDE DEF prefix
    <3> QED BY <3>1, PathLength
  <2> HIDE DEF n, prefix, routes
  <2>5. \A k \in 1 .. n : Length(routes[k].pathPrefix) \in Nat
    BY <2>3, <2>4
  <2>6. i \in Matches(routes, path)
    BY DEF routes
  <2>7. /\ chosen \in Matches(routes, path)
        /\ \/ Length(routes[chosen].pathPrefix) > Length(routes[i].pathPrefix)
           \/ Length(routes[chosen].pathPrefix) = Length(routes[i].pathPrefix) /\ chosen <= i
    BY <2>2, <2>3, <2>5, <2>6, MatchRouteChooses
  <2> HIDE DEF chosen
  <2>8. PICK p, q : p = routes[chosen].pathPrefix /\ q = routes[i].pathPrefix
    OBVIOUS
  <2>9. /\ chosen \in 1 .. n /\ i \in 1 .. n
        /\ prefixMatches(p, path) /\ prefixMatches(q, path)
    BY <2>3, <2>6, <2>7, <2>8 DEF Matches
  <2>10. /\ IsPath(p) /\ Length(p) \in Nat
         /\ q \in Paths /\ IsPath(q) /\ Length(q) \in Nat
    BY <2>3, <2>4, <2>8, <2>9
  <2>11. IsPath(path) /\ \A x \in Paths : IsPath(x)
    BY PrefixesArePaths DEF IsPath
  <2>12. Length(p) >= Length(q)
    <3>1. Length(p) > Length(q) \/ Length(p) = Length(q)
      BY <2>7, <2>8, Zenon
    <3>2. Length(p) \in Nat /\ Length(q) \in Nat
      BY <2>10, Zenon
    <3> QED BY <3>1, <3>2
  <2>13. chosen # 0
    BY <2>2, <2>9
  <2> DEFINE covered(z) == {x \in Paths : prefixMatches(z, x)}
  <2>14. ~RepeatsLastSlash(p) => covered(p) \subseteq covered(q)
    <3> SUFFICES ASSUME ~RepeatsLastSlash(p), NEW x \in Paths, prefixMatches(p, x)
                 PROVE  prefixMatches(q, x)
      OBVIOUS
    <3> QED BY <2>9, <2>10, <2>11, <2>12, LongerCoversLess
  <2>15. ~RepeatsLastSlash(p) => (covered(p) = covered(q) => chosen <= i)
    <3> SUFFICES ASSUME ~RepeatsLastSlash(p), Length(p) > Length(q)
                 PROVE  covered(p) # covered(q)
      BY <2>7, <2>8
    <3>1. prefixMatches(q, q) /\ ~prefixMatches(p, q)
      BY <2>10, ShorterIsNotCovered
    <3> QED BY <2>10, <3>1
  <2> QED BY <2>8, <2>13, <2>14, <2>15 DEF chosen, routes
<1> QED BY <1>1, IInvInvariant, PTL
=============================================================================
