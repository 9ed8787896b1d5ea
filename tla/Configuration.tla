--------------------------- MODULE Configuration ---------------------------
(***************************************************************************)
(* What a configuration may say and what is built from it: Config and      *)
(* Validate in internal/config/config.go, NewGatewayWithTransport in       *)
(* internal/proxy/gateway.go and the constructors it calls.                *)
(*                                                                         *)
(* Text is reduced to what the code asks of it: a URL is absolute,         *)
(* relative, blank or malformed; an API key is visible or not; a name is a *)
(* token or not; a path prefix is a sequence of segments as in Routing, or *)
(* <<>> if it does not start with a slash.  Durations and counts are       *)
(* integers, and a rate is an integer together with whether it is finite.  *)
(***************************************************************************)
EXTENDS Integers, Sequences

CONSTANT None                  \* a nil pointer: a section left out

LimitType == [finite : BOOLEAN, rate : Int, burst : Int]

PoolType ==
  [strategy    : STRING,
   backends    : Seq(STRING),
   healthCheck : [interval : Int, timeout : Int, path : STRING],
   breaker     : [failureThreshold : Int, openTimeout : Int,
                  halfOpenMaxRequests : Int]]

RouteType ==
  [pathPrefix  : Seq(STRING),
   backendPool : STRING,
   protected   : BOOLEAN,
   rateLimit   : LimitType \union {None},
   cache       : [ttl : Int, maxEntries : Int] \union {None}]

WellTyped(cfg) ==
  /\ cfg.requestTimeout \in Int
  /\ cfg.rateLimit \in LimitType
  /\ cfg.apiKeys \in Seq(STRING)
  /\ \A name \in DOMAIN cfg.backendPools : cfg.backendPools[name] \in PoolType
  /\ cfg.routes \in Seq(RouteType)

-----------------------------------------------------------------------------
(* Validate.  The order of its checks decides only which error is reported. *)

\* Mutant: a rate without a burst passes.
validateRateOnly(limit) ==
  /\ limit.finite
  /\ limit.rate >= 0
  /\ limit.burst >= 0

validateRateLimit(limit) ==
  /\ limit.finite
  /\ limit.rate >= 0
  /\ limit.burst >= 0
  /\ limit.rate = 0 <=> limit.burst = 0

validateCache(cache) == cache.ttl > 0 /\ cache.maxEntries > 0

validateHealthCheck(check) ==
  /\ check.interval >= 0
  /\ check.timeout >= 0
  /\ check.path # "relative"

validatePool(pool) ==
  /\ pool.strategy \in {"round_robin", "least_connections"}
  /\ pool.backends # <<>>
  /\ \A i \in DOMAIN pool.backends : pool.backends[i] = "absolute"
  /\ validateHealthCheck(pool.healthCheck)
  /\ pool.breaker.failureThreshold >= 0
  /\ pool.breaker.openTimeout >= 0
  /\ pool.breaker.halfOpenMaxRequests >= 0

validateRoute(cfg, route) ==
  /\ route.pathPrefix # <<>>
  /\ route.backendPool \in DOMAIN cfg.backendPools
  /\ route.protected => cfg.apiKeys # <<>>
  /\ route.rateLimit # None => validateRateLimit(route.rateLimit)
  /\ route.cache # None => validateCache(route.cache)

isHTTPToken(name) == name \notin {"", "no token"}
isUpper(name) == name # "get"

validateCORS(cors) ==
  /\ cors.maxAge >= 0
  /\ IF cors.allowedOrigins = {}
     THEN /\ cors.allowedMethods = {}
          /\ cors.allowedHeaders = {}
          /\ cors.exposedHeaders = {}
          /\ ~cors.allowCredentials
          /\ cors.maxAge = 0
     ELSE /\ cors.allowedMethods # {}
          /\ "no origin" \notin cors.allowedOrigins
          /\ ~("*" \in cors.allowedOrigins /\ cors.allowCredentials)
          /\ \A method \in cors.allowedMethods :
               method # "*" /\ isHTTPToken(method) /\ isUpper(method)
          /\ \A header \in cors.allowedHeaders \union cors.exposedHeaders :
               isHTTPToken(header)

Validate(cfg) ==
  /\ cfg.listenAddress # "blank"
  /\ DOMAIN cfg.backendPools # {}
  /\ validateRateLimit(cfg.rateLimit)
  /\ \A i \in DOMAIN cfg.apiKeys : cfg.apiKeys[i] = "visible"
  /\ validateCORS(cfg.cors)
  /\ \A name \in DOMAIN cfg.backendPools :
       name # "blank" /\ validatePool(cfg.backendPools[name])
  /\ cfg.routes # <<>>
  /\ \A i \in DOMAIN cfg.routes : validateRoute(cfg, cfg.routes[i])

\* Load: every placeholder names a variable that is set, and the result is
\* valid.  Reading and decoding the file either fail or give cfg.
Load(cfg, environment) ==
  cfg.placeholders \subseteq environment /\ Validate(cfg)

-----------------------------------------------------------------------------
(* What the constructors refuse. *)

NewPoolAccepts(pool) ==
  /\ pool.backends # <<>>
  /\ pool.strategy \in {"round_robin", "least_connections"}
  /\ \A i \in DOMAIN pool.backends : pool.backends[i] # "blank"

NewHealthCheckerAccepts(check) ==
  check.interval >= 0 /\ check.timeout >= 0 /\ check.path # "relative"

NewBreakerAccepts(breaker) ==
  /\ breaker.failureThreshold >= 0
  /\ breaker.openTimeout >= 0
  /\ breaker.halfOpenMaxRequests >= 0

NewClientLimiterAccepts(limit) ==
  limit.rate > 0 /\ limit.finite /\ limit.burst > 0

NewCacheAccepts(cache) == cache.ttl > 0 /\ cache.maxEntries > 0

\* The limit of a route: its own, or else the global one.
routeLimit(cfg, route) ==
  IF route.rateLimit = None THEN cfg.rateLimit ELSE route.rateLimit

\* NewGatewayWithTransport gets through its loops without an error.
Constructs(cfg) ==
  /\ \A name \in DOMAIN cfg.backendPools :
       LET pool == cfg.backendPools[name]
       IN  /\ NewPoolAccepts(pool)
           /\ NewHealthCheckerAccepts(pool.healthCheck)
           /\ NewBreakerAccepts(pool.breaker)
           /\ \A i \in DOMAIN pool.backends : pool.backends[i] # "malformed"
  /\ \A i \in DOMAIN cfg.routes :
       LET route == cfg.routes[i]
           limit == routeLimit(cfg, route)
       IN  /\ limit.rate > 0 => NewClientLimiterAccepts(limit)
           /\ route.cache # None => NewCacheAccepts(route.cache)

-----------------------------------------------------------------------------
(* What they build, with the defaults filled in (in seconds). *)

ifZero(value, default) == IF value = 0 THEN default ELSE value
withDefault(value, fallback) == IF value <= 0 THEN fallback ELSE value

buildPool(pool) ==
  [size                |-> Len(pool.backends),
   interval            |-> ifZero(pool.healthCheck.interval, 10),
   timeout             |-> ifZero(pool.healthCheck.timeout, 2),
   failureThreshold    |-> ifZero(pool.breaker.failureThreshold, 5),
   openTimeout         |-> ifZero(pool.breaker.openTimeout, 30),
   halfOpenMaxRequests |-> ifZero(pool.breaker.halfOpenMaxRequests, 1)]

\* A burst of 0 stands for a route without a limiter.
buildRoute(cfg, route) ==
  LET limit == routeLimit(cfg, route)
  IN  [pathPrefix |-> route.pathPrefix,
       pool       |-> route.backendPool,
       protected  |-> route.protected,
       burst      |-> IF limit.rate > 0 THEN limit.burst ELSE 0,
       cached     |-> route.cache # None]

NewGateway(cfg) ==
  [requestTimeout |-> withDefault(cfg.requestTimeout, 15),
   pools   |-> [name \in DOMAIN cfg.backendPools |->
                 buildPool(cfg.backendPools[name])],
   routes  |-> [i \in DOMAIN cfg.routes |-> buildRoute(cfg, cfg.routes[i])],
   apiKeys |-> cfg.apiKeys,
   cors    |-> cfg.cors]

\* A gateway that can run: no interval on which time.NewTicker panics, no
\* time-out that has expired from the start, no breaker that cannot trip or
\* cannot close again, a backend behind every route, and a key for every
\* protected one.
Sound(gateway) ==
  /\ gateway.requestTimeout > 0
  /\ \A name \in DOMAIN gateway.pools :
       LET pool == gateway.pools[name]
       IN  /\ pool.size > 0
           /\ pool.interval > 0
           /\ pool.timeout > 0
           /\ pool.failureThreshold > 0
           /\ pool.openTimeout > 0
           /\ pool.halfOpenMaxRequests > 0
  /\ \A i \in DOMAIN gateway.routes :
       LET route == gateway.routes[i]
       IN  /\ route.pool \in DOMAIN gateway.pools
           /\ route.protected => gateway.apiKeys # <<>>
           /\ route.burst >= 0

BuiltRoute == [pathPrefix : Seq(STRING), pool : STRING, protected : BOOLEAN,
               burst : Nat, cached : BOOLEAN]

\* What the middleware takes for granted of a gateway: its routes are complete,
\* and every origin is allowed only without credentials (validateCORS).
WellBuilt(gateway) ==
  /\ gateway.routes \in Seq(BuiltRoute)
  /\ "*" \in gateway.cors.allowedOrigins => ~gateway.cors.allowCredentials
=============================================================================
