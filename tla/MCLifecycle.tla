---------------------------- MODULE MCLifecycle ----------------------------
(***************************************************************************)
(* Lifecycle with families of configurations: each varies one section over *)
(* its boundary values and keeps the others fixed.                         *)
(***************************************************************************)
EXTENDS Lifecycle

Limit(finite, rate, burst) ==
  [finite |-> finite, rate |-> rate, burst |-> burst]
Limits == {Limit(finite, rate, burst) :
             finite \in BOOLEAN, rate \in -1 .. 1, burst \in -1 .. 1}
NoLimit == Limit(TRUE, 0, 0)

Pool(strategy, backends, interval, timeout, path, threshold, open, trials) ==
  [strategy    |-> strategy,
   backends    |-> backends,
   healthCheck |-> [interval |-> interval, timeout |-> timeout, path |-> path],
   breaker     |-> [failureThreshold    |-> threshold,
                    openTimeout         |-> open,
                    halfOpenMaxRequests |-> trials]]

PlainPool == Pool("round_robin", <<"absolute", "absolute">>, 0, 0, "", 0, 0, 0)

Route(prefix, protected, limit, cache) ==
  [pathPrefix |-> prefix, backendPool |-> "p", protected |-> protected,
   rateLimit |-> limit, cache |-> cache]

PlainRoute == Route(<<"a">>, FALSE, None, None)

NoCORS ==
  [allowedOrigins |-> {}, allowedMethods |-> {}, allowedHeaders |-> {},
   exposedHeaders |-> {}, allowCredentials |-> FALSE, maxAge |-> 0]

Plain ==
  [listenAddress  |-> "host:port",
   placeholders   |-> {},
   requestTimeout |-> 0,
   rateLimit      |-> NoLimit,
   apiKeys        |-> <<>>,
   cors           |-> NoCORS,
   backendPools   |-> [name \in {"p"} |-> PlainPool],
   routes         |-> <<PlainRoute>>]

TopLevel ==
  {[Plain EXCEPT !.listenAddress = address, !.placeholders = variables,
                 !.requestTimeout = timeout, !.routes = routes,
                 !.backendPools = [name \in names |-> PlainPool]] :
     address \in {"host:port", "blank"}, variables \in SUBSET {"set", "unset"},
     timeout \in -1 .. 1, names \in SUBSET {"p", "blank"},
     routes \in {<<>>, <<PlainRoute>>}}

PoolSections ==
  {[Plain EXCEPT !.backendPools["p"] =
      Pool(strategy, backends, interval, timeout, path, threshold, open,
           trials)] :
     strategy \in {"round_robin", "least_connections", "other"},
     backends \in {<<>>, <<"absolute">>, <<"absolute", "relative">>,
                   <<"absolute", "blank">>, <<"absolute", "malformed">>},
     interval \in -1 .. 0, timeout \in -1 .. 0, path \in {"", "relative"},
     threshold \in -1 .. 0, open \in -1 .. 0, trials \in -1 .. 0}

RouteSections ==
  {[Plain EXCEPT !.rateLimit = global, !.apiKeys = keys,
                 !.routes = <<Route(<<"a">>, protected, own, cache)>>] :
     global \in Limits, own \in {None, NoLimit, Limit(TRUE, 1, 1)},
     cache \in {None}, protected \in BOOLEAN, keys \in {<<>>, <<"visible">>}}
  \union
  {[Plain EXCEPT !.rateLimit = global, !.apiKeys = keys,
                 !.routes = <<Route(<<"a">>, protected, own, cache)>>] :
     global \in {NoLimit, Limit(TRUE, 1, 1)}, own \in Limits \union {None},
     cache \in {None} \union [ttl : 0 .. 1, maxEntries : 0 .. 1],
     protected \in {TRUE}, keys \in {<<"visible">>, <<"visible", "other">>}}

CORSSections ==
  {[Plain EXCEPT !.cors = section] :
     section \in [allowedOrigins   : {{}, {"o1"}, {"*"}, {"o1", "no origin"}},
                  allowedMethods   : {{}, {"GET"}, {"*"}, {"GET", "get"}},
                  allowedHeaders   : {{}, {"h"}, {"h", "no token"}},
                  exposedHeaders   : {{}, {"no token"}},
                  allowCredentials : BOOLEAN,
                  maxAge           : -1 .. 1]}

RoutePrefixes ==
  {Root, <<"", "">>, <<"a">>, <<"a", "">>, <<"a", "", "">>, <<"a", "b">>,
   <<"a", "b", "">>, <<"b">>}

RouteTables ==
  {[Plain EXCEPT !.routes =
      [i \in DOMAIN prefixes |-> Route(prefixes[i], FALSE, None, None)]] :
     prefixes \in [1 .. 3 -> RoutePrefixes]
                  \union [1 .. 2 -> RoutePrefixes \union {<<>>}]}

MCConfigs ==
  UNION {TopLevel, PoolSections, RouteSections, CORSSections, RouteTables}

MCPaths == UNION {[1 .. n -> {"", "a", "b"}] : n \in 1 .. 3}
=============================================================================
