----------------------------- MODULE MCPipeline -----------------------------
(***************************************************************************)
(* Pipeline for gateways built from three configurations: without CORS,    *)
(* with listed origins and with every origin.  Route /a has every policy,  *)
(* route /b is public and cached, anything else is unmatched.              *)
(***************************************************************************)
EXTENDS Pipeline, TLC

CachedRoute(prefix, protected, limit) ==
  [pathPrefix |-> prefix, backendPool |-> "p", protected |-> protected,
   rateLimit |-> limit, cache |-> [ttl |-> 1, maxEntries |-> 1]]

Config(origins) ==
  [listenAddress  |-> "host:port",
   placeholders   |-> {},
   requestTimeout |-> 0,
   rateLimit      |-> [finite |-> TRUE, rate |-> 0, burst |-> 0],
   apiKeys        |-> <<"visible">>,
   cors           |-> [allowedOrigins   |-> origins,
                       allowedMethods   |-> IF origins = {} THEN {} ELSE {"GET"},
                       allowedHeaders   |-> IF origins = {} THEN {} ELSE {"h"},
                       exposedHeaders   |-> {},
                       allowCredentials |-> FALSE,
                       maxAge           |-> 0],
   backendPools   |->
     [name \in {"p"} |->
        [strategy |-> "round_robin", backends |-> <<"absolute">>,
         healthCheck |-> [interval |-> 0, timeout |-> 0, path |-> ""],
         breaker |-> [failureThreshold |-> 0, openTimeout |-> 0,
                      halfOpenMaxRequests |-> 0]]],
   routes |-> <<CachedRoute(<<"a">>, TRUE, [finite |-> TRUE, rate |-> 1, burst |-> 1]),
                CachedRoute(<<"b">>, FALSE, None)>>]

Accepted ==
  {c \in {Config(origins) : origins \in {{}, {"o1", "o2"}, {"*"}}} : Validate(c)}

MCGateways == {NewGateway(c) : c \in Accepted}

Get == [path |-> <<"a">>, method |-> "GET", origin |-> "", requestMethod |-> "",
        requestHeaders |-> {}, apiKey |-> "visible", safeID |-> TRUE,
        personal |-> FALSE, upgrade |-> FALSE, client |-> "c1"]

MCShapes ==
  {[Get EXCEPT !.origin = origin, !.apiKey = key] :
     origin \in {"", "o1"}, key \in {"visible", ""}}
  \union {[Get EXCEPT !.path = <<"b">>, !.origin = origin] :
            origin \in {"", "o1", "o2", "o3"}}
  \union {[Get EXCEPT !.path = <<"a", "b">>, !.safeID = FALSE, !.personal = TRUE],
          [Get EXCEPT !.path = <<"c">>, !.origin = "o1"],
          [Get EXCEPT !.apiKey = "wrong", !.method = "BREW"],
          [Get EXCEPT !.client = "c2", !.method = "POST"],
          [Get EXCEPT !.path = <<"b">>, !.upgrade = TRUE, !.safeID = FALSE]}
  \union {[Get EXCEPT !.method = "OPTIONS", !.apiKey = "", !.origin = origin,
                      !.requestMethod = "GET", !.requestHeaders = {"h"}] :
            origin \in {"", "o1", "o3"}}
  \union {[Get EXCEPT !.method = "OPTIONS", !.apiKey = "", !.origin = "o1",
                      !.requestMethod = "PUT"],
          [Get EXCEPT !.method = "OPTIONS", !.apiKey = "", !.origin = "o1",
                      !.requestMethod = "GET", !.requestHeaders = {"other"}]}

MCAnswers ==
  {[status |-> 200, header |-> NoHeader],
   [status |-> 99, header |-> NoHeader],
   [status |-> 500, header |-> [NoHeader EXCEPT !.cacheStatus = <<"HIT">>]],
   [status |-> 200, header |-> [NoHeader EXCEPT !.bars = TRUE]],
   [status |-> 200, header |-> [id |-> <<<<"upstream", "id">>>>, grant |-> <<"upstream">>,
                                bars |-> FALSE, cacheStatus |-> <<"HIT">>]]}

Symmetry == Permutations(Requests)
=============================================================================
