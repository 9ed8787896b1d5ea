------------------------------ MODULE Pipeline ------------------------------
(***************************************************************************)
(* A request on its way through the middleware: newGatewayHandler in       *)
(* cmd/gateway/main.go, internal/middleware, the metrics recorder, the     *)
(* request metadata and the handlers of internal/proxy.                    *)
(*                                                                         *)
(* A handler that only touches its own request is an operator from         *)
(* exchange to exchange, so that the order in which handlers are composed  *)
(* is as visible as in the code; a handler that touches a limiter or a     *)
(* cache is an action.  A panic is part of the exchange and the deferred   *)
(* functions see it when the handlers unwind (Complete).                   *)
(*                                                                         *)
(* Of a response header the model keeps the values of X-Request-ID, of     *)
(* X-Cache and of Access-Control-Allow-Origin, in order and repeated as    *)
(* http.Header has them, and whether anything in it bars caching.  The     *)
(* limiter and the cache are those of ClientLimiter and Cache, seen from   *)
(* here: a bucket per route and client that refills at any time, and       *)
(* entries that may vanish at any time.  The backend pool (GatewayPool)    *)
(* refuses or gives a backend.  http.ServeMux, http.Server and             *)
(* httputil.ReverseProxy are external.                                     *)
(***************************************************************************)
EXTENDS Configuration, Routing, FiniteSets, Functions

CONSTANTS Requests,      \* request identities, each used once
          Shapes,        \* what a client can send
          Answers,       \* what an upstream can answer
          Clients,       \* client addresses
          Gateways       \* gateways that NewGateway builds

\* As NewGateway builds them from a configuration that Validate accepts.
ASSUME GatewaysWellTyped == \A g \in Gateways : WellBuilt(g)

VARIABLES gateway, ex, tokens, cache

vars == <<gateway, ex, tokens, cache>>

Buckets == {<<i, c>> : i \in DOMAIN gateway.routes, c \in Clients}

\* http.Header: the values of a field in the order they were added.
NoHeader ==
  [id |-> <<>>, grant |-> <<>>, bars |-> FALSE, cacheStatus |-> <<>>]

\* Clients have an address; an upstream answers with whatever header, of which
\* a grant is marked as the upstream's own, and a status of three digits: 1 to
\* 99 stand for 000 to 099, which http.Transport accepts.  It gives no interim
\* status as the answer, and a 101 is UpstreamUpgrades.
ASSUME MessagesWellTyped ==
  /\ \A shape \in Shapes : shape.client \in Clients /\ shape.origin # "upstream"
  /\ \A answer \in Answers :
       /\ answer.status \in (1 .. 99) \union (200 .. 999)
       /\ DOMAIN answer.header = DOMAIN NoHeader
       /\ answer.header.grant \in Seq({"upstream"})
  /\ None \notin {"gateway", "cache", "upstream"}

\* An exchange before its first handler.
NewExchange(r, shape) ==
  [request  |-> shape,
   idHeader |-> IF shape.safeID THEN <<"given", r>> ELSE None,
   newID    |-> <<"new", r>>,
   route    |-> 0,         \* index of the matched route
   todo     |-> <<>>,      \* the route's handlers still to come
   at       |-> "handler", \* then "store", "unwind" and "done"
   meta     |-> <<>>,      \* metadata instances made for the request
   ctx      |-> 0,         \* the one in the context of the innermost handler
   logCtx   |-> 0,         \* the one in the logger's context
   metricCtx |-> 0,        \* the one in the recorder's context
   header   |-> NoHeader,  \* w.Header()
   writers  |-> {},        \* the writers wrapped around the server's
   wrote    |-> [w \in {"cache", "metrics", "log", "client"} |-> 0],
   sent     |-> NoHeader,  \* the header the client got
   captured |-> NoHeader,  \* the header cacheResponseWriter cloned
   panic    |-> "none",
   body     |-> None,      \* whose body the client got
   log      |-> <<>>, metric |-> <<>>,
   \* history: an interim response was sent, a token taken, the identifiers
   \* given to the upstream, a backend used
   informed |-> FALSE, charged |-> FALSE, forwarded |-> {}, backend |-> FALSE]

Idle == [at |-> "idle"]

Finished == {r \in Requests : ex[r].at = "done"}

TypeOK ==
  /\ gateway \in Gateways
  /\ \A r \in Requests :
       /\ ex[r].at \in {"idle", "handler", "store", "unwind", "done"}
       /\ ex[r].at # "idle" => Len(ex[r].meta) = 1 /\ ex[r].ctx = 1
  /\ DOMAIN tokens = Buckets
  /\ \A b \in Buckets : tokens[b] \in 0 .. gateway.routes[b[1]].burst
  /\ DOMAIN cache = DOMAIN gateway.routes
  /\ \A i \in DOMAIN cache : ~gateway.routes[i].cached => cache[i] = {}

Init ==
  /\ gateway \in Gateways
  /\ ex = [r \in Requests |-> Idle]
  /\ tokens = [b \in Buckets |-> gateway.routes[b[1]].burst]
  /\ cache = [i \in DOMAIN gateway.routes |-> {}]

-----------------------------------------------------------------------------
(* Request metadata. *)

incomingOrNewID(x) == IF x.idHeader = None THEN x.newID ELSE x.idHeader

\* Mutant: every call installs new metadata.
EnsureAgain(x) ==
  LET id == incomingOrNewID(x)
  IN  [x EXCEPT !.meta = Append(@, [id |-> id, route |-> 0, backend |-> FALSE]),
                !.ctx = Len(x.meta) + 1, !.idHeader = id]

Ensure(x) ==
  LET id == incomingOrNewID(x)
  IN  IF x.ctx # 0 THEN x
      ELSE [x EXCEPT !.meta = Append(@, [id |-> id, route |-> 0,
                                         backend |-> FALSE]),
                     !.ctx = 1, !.idHeader = id]

RequestID(x, ctx) == x.meta[ctx].id
SetRoute(x, i) == [x EXCEPT !.meta[x.ctx].route = i]
SetBackend(x) == [x EXCEPT !.meta[x.ctx].backend = TRUE]
Route(x, ctx) == IF ctx = 0 THEN 0 ELSE x.meta[ctx].route
Backend(x, ctx) == x.meta[ctx].backend

-----------------------------------------------------------------------------
(* Response writers.  Every writer keeps its first final status and passes an *)
(* interim one on; only the last, the server's, sends either to the client.   *)

\* A 1xx status other than 101 Switching Protocols.
isInterim(status) == 100 <= status /\ status < 200 /\ status # 101

responseHeadersPreventCaching(header) == header.bars

WriteThrough(x, writers, status) ==
  LET first(w) == ~isInterim(status) /\ w \in writers /\ x.wrote[w] = 0
  IN  [x EXCEPT !.wrote = [w \in DOMAIN @ |-> IF first(w) THEN status ELSE @[w]],
                !.sent = IF first("client") THEN x.header ELSE @,
                !.captured = IF first("cache") THEN x.header ELSE @]

WriteHeader(x, status) == WriteThrough(x, x.writers \union {"client"}, status)

\* The handler answers by itself and calls no other.
Answer(x, status) == [WriteHeader(x, status) EXCEPT !.at = "unwind"]
Error(x, status) == [Answer(x, status) EXCEPT !.body = "gateway"]

\* The proxy handler returns, to cacheResponses if the route has it.
Return(x) ==
  [x EXCEPT !.at = IF "cache" \in x.writers THEN "store" ELSE "unwind"]

-----------------------------------------------------------------------------
(* Process-wide middleware. *)

RequestLogger(x) ==
  LET y == Ensure(x)
  IN  [y EXCEPT !.header.id = <<RequestID(y, y.ctx)>>,
                !.logCtx = y.ctx, !.writers = @ \union {"log"}]

Instrument(x) ==
  [x EXCEPT !.metricCtx = x.ctx, !.writers = @ \union {"metrics"}]

isPreflight(request) == request.method = "OPTIONS" /\ request.requestMethod # Empty

headersAllowed(cors, request) ==
  \/ "*" \in cors.allowedHeaders
  \/ request.requestHeaders \subseteq cors.allowedHeaders

originAllowed(cors, origin) ==
  "*" \in cors.allowedOrigins \/ origin \in cors.allowedOrigins

\* Mutant: the answer is not said to vary by Origin.
varyForPreflight(x, wildcard, preflight) ==
  [x EXCEPT !.header.bars = @ \/ preflight]

addVary(x, wildcard, preflight) ==
  [x EXCEPT !.header.bars = @ \/ ~wildcard \/ preflight]

CORS(cors, x) ==
  LET request == x.request
      preflight == isPreflight(request)
      wildcard == "*" \in cors.allowedOrigins /\ ~cors.allowCredentials
      varied == addVary(x, wildcard, preflight)
      granted == [varied EXCEPT
                    !.header.grant = <<IF wildcard THEN "*" ELSE request.origin>>]
  IN  CASE cors.allowedOrigins = {} \/ request.origin = Empty -> x
        [] OTHER ->
             IF ~originAllowed(cors, request.origin)
             THEN IF preflight THEN Error(varied, 403) ELSE varied
             ELSE IF ~preflight THEN granted
             ELSE IF /\ request.requestMethod \in cors.allowedMethods
                     /\ headersAllowed(cors, request)
             THEN Answer(granted, 204)
             ELSE Error(varied, 403)

\* Mutant: the cache comes before the limiter.
CacheBeforeLimit(route) ==
  (IF route.protected THEN <<"auth">> ELSE <<>>)
  \o (IF route.cached THEN <<"cache">> ELSE <<>>)
  \o (IF route.burst > 0 THEN <<"limit">> ELSE <<>>)
  \o <<"proxy">>

\* The handler chain of a route, outermost first.
routeMiddleware(route) ==
  (IF route.protected THEN <<"auth">> ELSE <<>>)
  \o (IF route.burst > 0 THEN <<"limit">> ELSE <<>>)
  \o (IF route.cached THEN <<"cache">> ELSE <<>>)
  \o <<"proxy">>

ServeHTTP(x) ==
  LET y == Ensure(x)
      z == [y EXCEPT !.header.id = <<RequestID(y, y.ctx)>>]
      i == matchRoute(gateway.routes, x.request.path)
  IN  IF i = 0 THEN Error(z, 404)
      ELSE [SetRoute(z, i) EXCEPT !.route = i,
                                  !.todo = routeMiddleware(gateway.routes[i])]

\* Mutant: the recorder is outside the logger.
metricsOutermost(x) ==
  LET y == CORS(gateway.cors, RequestLogger(Instrument(x)))
  IN  IF y.at = "unwind" THEN y ELSE ServeHTTP(y)

\* newGatewayHandler, from the outside in.
gatewayPath(x) ==
  LET y == CORS(gateway.cors, Instrument(RequestLogger(x)))
  IN  IF y.at = "unwind" THEN y ELSE ServeHTTP(y)

-----------------------------------------------------------------------------
(* Actions. *)

Arrive(r, shape) ==
  /\ ex[r] = Idle
  /\ ex' = [ex EXCEPT ![r] = gatewayPath(NewExchange(r, shape))]
  /\ UNCHANGED <<gateway, tokens, cache>>

\* r is about to enter the handler of that name.
Enters(r, handler) == ex[r].at = "handler" /\ Head(ex[r].todo) = handler

\* next.ServeHTTP
Delegate(x) == [x EXCEPT !.todo = Tail(@)]

APIKeyAuth(r) ==
  /\ Enters(r, "auth")
  /\ ex' = [ex EXCEPT ![r] =
       IF @.request.apiKey \in Range(gateway.apiKeys) THEN Delegate(@)
       ELSE Error(@, 401)]
  /\ UNCHANGED <<gateway, tokens, cache>>

rateLimit(r) ==
  /\ Enters(r, "limit")
  /\ LET bucket == <<ex[r].route, ex[r].request.client>>
     IN  IF tokens[bucket] > 0
         THEN /\ tokens' = [tokens EXCEPT ![bucket] = @ - 1]
              /\ ex' = [ex EXCEPT ![r] = [Delegate(@) EXCEPT !.charged = TRUE]]
         ELSE /\ ex' = [ex EXCEPT ![r] = Error(@, 429)]
              /\ UNCHANGED tokens
  /\ UNCHANGED <<gateway, cache>>

-----------------------------------------------------------------------------
(* The route's cache: a set of responses, at most one per path.  Scheme, host *)
(* and query, the rest of responseCacheKey, are fixed.                        *)

isCacheableRequest(request) ==
  request.method = "GET" /\ ~request.personal /\ ~request.upgrade

\* Stored fields replace those the writer has so far.
writeCachedResponse(x, response) ==
  LET y == [x EXCEPT
              !.header.grant = IF response.header.grant = <<>> THEN @
                               ELSE response.header.grant,
              !.header.id = <<RequestID(x, x.ctx)>>,
              !.header.cacheStatus = <<"HIT">>]
  IN  [Answer(y, 200) EXCEPT !.body = "cache"]

cacheResponses(r) ==
  /\ Enters(r, "cache")
  /\ LET x == ex[r]
         found == {c \in cache[x.route] : c.path = x.request.path}
     IN  ex' = [ex EXCEPT ![r] =
           IF ~isCacheableRequest(x.request) THEN Delegate(x)
           ELSE IF found # {}
           THEN writeCachedResponse(x, CHOOSE c \in found : TRUE)
           ELSE [Delegate(x) EXCEPT !.header.cacheStatus = <<"MISS">>,
                                    !.writers = @ \union {"cache"}]]
  /\ UNCHANGED <<gateway, tokens, cache>>

\* The inner handler has returned: response() and Set.
cacheStore(r) ==
  /\ ex[r].at = "store"
  /\ LET x == ex[r]
         stored == [path   |-> x.request.path,
                    header |-> [x.captured EXCEPT !.id = <<>>, !.cacheStatus = <<>>]]
         others == {c \in cache[x.route] : c.path # x.request.path}
         recording == /\ x.wrote["cache"] = 200
                      /\ ~responseHeadersPreventCaching(x.captured)
     IN  cache' = [cache EXCEPT ![x.route] =
                     IF recording THEN others \union {stored} ELSE @]
  /\ ex' = [ex EXCEPT ![r].at = "unwind"]
  /\ UNCHANGED <<gateway, tokens>>

\* An entry expires or is evicted.
Forget(i) ==
  /\ \E c \in cache[i] : cache' = [cache EXCEPT ![i] = @ \ {c}]
  /\ UNCHANGED <<gateway, ex, tokens>>

\* Time passes in a bucket.
Refill(b) ==
  /\ tokens[b] < gateway.routes[b[1]].burst
  /\ tokens' = [tokens EXCEPT ![b] = @ + 1]
  /\ UNCHANGED <<gateway, ex, cache>>

-----------------------------------------------------------------------------
(* serveRoute and the reverse proxy. *)

\* The pool's breaker or balancer refuses.
Unavailable(r) ==
  /\ Enters(r, "proxy")
  /\ ~ex[r].backend
  /\ ex' = [ex EXCEPT ![r] = Return(Error(@, 503))]
  /\ UNCHANGED <<gateway, tokens, cache>>

\* A backend is acquired, and Rewrite prepares the outgoing request.
Forwarded(x) ==
  [SetBackend(x) EXCEPT !.backend = TRUE, !.forwarded = {RequestID(x, x.ctx)}]

\* ErrorHandler: no answer, or none in time.
UpstreamFails(r, status) ==
  /\ Enters(r, "proxy")
  /\ LET x == Forwarded(ex[r])
         y == [x EXCEPT !.header.id = <<RequestID(x, x.ctx)>>]
     IN  ex' = [ex EXCEPT ![r] = Return(Error(y, status))]
  /\ UNCHANGED <<gateway, tokens, cache>>

\* Mutant: an X-Cache of the upstream stays in.
ModifyKeepsCacheStatus(x, header) == [header EXCEPT !.id = <<RequestID(x, x.ctx)>>]

ModifyResponse(x, header) ==
  [header EXCEPT !.cacheStatus = <<>>, !.id = <<RequestID(x, x.ctx)>>]

\* ReverseProxy adds the upstream's fields to the writer's, after the values
\* that are there (Header.Add).
copyHeader(x, header) ==
  [x EXCEPT !.header =
     [id          |-> @.id \o header.id,
      grant       |-> @.grant \o header.grant,
      bars        |-> @.bars \/ header.bars,
      cacheStatus |-> @.cacheStatus \o header.cacheStatus]]

\* While the proxy waits for the answer, the upstream sends an interim response
\* (103 stands for all of them).  ReverseProxy adds its fields to the writer's,
\* sends them and clears the writer's header, with what the gateway had put
\* there.  ModifyResponse sees none of it.
UpstreamInforms(r, answer) ==
  /\ Enters(r, "proxy")
  /\ LET x == WriteHeader(copyHeader(Forwarded(ex[r]), answer.header), 103)
     IN  ex' = [ex EXCEPT ![r] =
           [x EXCEPT !.header = NoHeader, !.informed = TRUE]]
  /\ UNCHANGED <<gateway, tokens, cache>>

\* The upstream answers; the body may break off, which panics with
\* http.ErrAbortHandler.  The server panics over a status below 100, when the
\* writers around it have kept it.
UpstreamAnswers(r, answer, breaksOff) ==
  /\ Enters(r, "proxy")
  /\ LET x == Forwarded(ex[r])
         y == copyHeader(x, ModifyResponse(x, answer.header))
         z == [WriteHeader(y, answer.status) EXCEPT !.body = "upstream"]
     IN  ex' = [ex EXCEPT ![r] =
           IF answer.status < 100
           THEN [WriteThrough(y, y.writers, answer.status) EXCEPT
                   !.panic = "other", !.at = "unwind"]
           ELSE IF breaksOff
           THEN [z EXCEPT !.panic = "abort", !.at = "unwind"]
           ELSE Return(z)]
  /\ UNCHANGED <<gateway, tokens, cache>>

\* The upstream agrees to switch protocols: the connection is hijacked and the
\* answer written to it past all writers.
UpstreamUpgrades(r, answer) ==
  /\ Enters(r, "proxy")
  /\ ex[r].request.upgrade
  /\ LET x == Forwarded(ex[r])
         y == copyHeader(x, ModifyResponse(x, answer.header))
     IN  ex' = [ex EXCEPT ![r] =
           [WriteThrough(y, {"client"}, 101) EXCEPT !.body = "upstream",
                                                    !.at = "unwind"]]
  /\ UNCHANGED <<gateway, tokens, cache>>

\* A handler panics with anything else before it has written a final header.
HandlerPanics(r) ==
  /\ ex[r].at = "handler"
  /\ ex' = [ex EXCEPT ![r].panic = "other", ![r].at = "unwind"]
  /\ UNCHANGED <<gateway, tokens, cache>>

-----------------------------------------------------------------------------
(* The deferred functions of Instrument, RequestLogger and Recovery. *)

metricMethod(method) ==
  IF method \in {"GET", "POST", "OPTIONS"} THEN method ELSE "OTHER"

\* Mutant: a panic is observed with the status so far.
statusSoFar(x, writer) == IF x.wrote[writer] = 0 THEN 200 ELSE x.wrote[writer]

statusOf(x, writer) ==
  IF x.wrote[writer] # 0 THEN x.wrote[writer]
  ELSE IF x.panic # "none" THEN 500 ELSE 200

observe(x) ==
  [x EXCEPT !.metric = Append(@, [method |-> metricMethod(x.request.method),
                                  route  |-> Route(x, x.metricCtx),
                                  status |-> statusOf(x, "metrics")])]

logCompletedRequest(x) ==
  [x EXCEPT !.log = Append(@, [id      |-> RequestID(x, x.logCtx),
                               backend |-> Backend(x, x.logCtx),
                               status  |-> statusOf(x, "log")])]

\* Recovery answers for a panic that is not an abort.
Recovery(x) ==
  IF x.panic # "other" THEN x
  ELSE [WriteThrough(x, {"client"}, 500) EXCEPT !.body = "gateway",
                                                !.panic = "none"]

Complete(r) ==
  /\ ex[r].at = "unwind"
  /\ ex' = [ex EXCEPT ![r] =
       [Recovery(logCompletedRequest(observe(@))) EXCEPT !.at = "done"]]
  /\ UNCHANGED <<gateway, tokens, cache>>

Next ==
  \/ \E r \in Requests :
       \/ \E shape \in Shapes : Arrive(r, shape)
       \/ APIKeyAuth(r) \/ rateLimit(r) \/ cacheResponses(r) \/ cacheStore(r)
       \/ Unavailable(r)
       \/ \E status \in {502, 504} : UpstreamFails(r, status)
       \/ \E answer \in Answers :
            \/ UpstreamInforms(r, answer)
            \/ \E breaksOff \in BOOLEAN : UpstreamAnswers(r, answer, breaksOff)
            \/ UpstreamUpgrades(r, answer)
       \/ HandlerPanics(r)
       \/ Complete(r)
  \/ \E i \in DOMAIN cache : Forget(i)
  \/ \E b \in Buckets : Refill(b)

Spec == Init /\ [][Next]_vars

-----------------------------------------------------------------------------
\* Every finished request has one access-log event and one measurement, and
\* both show the status the client got, also when a handler panicked, the body
\* broke off or an interim response came first.  There are two exceptions.  The
\* 101 of an upgraded connection goes past the writers, which then report 200.
\* And a status below 100 from the upstream is what both report, while the
\* client gets the 500 of Recovery.
StatusAgrees ==
  \A r \in Finished :
    LET x == ex[r]
        logged == x.log[1].status
    IN  /\ Len(x.log) = 1 /\ Len(x.metric) = 1
        /\ x.metric[1].status = logged
        /\ x.wrote["client"] # 101 =>
             x.wrote["client"] = IF logged < 100 THEN 500 ELSE logged

\* Every X-Request-ID that the client gets, whatever the upstream sent or the
\* cache held, is the one in the log and the one the upstream was given.  A
\* proxied response has it twice, from the logger or ServeHTTP and from
\* ModifyResponse, and once if an interim response took the first away.  A
\* response of the gateway's own lacks it only when an interim response came
\* first and then a handler panicked.  The log names a backend exactly if one
\* was used, and the measurement is filed under the route that was matched.
Correlated ==
  \A r \in Finished :
    LET x == ex[r]
        id == x.log[1].id
    IN  /\ x.sent.id \in {<<>>, <<id>>, <<id, id>>}
        /\ x.sent.id = <<>> => x.informed /\ x.body = "gateway"
        /\ x.body = "upstream" =>
             x.sent.id = IF x.informed THEN <<id>> ELSE <<id, id>>
        /\ x.forwarded \subseteq {id}
        /\ x.log[1].backend = x.backend
        /\ x.metric[1].route = x.route

\* The gateway never lets a page of one origin read a response by a grant made
\* for another origin, not even through the cache.  An allowed origin gets its
\* grant on every response, error or hit, except that a replayed response may
\* have the upstream's grant instead, and that a response which followed an
\* interim one has lost it: ReverseProxy cleared the fields that CORS had set
\* (docs/architecture.md says that CORS "places CORS headers on downstream
\* success and error responses").
GrantsAreOwn ==
  \A r \in Finished :
    LET x == ex[r]
        origin == x.request.origin
        own == IF "*" \in gateway.cors.allowedOrigins THEN "*" ELSE origin
        grants == Range(x.sent.grant)
    IN  /\ grants \subseteq {own, "upstream"}
        /\ (origin # Empty /\ originAllowed(gateway.cors, origin)
            /\ ~isPreflight(x.request)) =>
             IF x.body = "cache" THEN grants # {}
             ELSE own \in grants <=> ~x.informed

\* Whatever a protected or limited route serves, from the upstream or from the
\* cache, goes to a request with a valid key that was charged for; and a
\* request without a valid key is not charged ("a cache hit obeys the same
\* access and quota policy as a miss", README).
PolicyFirst ==
  \A r \in Finished :
    LET x == ex[r]
        authorised == x.request.apiKey \in Range(gateway.apiKeys)
    IN  x.route # 0 =>
          LET route == gateway.routes[x.route]
          IN  /\ x.body \in {"upstream", "cache"} =>
                   /\ route.protected => authorised
                   /\ route.burst > 0 => x.charged
              /\ x.charged /\ route.protected => authorised

\* X-Cache tells the truth: HIT if the response was replayed, MISS if an
\* eligible lookup led to the proxy, and nothing otherwise, whatever X-Cache the
\* upstream sent or was stored.  A response that followed an interim one has
\* lost its MISS, which ReverseProxy cleared (docs/architecture.md says that
\* "Eligible lookups return X-Cache: MISS when the request reaches the proxy").
CacheStatusTrue ==
  \A r \in Finished :
    LET x == ex[r]
    IN  x.sent.cacheStatus =
          IF x.body = "cache" THEN <<"HIT">>
          ELSE IF "cache" \in x.writers /\ ~x.informed THEN <<"MISS">> ELSE <<>>
=============================================================================
