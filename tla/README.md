# Gatex in TLA+

Gatex is an HTTP API gateway. A request is matched to a route, authenticated,
rate limited and looked up in the route's cache; on a miss it needs a permit
from the circuit breaker of the route's backend pool and a backend from the
pool's load balancer before `httputil.ReverseProxy` forwards it. One
health-check loop per pool changes the backends' health in the background.
These specifications model that path from the configuration file to the exit of
the process: the parts that share state between goroutines in full detail, and
the middleware around them as far as it decides what a client, a log or a
metric gets to see.

## Parts and their inventory

| Part (source) | State | Operations | Talks to | Modelled by |
| --- | --- | --- | --- | --- |
| Circuit breaker (`internal/breaker`) | state, failure streak, opening time, generation, half-open slots and successes; permits in flight | `Acquire`, `RecordSuccess`, `RecordFailure`, `Cancel`, `TransitionTo` | request path, metrics | `Breaker`, promise `CircuitBreaker` |
| Load balancer (`internal/balancer/pool.go`) | health and connection counter per backend, rotation position, selection mutex | `Acquire` (two strategies), `Release`, `SetHealthy` | request path, health checker | `Balancer`, promise `BackendPool` |
| Health checker (`internal/balancer/health_checker.go`) | probes in flight, ticker, context | `Start`, `Run`, `Check`, `checkBackend` | balancer, shutdown | `HealthChecker` |
| Request path (`internal/proxy/gateway.go`) | where each handler is, its permit and backend | `pool.acquire`, `serveRoute`, `ModifyResponse`, `ErrorHandler`, deferred `Release` | breaker, balancer, upstream | `GatewayPool` |
| Routing (`internal/proxy/gateway.go`) | none | `matchRoute`, `prefixMatches` | middleware, metrics | `Routing` |
| Rate limiter (`internal/ratelimiter`) | bucket and last-seen time per client, last cleanup per shard | `Allow` (refill, cleanup, create) | route middleware | `ClientLimiter`, promise `TokenBuckets` |
| Response cache (`internal/cache`) | map, recency list | `Get`, `Set` | caching middleware | `Cache` |
| Caching middleware (`internal/proxy/cache.go`) | where each handler is, the captured response | lookup, `WriteHeader`, `Write`, store | cache, request path | `CachedRoute` over `Cache` |
| Middleware, request metadata, recorder (`internal/middleware`, `internal/requestmeta`, `internal/metrics/prometheus.go`) | header, writers, metadata, panic of each request | log, measure, CORS, authenticate, limit, cache, forward, recover | everything on the request path | `Pipeline` over `Configuration` and `Routing` |
| Probes and breaker metrics (`internal/metrics`) | none of their own; a scan under way | `/healthz`, `/readyz`, scrape | breaker, balancer | `Readiness` |
| Configuration (`internal/config`, the constructors) | none | `Load`, `Validate`, `NewGateway` | lifecycle, everything built from it | `Configuration` |
| Lifecycle (`cmd/gateway`) | where `main` is, signal, server error, running handlers | load, create, start, drain, close, stop, wait | server, health checker | `Lifecycle` over `Configuration`, `Routing` and `HealthChecker` |
| Buffer pool, mock backend | none | | | not modelled |

What makes these parts hard: results that arrive after the breaker has changed
state; probe slots that could leak; health that flips in the middle of a
selection; releases racing increments; a clock read before the lock; expiry and
eviction at the capacity limit; overlapping probe rounds; cancellation at any
moment; handlers whose order decides who is charged, logged or let in; scans
that read a moving state piece by piece; rules written down in two places.
`PROJECT.json` lists each such hazard at its source line with the properties
that cover it.

## Modules

**`Breaker`** keeps the struct's fields under their own names. Every method
holds `Breaker.mu`, so each is one action. `permit[p]` is the permit of request
goroutine `p`; its status is `live` until its `sync.Once` fires. A result may be
reported any number of transitions after `Acquire`. **`CircuitBreaker`** states
the promise without generations, slot counter or clock: a request's outcome
counts while the request is in `valid`, and every change of mode empties
`valid`. The refinement mapping takes `valid` to be the live permits of the
current generation.

**`Balancer`** splits `Pool.Acquire` at every atomic load, since `SetHealthy`
and `Release` do not take `selectionMu`. `Release` is a load followed by a
compare-and-swap. `steady`, `seen`, `dark`, `atStart` and `owed` are history
variables: no code action is guarded by them. **`BackendPool`** states what a
caller gets: a backend that was healthy at some moment of the call, or a refusal
only if no backend was healthy during all of it.

**`GatewayPool`** composes the two promises with the steps of the handler:
breaker, balancer, round trip, body, deferred release. `ReverseProxy` is
external: it calls `ModifyResponse` when the header is in, `ErrorHandler` when
the round trip or a protocol upgrade fails, and panics when the body breaks off.
Because the promises are finite, this module needs no bound on time or
generations, which is what makes its liveness checks meaningful. The branch of
`pool.acquire` that its own comment calls unreachable is left out.

**`ClientLimiter`** splits `Allow` into reading the clock and the critical
section. Tokens are integers in units of `1/One` token. `lag` is chosen once per
behaviour: how long a handler may be held up between the two. `forgotten`,
`granted` and `windowStart` form an observer. **`TokenBuckets`** is the textbook
limiter.

**`Cache`** has the map and the list as separate state; `Get` and `Set` are one
step each because both run under `Cache.mu`. The recency list is kept as the
order of its elements, a set of pairs: moving to the front, removing and taking
the last are then operations on sets, which the prover handles. `stored` and
`usedSince` are history.

**`HealthChecker`** has one in-flight sequence per backend, so that rounds could
overlap if `group.Wait` did not prevent it, and a ticker channel of capacity one
that drops ticks.

**`CachedRoute`** puts the caching middleware before `Cache`, which it extends and
whose actions it uses; the opaque `Responses` of the cache become records of what
the middleware knows of a response. Lookup, header, each body chunk, return and store are separate
steps, so two misses of one key overlap in every way. What
`isCacheableRequest` and `responseHeadersPreventCaching` read from headers is
reduced to their verdict. The inner handler is external: it writes one final
header, then chunks, and returns, or it panics when the copy breaks off.

**`Configuration`** gives `Validate` with its helpers, what each constructor
refuses, and what `NewGateway` builds with the defaults filled in. Text is
reduced to the verdicts the code asks of it: a URL is absolute, relative, blank
or malformed, a name is a token or not. **`Routing`** represents a path by its
segments, so that the byte lengths `matchRoute` compares, slashes included, and
the coverage of a prefix can both be computed.

**`Lifecycle`** follows `main` from loading the configuration to its return and
composes it with `HealthChecker` for one pool. `http.Server` is external, by its
documented contract: `Shutdown` returns when no handler is left on a connection
of the server, or when its context expires; `Close` waits for nobody; a hijacked
connection (a protocol upgrade) is not the server's any more. The branch of
`main`'s `select` for `http.ErrServerClosed` is left out: before a signal nobody
closes the server.

**`Pipeline`** takes each request through `newGatewayHandler` and the chain of
its route. A handler that touches only its own request is an operator from
exchange to exchange, so `gatewayPath` and `routeMiddleware` show the order of
composition as the code does; the handlers that touch a limiter or a cache are
actions. Every response writer in the stack keeps the first final status it is
given and passes an interim one on, and `Complete` runs the deferred functions from the inside out: recorder,
logger, `Recovery`. The limiter is a bucket that refills at any time, the cache a
set of responses that may vanish at any time, and the pool refuses or gives a
backend, which is what `ClientLimiter`, `Cache` and `GatewayPool` show of
themselves here. A header field is the sequence of its values: the gateway sets
one, `ReverseProxy` adds the upstream's after those that are there
(`copyHeader`), so that a field both have set appears twice. When the upstream
sends an interim response (`UpstreamInforms`, any number of times before the
answer), `ReverseProxy` sends it with the fields collected so far and then clears
the writer's header. The server panics over a status below 100, which
`UpstreamAnswers` therefore treats apart. The operational endpoints stand before this path and are the
subject of `Readiness`.

**`Readiness`** reads one breaker or one backend per step, in any order of the
pools, while breakers move and verdicts are stored. `closed`, `tripped`,
`steady` and `seen` are history: what was true at some moment, or all the time,
since the probe began.

Definitions whose comment starts with "Mutant" are faulty variants of the
definition after them. They are not part of any specification; substituting one
for its original makes TLC report the property named in `PROJECT.json`.

## Runs

| Run | Instance | Shows |
| --- | --- | --- |
| `breaker` | 3 permits, threshold 2, timeout 2, batch 2 | slot accounting, armed threshold, `Breaker` implements `CircuitBreaker` |
| `balancer` | 3 requests, 3 backends, either strategy | exact counters, even rotation, choice by fewest connections, `Balancer` implements `BackendPool` |
| `balancer_refusal` | 1 request, 2 backends | counterexample: refused although never all down |
| `gateway_pool` | 3 requests, 1 backend, batch 2, fair | permits and backends never leak, probe budget, half-open ends, a healed pool recovers |
| `gateway_pool_success` | 2 requests, 1 backend | counterexample: success recorded, body broken |
| `limiter` | 2 clients, 2 handlers, lag 0 or 1 | without lag `ClientLimiter` implements `TokenBuckets`; with lag the grants of every window are bounded |
| `cache` | 4 keys, 3 entries, TTL 2 | map and list agree, LRU, expired first |
| `cached_route` | 1 key, 2 handlers, TTL 2, bodies of 2 chunks, limit 1 | only whole and shareable responses stored, bounded age of hits |
| `cached_route_trailers` | same, shorter | counterexample: a response with unannounced trailers is stored |
| `lifecycle` | 2909 configurations, 2 backends, 1 request, fair | accepted configurations can be built and run, routing by specificity, current verdicts, convergence, draining keeps backends, nothing is left behind, a signal ends the process |
| `pipeline` | 2 requests of 18 shapes, 5 upstream answers, 3 gateways, 2 routes | log and metrics agree with the client, one request ID and how often it is sent, own CORS grants only, policy before cache, truthful `X-Cache`, and what an interim response takes away of these |
| `readiness` | 2 pools of 2 backends | no false alarm, no false ready, one state per pool and scrape |

Three runs end in a counterexample on purpose: each states a sentence of the
code's comments or docs that the code does not keep. See "findings" in
`PROJECT.json`.

### Bounds

- `breaker`: a batch of two with three permits lets one probe be out, one have
  passed and one come late from an older generation. Six generations allow two
  complete closed-open-half-open cycles. Time 5 lets the timeout of 2 expire
  twice. The proofs below do not depend on these values, nor those of the other
  runs on theirs.
- Balancer: three backends are the fewest for which the walk can pass one,
  select one and still have one ahead. With three requests two can release
  during the third's walk. Walks themselves are serialised by `selectionMu`.
- `GatewayPool`: three requests exceed the batch of two. One backend is enough
  for both answers of the balancer; nothing in the handler depends on which
  backend it got. There are no other bounds; the state space is finite.
- Limiter: an empty bucket takes 4 ticks to fill and an entry is kept as long, so
  time 7 covers a full refill, an eviction and a grant from the new bucket, with
  a handler held up by one tick before, between or after them.
- Cache: one key more than the capacity of 3, and time for two lifetimes.
- `CachedRoute`: two handlers are the fewest that overlap, and a body of two
  chunks exceeds the limit of one. `MaxFlight` bounds how long a handler is under
  way. That is an assumption about the environment: `serveRoute`'s deadline ends
  the upstream side, but the server has no write timeout, so a client that reads
  slowly can delay the return and with it the store. `BoundedAge` is relative to
  this bound. The key is passed through unchanged, so one key suffices; several
  keys competing for room are the subject of the `cache` run.
- `Lifecycle`: one request is enough, since `Shutdown` only asks whether a
  handler is left. Two backends make a round with a fast and a slow probe. The
  configurations come in five families, each of which varies one section over
  its boundary values (below, at and above zero; every class of text; sections
  left out) and keeps the others plain: `Validate` relates sections only where a
  route names a pool, a route is protected, and a route's limit replaces the
  global one, and those are varied together. Route tables have up to three
  routes over eight prefixes, with no, one and several slashes at the end, and
  are asked about every path of up to three segments.
- `Pipeline`: one request fills the cache or empties the bucket and another meets
  the result; a third would meet nothing new. The shapes take each condition of
  each handler both ways, and the answers include an upstream that sends the
  gateway's own header fields and one with a status below 100. Interim responses
  carry the header of any answer and are not bounded: a second one changes
  nothing.
- `Readiness`: two pools for the order of the scan, two backends for a flip on
  each side of it. One reader at a time is enough, since readers change nothing.

Symmetry is used for safety only, over request goroutines and request
identities (and over keys and responses of the cache), which no definition tells
apart. Deadlock checking is off where the system really may stop: `lifecycle`
ends with the process, and in `pipeline` each request identity is used once.

### Fairness

- Handlers (`WF` of `Handle(r)`): `serveRoute` gives every request a deadline,
  which ends its round trip, its reading of the upstream body and an upgraded
  connection. That the client reads its response or disconnects is assumed: the
  server sets no write timeout. The permit is settled before the body, so the
  assumption only lets the finitely many request identities be used again.
- `WF` of `Tick`: time passes.
- `WF` of "some request is admitted": clients keep sending. The breaker becomes
  half-open only inside `Acquire`, so recovery can be claimed only under traffic.
- Health checker, within `Lifecycle`: each probe has a timeout, the ticker
  fires, the loop's goroutine is scheduled. `SF` of `Return` is Go's `select` choosing among ready
  cases at random: it does not pass over `ctx.Done` for ever.
- Lifecycle: `main` is scheduled and the 20 seconds of `Shutdown` pass. Handlers
  may hang for ever.
- Both liveness properties of `GatewayPool` assume that some backend stays
  healthy from some time on: otherwise every probe is cancelled.

## Proofs

TLC checks small instances; the eight `*_proofs` modules prove with TLAPS, for
every value of the constants, every safety invariant, action property and
refinement that a passing run checks. Each follows one pattern: an inductive
invariant (named below) is shown of `Init` and, one action at a time, of every
step; the properties follow from it. The bounds of the runs do not enter, except
where a module has a named bound on time, and then the theorem holds for every
value of it.

| Module | Theorems | Assumes |
| --- | --- | --- |
| `Breaker_proofs` | `TypeCorrect`, `SlotsAlwaysAccounted`, `ThresholdAlwaysArmed`, `BreakerImplementsCircuitBreaker` | `BreakerAssumption` |
| `Balancer_proofs` | `TypeCorrect`, `ConnectionsAlwaysCounted`, `FewestConnectionsChosen`, `RotationAlwaysEven`, `BalancerImplementsBackendPool` | `BalancerAssumption` |
| `GatewayPool_proofs` | `TypeCorrect`, `PermitsAlwaysSettled`, `BackendsAlwaysReturned`, `ProbesAlwaysWithinBudget` | `GatewayPoolAssumption` |
| `ClientLimiter_proofs` | `TypeCorrect`, `RateAlwaysBounded`, `LimiterImplementsTokenBuckets` | `LimiterAssumption` |
| `CachedRoute_proofs` | of the cache: `CacheTypeCorrect`, `RecentlyUsedAlwaysKept`, `ExpiredAlwaysGoFirst`; of the middleware: `TypeCorrect`, `RouteUsesCache`, `AlwaysStoredShareable`, `AgeAlwaysBounded` | `CacheAssumption`; of the middleware also `CachedRouteAssumption` |
| `Lifecycle_proofs` | `AcceptedAlwaysSound`, `ValidIsWellBuilt`, `TypeCorrect`, `VerdictsAlwaysCurrent`, `DrainAlwaysKeepsBackends`, `NothingIsLeftBehind`, `MostSpecificRouteChosen` | `ConfigsWellTyped`, `NoneIsNothing`, `PrefixesArePaths` |
| `Readiness_proofs` | `TypeCorrect`, `NeverAFalseAlarm`, `NeverFalselyReady`, `AlwaysOneHot` | `ReadinessAssumption` |
| `Pipeline_proofs` | `ExchangesAlwaysInOrder`, `TypeCorrect`, `StatusAlwaysAgrees`, `AlwaysCorrelated`, `GrantsAlwaysOwn`, `PolicyAlwaysFirst`, `CacheStatusAlwaysTrue` | `GatewaysWellTyped`, `MessagesWellTyped` |

The assumptions are what the code guarantees of its settings and inputs: numbers
that the constructors have checked or replaced by a default, finitely many
requests, the types that decoding gives a configuration, an address for every
client and a status of three digits in every answer. `PrefixesArePaths` says
that the paths the routing property speaks of include every prefix that
`Validate` accepts; only `MostSpecificRouteChosen` uses it. `ValidIsWellBuilt` proves
`GatewaysWellTyped` of every gateway built from a valid configuration. TLC
evaluates all of them on the instances of the runs.

**Breaker.** `SlotsAccounted` is not inductive. `IInv` adds three facts: no
permit is of a later generation than the breaker, so that a transition voids
every permit at once (`TransitionVoids`); `halfOpenSuccesses` is zero outside
half-open, so that a new batch starts from nothing; and `openedAt` is not in the
future, which the mapping of the timeout needs. Cardinalities change by one at a
time through `IssueAdds` and `OnceDoRemoves`. The refinement (`StepSimulation`)
follows with `TransitionEnters`, which turns `transitionLocked` into `Enter`.

**Balancer.** `IInv` puts `Walk` beside types and counters: from the comparison
to the release `selected` is a backend, and a request about to compare-and-swap
has loaded a positive value. A request in `Release` is itself one of the
holders, so the counter it loads is positive (`HeldIsCounted`). The step of each
action is proved from two facts about counting, `Held` and `Recounted`; a second
part of the module proves these two from the theorems on finite sets, so that
the long case analysis does without them. For the choice,
`WInv` adds what the walk knows half-way: one request selects at a time
(`Mutex`); the backends healthy throughout are healthy now, those healthy now
have been seen, and none that the walk passed without choosing was healthy
throughout (`Search`); while a request holds the mutex counters only fall, so
the chosen backend is no busier than any it passed was at the start (`Fewest`);
and whoever is owed a turn before `c` lies between `next` and `c` in the order
of rotation, and ahead of the walk (`Turns`, with `Dist` for the distance modulo
the number of backends). The refinement is a consequence of `Search`.

**GatewayPool.** `ProbeBudget` counts a probe when its round trip begins, too
late to be inductive: `Bounded` counts a permit from its admission.
`PermitsSettled` and `BackendsReturned` are inductive with the types, one path
of the handler after the other.

**ClientLimiter.** The bound on a window needs an account of what a client may
still be granted. `Potential` keeps one per client: what was granted in the
window and what is left in the bucket is paid for by the burst, the flow since
`lag` before the window, and the flow of one `lag` for each time the bucket was
forgotten. `Buckets` and `Stamps` bound the times that `Allow` may apply late.
Without lag, `Level` is the eager bucket that a lazy one stands for; an evicted
one stands for a full one, because the time to live is at least a full refill.

**Cache and CachedRoute.** The theorems about `Cache` are about every behaviour
of a cache (`CacheSpec => ...`), whoever uses it and for whatever responses;
`RouteUsesCache` (`Spec => CacheSpec`) carries them to the route. `CInv`:
whatever is ahead of a key in the list was used since it (`Ahead`), so when the
last of a full list gives way, as many other keys as the list holds have been
used since. `MInv`: a call that is still recording has a shareable answer and
has captured all that was sent (`Recording`), and an entry is whole, shareable
and expires within a lifetime and a flight of its request (`Fresh`).

**Lifecycle.** `ValidConstructs`, `ValidIsSound` and `ValidIsWellBuilt` relate
the three places that know the rules (`Validate`, the constructors, the
defaults), with `RouteLimitValid` for the limit a route inherits; `IInv` adds
that what `main` has loaded is valid. `LInv` is about the rest: no probe is under
way between rounds (`Flights`), each verdict on its way or stored in this round
was true at a moment of it (`Verdicts`), only a backend that was down is marked
so before cancellation (`Downs`), and the health checks are cancelled after
draining and have stopped before `main` returns (`Stages`). For routing, prefixes
that match the same path agree segment by segment, so the longer one in bytes
covers less, unless slashes at its end make up its length: `OneSlash` is where
the condition of `MostSpecificRoute` on the chosen prefix enters. That a path has
a last segment, and that a longest match exists, is shown by taking the least index
with the property (`LeastNatural`), which stands in for an induction.

**Readiness.** `Probe` says what a scan knows half-way: every pool it has passed
is listed or was found available, breaker and backend each at some moment, and
the backends of the current pool that it has passed were not healthy
throughout. `Series` says that a scrape sends what it read, whatever the
breakers do meanwhile.

**Pipeline.** `PInv` sorts the exchanges. One is `Handling` while the handlers of
its route are entered, `Answered` once a status or a panic is on its way out, and
`Completed` when the deferred functions have run; each operator of `Pipeline`
has a lemma that takes an exchange from one to the same or the next. `Stage` ties
the handlers still to come to the checks already passed, which is where the
order of `routeMiddleware` enters (`ChainOrder`). `OneMeta` says that logger,
recorder and handlers see the same metadata. Exchanges meet in the limiter and
the cache only: `Stored` says that a cached response holds no grant but those
any request may have, which needs that a grant made for one origin brings a
`Vary` that bars storing (`GrantOK`). After an interim response both are gone, so
`HeaderOK` says of each field what it holds with and without one: `Fresh` and
`Stamped` for the identifier before and after the upstream's fields are added,
`GrantOK` and `CacheStatus` for the other two. Interim responses come only at the
proxy, the last handler of the chain, so no later handler sees a cleared header
(`Handling`).

Only model-checked: the liveness properties `HalfOpenResolves`, `Recovery`,
`HealthConverges` and `ShutdownEnds`, since liveness under fairness and `ENABLED`
are out of the prover's reach; and the three counterexamples, which are
behaviours and not theorems. The types of `Breaker` and `Balancer` are proved
and not checked again by the runs.

## Abstractions

- Times are integers; the monotonic clock never runs backwards.
- Float64 rounding of tokens and the saturation of `bucketRefillDuration` at the
  largest duration are left out; the hash is an arbitrary function of the client.
- Generations and connection counters are unbounded integers; 64 bits are not
  exhausted.
- Responses, keys and clients are opaque values; a body is a number of chunks.
- A proxied handler that returns without a header does not occur: `ReverseProxy`
  writes one or its `ErrorHandler` does. `CachedRoute` leaves interim responses
  out: `cacheResponseWriter` passes them on, and the header that is final may be
  any; what they do to it is the subject of `Pipeline`.
- In `Pipeline`, 103 stands for every interim status, and 1 to 99 for the codes
  below 100.
- Of a request and its response, `Pipeline` keeps what some handler decides on or
  some property speaks of. The other CORS response fields, `WWW-Authenticate`,
  `Retry-After` and `X-Gateway` are set once and read by nobody. A bypassed
  cache, a hit and a miss differ as in the code; scheme, host and query of the
  cache key are fixed.
- A handler's panic other than an abort comes before its first write: no handler
  of the gateway runs code of its own between writing a header and returning.
- Counts of requests are what `observe` adds; the Prometheus library's registry,
  histograms and exposition format are external.

## Observations

What the models show of the code beyond the properties and the findings:

- An upgraded connection is logged and counted with status 200, although the
  client got 101: `ReverseProxy` writes the answer to the hijacked connection,
  past the writers. `StatusAgrees` leaves this case out.
- `http.Transport` accepts a status below 100. Logger and recorder keep it, then
  the server panics over it: the log and the metrics show it, the client gets the
  500 of `Recovery`. `StatusAgrees` states this.
- A proxied response carries `X-Request-ID` twice, with the same value: the logger
  and `ServeHTTP` set it on the writer, `ModifyResponse` on the upstream's response,
  and `ReverseProxy` adds the second to the first (`Correlated`).
- An interim 1xx response of the upstream (100 Continue, 103 Early Hints) makes
  `ReverseProxy` clear the writer's header, with all that the middleware had put
  there. The final response then lacks the CORS grant and its `Vary`, although
  docs/architecture.md:68-70 says that CORS "also places CORS headers on
  downstream success and error responses", and it lacks `X-Cache: MISS`, although
  docs/architecture.md:147 promises it for eligible lookups that reach the proxy.
  `X-Request-ID` is there once, from `ModifyResponse` or `ErrorHandler`, or not at
  all if a handler panics. Without the `Vary` such a response may be stored; it
  holds no grant of the gateway's, so a replay keeps the grant of its own request.
  `GrantsAreOwn`, `CacheStatusTrue` and `Correlated` state exactly this.
- If an upstream sends `Access-Control-Allow-Origin` itself, a miss carries two
  values, the gateway's and the upstream's. The response is stored when the
  gateway added no `Vary`, that is, when it allows every origin or the request
  named none, and on a hit the stored values replace the gateway's. `GrantsAreOwn`
  therefore lets the upstream's own grant stand beside or in place of it.
- The readiness scan is no snapshot. As with the refusal of the balancer, health
  that flips on both sides of it can make a pool look unavailable although it had
  a healthy backend at every moment; `NoFalseAlarm` says what does hold.
- Readiness requires a closed breaker, and only traffic closes one. `Recovery` is
  therefore claimed under traffic that does not wait for readiness.
- `Validate` accepts prefixes that end in several slashes. The slashes count in
  the length by which `matchRoute` compares, but `prefixMatches` trims them:
  "/a///" matches all that "/a/" does and is chosen before the more specific
  "/a/b". `MostSpecificRoute` therefore speaks of the routes chosen with at most
  one slash at the end, whatever the other prefixes of the table are.
- `/metrics`, `/healthz` and `/readyz` are served before routing, so a route with
  one of these prefixes never sees that very path. The global rate limit is a
  default for routes, each with buckets of its own, and not a common budget.
- `main` gives `http.Server.IdleTimeout` the configured value as it is, so the
  default that `NewTransport` fills in for a zero does not apply to clients.

## Not modelled

- Pure text: YAML decoding, expansion of placeholders, `joinPath` and
  `rewriteRequestURL`, `clientKeyFromRemoteAddr`, `retryAfterValue`, the cache-key
  string, the parsing of header directives. Each is a function of one string
  that unit tests reach, and no interleaving matters to it.
- `NewTransport` and the connection pool of `net/http`: settings of a library.
- The buffer pool is a wrapper around `sync.Pool`; the mock backend is a
  demonstration server.

## Open

- `GatewayPool` and `Pipeline` use the promises of the parts below them
  (`CircuitBreaker`, `BackendPool`; a bucket, a cache, a pool) in place of the
  parts. Where a promise has a module of its own the refinement is proved;
  that `ClientLimiter`, `Cache` and `GatewayPool` behave as `Pipeline` sees them
  is argued above, not proved.
- Liveness is known only for the instances of the runs.
