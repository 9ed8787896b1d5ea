---------------------------- MODULE CachedRoute ----------------------------
(***************************************************************************)
(* The response-caching middleware of one route, internal/proxy/cache.go,  *)
(* over the store that Cache models and whose actions it takes.            *)
(*                                                                         *)
(* Looking up, passing the response on and storing the captured copy are   *)
(* separate steps, so that concurrent misses of a key overlap in every     *)
(* way.  The inner handler (serveRoute and httputil.ReverseProxy) is       *)
(* external: it writes one final header, then body chunks, and returns;    *)
(* or it panics with http.ErrAbortHandler when the body copy fails.        *)
(* Bodies are counted in chunks.                                           *)
(***************************************************************************)
EXTENDS Cache

CONSTANTS Handlers,
          MaxBytes,         \* maxCacheableResponseBytes, in chunks
          MaxBody,          \* bound: chunks an upstream body can have
          MaxFlight         \* bound: ticks a handler can be under way

VARIABLE call               \* what each handler goroutine is doing

vars == <<cacheVars, call>>

\* A stored response, by what the properties ask of it: when it was requested
\* upstream, its captured length, whether that is all the upstream sent,
\* whether it may be shared, and whether trailers followed the body.
Response == [requestedAt : 0 .. MaxTime, length : 0 .. MaxBytes,
             whole : BOOLEAN, shareable : BOOLEAN, trailers : BOOLEAN]

\* These records are what the store is used for.
ASSUME CachedRouteAssumption ==
  /\ Responses = Response
  /\ MaxBytes \in Nat /\ MaxBody \in Nat /\ MaxFlight \in Nat

\* A request is personal if it has any of the marks that isCacheableRequest
\* looks for (credentials, conditions, a range, a body, another method ...).
Request == [key : Keys, personal : BOOLEAN]

Idle == [at |-> "idle"]

Call == [at : {"upstream", "body", "returned"}, request : Request,
         requestedAt : 0 .. MaxTime, length : 0 .. MaxBytes,
         recording : BOOLEAN, writeFailed : BOOLEAN,
         sent : 0 .. MaxBody, ended : BOOLEAN,      \* history: the upstream's
         shareable : BOOLEAN, trailers : BOOLEAN]   \*   side of the response

TypeOK ==
  /\ CacheTypeOK
  /\ call \in [Handlers -> Call \union {Idle}]

Init ==
  /\ CacheInit
  /\ call = [h \in Handlers |-> Idle]

-----------------------------------------------------------------------------
isCacheableRequest(request) == ~request.personal

\* The request goes past the cache, in both directions.
Bypass(h, request) ==
  /\ call[h] = Idle
  /\ ~isCacheableRequest(request)
  /\ UNCHANGED vars

Hit(h, request) ==
  /\ call[h] = Idle
  /\ isCacheableRequest(request)
  /\ GetHit(request.key)
  /\ UNCHANGED call

\* A new cacheResponseWriter is put before the inner handler.
Miss(h, request) ==
  /\ call[h] = Idle
  /\ isCacheableRequest(request)
  /\ GetMiss(request.key) \/ GetExpired(request.key)
  /\ call' = [call EXCEPT ![h] =
       [at |-> "upstream", request |-> request, requestedAt |-> clock,
        recording |-> FALSE, writeFailed |-> FALSE, length |-> 0,
        sent |-> 0, ended |-> FALSE, shareable |-> FALSE, trailers |-> FALSE]]

-----------------------------------------------------------------------------
responseHeadersPreventCaching(header) == header = "barred"

\* WriteHeader decides whether the body will be recorded.  It passes an interim
\* 1xx status on and keeps nothing of it; what that does to the header is in
\* Pipeline, here the header is any.
WriteHeader(h, status, header) ==
  /\ call[h].at = "upstream"
  /\ call' = [call EXCEPT ![h] = [@ EXCEPT
       !.at = "body",
       !.recording = status = 200 /\ ~responseHeadersPreventCaching(header),
       !.shareable = status = 200 /\ header = "plain"
                     /\ ~call[h].request.personal]]
  /\ UNCHANGED cacheVars

\* Mutant: the limit on the recorded body is forgotten.
WriteUnlimited(h, written) ==
  /\ call[h].at = "body"
  /\ ~call[h].writeFailed
  /\ call[h].sent < MaxBody
  /\ call' = [call EXCEPT ![h].sent = @ + 1,
       ![h].writeFailed = written = 0,
       ![h].length = IF call[h].recording THEN @ + written ELSE @]
  /\ UNCHANGED cacheVars

\* Mutant: a body that grows too long is cut off instead of given up.
WriteTruncates(h, written) ==
  /\ call[h].at = "body"
  /\ ~call[h].writeFailed
  /\ call[h].sent < MaxBody
  /\ call' = [call EXCEPT ![h].sent = @ + 1,
       ![h].writeFailed = written = 0,
       ![h].length = IF call[h].recording /\ @ + written <= MaxBytes
                     THEN @ + written ELSE @]
  /\ UNCHANGED cacheVars

\* Write passes a chunk on (none of it if the client is gone) and records what
\* was written, unless that exceeds the limit.
Write(h, written) ==
  /\ call[h].at = "body"
  /\ ~call[h].writeFailed
  /\ call[h].sent < MaxBody
  /\ LET fits == call[h].length + written <= MaxBytes
     IN  call' = [call EXCEPT ![h].sent = @ + 1,
           ![h].writeFailed = written = 0,
           ![h].recording = @ /\ fits,
           ![h].length = IF ~call[h].recording THEN @
                         ELSE IF fits THEN @ + written ELSE 0]
  /\ UNCHANGED cacheVars

\* The inner handler returns.  A proxied copy whose write failed panics
\* instead; only gateway errors, which are not recorded, return regardless.
\* Trailers that the upstream did not announce show up only now.
Returns(h, trailers) ==
  /\ call[h].at = "body"
  /\ call[h].writeFailed => ~call[h].recording
  /\ call' = [call EXCEPT ![h].at = "returned", ![h].ended = TRUE,
                          ![h].trailers = trailers]
  /\ UNCHANGED cacheVars

\* The body breaks off on either side: the panic skips everything that follows.
Aborts(h) ==
  /\ call[h].at = "body"
  /\ call' = [call EXCEPT ![h] = Idle]
  /\ UNCHANGED cacheVars

\* response() and, if there is one, Set under the key of the lookup.
Store(h) ==
  /\ call[h].at = "returned"
  /\ IF call[h].recording /\ ~call[h].writeFailed
     THEN Set(call[h].request.key,
                [requestedAt |-> call[h].requestedAt,
                 length |-> call[h].length,
                 whole |-> call[h].ended /\ call[h].length = call[h].sent,
                 shareable |-> call[h].shareable,
                 trailers |-> call[h].trailers])
     ELSE UNCHANGED cacheVars
  /\ call' = [call EXCEPT ![h] = Idle]

Tick ==
  /\ \A h \in Handlers : call[h] # Idle => clock - call[h].requestedAt < MaxFlight
  /\ CacheTick
  /\ UNCHANGED call

Next ==
  \/ \E h \in Handlers :
       \/ \E request \in Request :
            Bypass(h, request) \/ Hit(h, request) \/ Miss(h, request)
       \/ \E status \in {200, 502}, header \in {"plain", "barred"} :
            WriteHeader(h, status, header)
       \/ \E written \in {0, 1} : Write(h, written)
       \/ \E trailers \in BOOLEAN : Returns(h, trailers)
       \/ Aborts(h)
       \/ Store(h)
  \/ Tick

Spec == Init /\ [][Next]_vars

-----------------------------------------------------------------------------
\* Every response in the store is the complete body of a 200 answer, without a
\* header that forbids sharing, to a request that was not personal: aborted,
\* failed, oversized and personal exchanges leave nothing behind, in whatever
\* order concurrent misses end.
StoredShareable ==
  \A k \in DOMAIN entries :
    entries[k].response.whole /\ entries[k].response.shareable

\* What a hit can return was requested from the upstream less than TTL plus the
\* duration of one request ago, even when a slow miss overwrites the response
\* of a faster and newer one.
BoundedAge ==
  \A k \in DOMAIN entries :
    Live(k) => clock - entries[k].response.requestedAt < TTL + MaxFlight

\* docs/architecture.md: Gatex "does not store responses with [...] trailers".
TrailersNotStored ==
  \A k \in DOMAIN entries : ~entries[k].response.trailers
=============================================================================
