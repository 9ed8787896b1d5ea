-------------------------- MODULE Pipeline_proofs --------------------------
(***************************************************************************)
(* The middleware, for any number of requests of any shape, any upstream   *)
(* answers and any gateways that NewGateway builds.                        *)
(*                                                                         *)
(* An exchange is Handling while its route's handlers are being entered,   *)
(* Answered once a status or a panic is on its way out, and Completed when *)
(* the deferred functions have run.  Each operator of Pipeline takes an    *)
(* exchange from one to the same or the next.  The exchanges meet only in  *)
(* the cache: Stored says which grants may wait there for another request. *)
(***************************************************************************)
EXTENDS Pipeline, TLAPS

Fields ==
  {"request", "idHeader", "newID", "route", "todo", "at", "meta", "ctx", "logCtx",
   "metricCtx", "header", "writers", "wrote", "sent", "captured", "panic", "body",
   "log", "metric", "informed", "charged", "forwarded", "backend"}

HeaderFields == {"id", "grant", "bars", "cacheStatus"}
Writers == {"cache", "metrics", "log", "client"}

\* The grant the gateway makes to the request, and those it may make to any.
Own(g, x) == IF "*" \in g.cors.allowedOrigins THEN "*" ELSE x.request.origin
Shared(g) == {"upstream"} \union (IF "*" \in g.cors.allowedOrigins THEN {"*"} ELSE {})

Entitled(g, x) ==
  /\ x.request.origin # Empty
  /\ originAllowed(g.cors, x.request.origin)
  /\ ~isPreflight(x.request)

Authorised(g, x) == x.request.apiKey \in Range(g.apiKeys)

\* One metadata instance, which logger, recorder and handlers all see.
OneMeta(x) ==
  /\ x.ctx = 1 /\ x.logCtx = 1 /\ x.metricCtx = 1
  /\ x.meta = <<x.meta[1]>> /\ DOMAIN x.meta[1] = {"id", "route", "backend"}
  /\ x.meta[1].id = x.idHeader /\ x.meta[1].route = x.route
  /\ x.meta[1].backend = x.backend

\* X-Request-ID before the upstream's answer is added, and after.
Fresh(x) == x.header.id = IF x.informed THEN <<>> ELSE <<x.idHeader>>
Stamped(x) ==
  x.header.id = IF x.informed THEN <<x.idHeader>> ELSE <<x.idHeader, x.idHeader>>

\* The identifier is the request's, and is missing only after an interim response.
Identified(x) ==
  /\ x.header.id \in {<<>>, <<x.idHeader>>, <<x.idHeader, x.idHeader>>}
  /\ x.header.id = <<>> => x.informed
  /\ x.body = "upstream" => Stamped(x)

\* Who may read the response.
GrantOK(g, x) ==
  /\ x.header.grant \in Seq({Own(g, x), "upstream"})
  /\ Entitled(g, x) =>
       IF x.body = "cache" THEN Range(x.header.grant) # {}
       ELSE Own(g, x) \in Range(x.header.grant) <=> ~x.informed
  /\ ~x.header.bars => x.header.grant \in Seq(Shared(g))

CacheStatus(x) ==
  IF x.body = "cache" THEN <<"HIT">>
  ELSE IF "cache" \in x.writers /\ ~x.informed THEN <<"MISS">> ELSE <<>>

HeaderOK(g, x) ==
  /\ DOMAIN x.header = HeaderFields
  /\ Identified(x)
  /\ GrantOK(g, x)
  /\ x.header.cacheStatus = CacheStatus(x)

Passed(g, x) ==
  /\ g.routes[x.route].protected => Authorised(g, x)
  /\ g.routes[x.route].burst > 0 => x.charged

Policy(g, x) ==
  x.route # 0 =>
    /\ x.body \in {"upstream", "cache"} => Passed(g, x)
    /\ x.charged /\ g.routes[x.route].protected => Authorised(g, x)

Common(g, x) ==
  /\ DOMAIN x = Fields
  /\ DOMAIN x.wrote = Writers
  /\ OneMeta(x)
  /\ HeaderOK(g, x)
  /\ Policy(g, x)
  /\ x.request \in Shapes
  /\ x.informed \in BOOLEAN /\ (x.informed => x.backend)
  /\ x.route \in {0} \union DOMAIN g.routes
  /\ x.forwarded \subseteq {x.idHeader}
  /\ {"log", "metrics"} \subseteq x.writers
  /\ "client" \notin x.writers
  /\ "cache" \in x.writers => x.route # 0 /\ g.routes[x.route].cached
  /\ x.log = <<>> /\ x.metric = <<>>

\* The handlers of a route from the limiter on, and from the cache on.
AfterAuth(route) ==
  (IF route.burst > 0 THEN <<"limit">> ELSE <<>>)
  \o (IF route.cached THEN <<"cache">> ELSE <<>>) \o <<"proxy">>
AfterLimit(route) == (IF route.cached THEN <<"cache">> ELSE <<>>) \o <<"proxy">>

\* How far down its route's handlers an exchange is, and what that implies.
Stage(g, x) ==
  LET route == g.routes[x.route]
  IN  \/ x.todo = routeMiddleware(route) /\ ~x.charged
      \/ /\ x.todo = AfterAuth(route) /\ ~x.charged
         /\ route.protected => Authorised(g, x)
      \/ x.todo = AfterLimit(route) /\ Passed(g, x)
      \/ x.todo = <<"proxy">> /\ Passed(g, x)

Unwritten(x) ==
  /\ x.wrote = [w \in Writers |-> 0]
  /\ x.body = None

Handling(g, x) ==
  /\ Common(g, x)
  /\ x.at = "handler"
  /\ x.route # 0
  /\ x.panic = "none"
  /\ Unwritten(x)
  /\ Stage(g, x)
  /\ Fresh(x)
  /\ x.informed => Head(x.todo) = "proxy"

\* A status that ends an exchange through all writers.
Final(status) == status \in Nat /\ 200 <= status

Answered(g, x) ==
  /\ Common(g, x)
  /\ x.at \in {"store", "unwind"}
  /\ x.wrote["log"] = x.wrote["metrics"]
  /\ \/ /\ x.panic \in {"none", "abort"}
        /\ x.sent = x.header /\ x.header.id # <<>>
        /\ \/ x.wrote["log"] = x.wrote["client"] /\ Final(x.wrote["log"])
           \/ x.wrote["client"] = 101 /\ x.wrote["log"] = 0
     \/ /\ x.panic = "other" /\ x.at = "unwind" /\ x.body = None
        /\ x.wrote["client"] = 0 /\ x.wrote["log"] \in 0 .. 99
  /\ x.at = "store" => /\ "cache" \in x.writers
                       /\ x.captured = x.header

\* What the properties say of one finished exchange.
Completed(g, x) ==
  /\ x.at = "done"
  /\ Len(x.meta) = 1 /\ x.ctx = 1
  /\ Len(x.log) = 1 /\ Len(x.metric) = 1
  /\ x.metric[1].status = x.log[1].status
  /\ x.wrote["client"] # 101 =>
       x.wrote["client"] = IF x.log[1].status < 100 THEN 500 ELSE x.log[1].status
  /\ x.sent.id \in {<<>>, <<x.log[1].id>>, <<x.log[1].id, x.log[1].id>>}
  /\ x.sent.id = <<>> => x.informed /\ x.body = "gateway"
  /\ x.body = "upstream" =>
       x.sent.id = IF x.informed THEN <<x.log[1].id>> ELSE <<x.log[1].id, x.log[1].id>>
  /\ x.forwarded \subseteq {x.log[1].id}
  /\ x.log[1].backend = x.backend
  /\ x.metric[1].route = x.route
  /\ Range(x.sent.grant) \subseteq {Own(g, x), "upstream"}
  /\ Entitled(g, x) =>
       IF x.body = "cache" THEN Range(x.sent.grant) # {}
       ELSE Own(g, x) \in Range(x.sent.grant) <=> ~x.informed
  /\ Policy(g, x)
  /\ x.sent.cacheStatus = CacheStatus(x)

XInv(g, x) == x = Idle \/ Handling(g, x) \/ Answered(g, x) \/ Completed(g, x)

Stored == \A i \in DOMAIN cache : \A c \in cache[i] : c.header.grant \in Seq(Shared(gateway))

PInv ==
  /\ gateway \in Gateways
  /\ DOMAIN ex = Requests
  /\ \A r \in Requests : XInv(gateway, ex[r])
  /\ DOMAIN tokens = Buckets
  /\ \A b \in Buckets : tokens[b] \in 0 .. gateway.routes[b[1]].burst
  /\ DOMAIN cache = DOMAIN gateway.routes
  /\ \A i \in DOMAIN cache : ~gateway.routes[i].cached => cache[i] = {}
  /\ Stored

-----------------------------------------------------------------------------
(* Writing a response.                                                      *)

\* The fields that writing a header leaves alone.
SameCall(x, y) ==
  /\ DOMAIN y = DOMAIN x
  /\ y.request = x.request /\ y.idHeader = x.idHeader /\ y.route = x.route
  /\ y.todo = x.todo /\ y.meta = x.meta /\ y.ctx = x.ctx
  /\ y.logCtx = x.logCtx /\ y.metricCtx = x.metricCtx
  /\ y.writers = x.writers /\ y.log = x.log /\ y.metric = x.metric
  /\ y.informed = x.informed
  /\ y.charged = x.charged /\ y.forwarded = x.forwarded /\ y.backend = x.backend

\* The first final status goes through every writer of the stack.
LEMMA WriteHeaderEffect ==
  ASSUME NEW x, DOMAIN x = Fields, x.wrote = [w \in Writers |-> 0], NEW status, Final(status),
         {"log", "metrics"} \subseteq x.writers, "client" \notin x.writers
  PROVE  LET y == WriteHeader(x, status)
         IN  /\ SameCall(x, y)
             /\ y.header = x.header /\ y.panic = x.panic /\ y.body = x.body /\ y.at = x.at
             /\ DOMAIN y.wrote = Writers
             /\ y.wrote["client"] = status /\ y.wrote["log"] = status
             /\ y.wrote["metrics"] = status
             /\ y.sent = x.header
             /\ "cache" \in x.writers => y.captured = x.header
<1> DEFINE y == WriteHeader(x, status)
           written == x.writers \union {"client"}
           first(w) == ~isInterim(status) /\ w \in written /\ x.wrote[w] = 0
<1>0. ~isInterim(status)
  BY DEF Final, isInterim
<1>1. \A w \in Writers : x.wrote[w] = 0
  OBVIOUS
<1>2. DOMAIN x.wrote = Writers
  OBVIOUS
<1>3. y = [x EXCEPT !.wrote = [w \in Writers |-> IF first(w) THEN status ELSE x.wrote[w]],
                    !.sent = IF first("client") THEN x.header ELSE x.sent,
                    !.captured = IF first("cache") THEN x.header ELSE x.captured]
  BY <1>2 DEF WriteHeader, WriteThrough
<1>4. first("client") /\ first("log") /\ first("metrics")
  BY <1>0, <1>1 DEF Writers
<1>5. "cache" \in x.writers => first("cache")
  BY <1>0, <1>1 DEF Writers
<1> HIDE DEF first
<1>6. SameCall(x, y)
  BY <1>3 DEF SameCall, Fields
<1>7. y.header = x.header /\ y.panic = x.panic /\ y.body = x.body /\ y.at = x.at
  BY <1>3 DEF Fields
<1>8. y.wrote = [w \in Writers |-> IF first(w) THEN status ELSE x.wrote[w]]
  BY <1>3 DEF Fields
<1>9. y.sent = x.header /\ ("cache" \in x.writers => y.captured = x.header)
  BY <1>3, <1>4, <1>5 DEF Fields
<1>10. /\ DOMAIN y.wrote = Writers
       /\ y.wrote["client"] = status /\ y.wrote["log"] = status /\ y.wrote["metrics"] = status
  BY <1>4, <1>8 DEF Writers
<1> HIDE DEF y
<1> QED BY <1>6, <1>7, <1>9, <1>10 DEF y

\* y is x with a status, and with it the header, on its way to the client.
Written(x, y, status) ==
  /\ SameCall(x, y)
  /\ y.header = x.header
  /\ DOMAIN y.wrote = Writers
  /\ y.wrote["client"] = status /\ y.wrote["log"] = status
  /\ y.wrote["metrics"] = status
  /\ y.sent = x.header
  /\ "cache" \in x.writers => y.captured = x.header

Writable(x) ==
  /\ DOMAIN x = Fields
  /\ x.wrote = [w \in Writers |-> 0]
  /\ {"log", "metrics"} \subseteq x.writers
  /\ "client" \notin x.writers

\* A handler that answers by itself.
LEMMA AnswerEffect ==
  ASSUME NEW x, Writable(x), NEW status, Final(status)
  PROVE  /\ Written(x, Answer(x, status), status)
         /\ Answer(x, status).at = "unwind"
         /\ Answer(x, status).panic = x.panic /\ Answer(x, status).body = x.body
         /\ Written(x, Error(x, status), status)
         /\ Error(x, status).at = "unwind"
         /\ Error(x, status).panic = x.panic /\ Error(x, status).body = "gateway"
<1> DEFINE w == WriteHeader(x, status)
           a == Answer(x, status)
           e == Error(x, status)
<1>1. /\ Written(x, w, status)
      /\ w.panic = x.panic /\ w.body = x.body /\ w.at = x.at
  BY WriteHeaderEffect DEF Writable, Written
<1>2. DOMAIN w = Fields
  BY <1>1 DEF Written, SameCall, Writable
<1>3. a = [w EXCEPT !.at = "unwind"] /\ e = [a EXCEPT !.body = "gateway"]
  BY DEF Answer, Error
<1> HIDE DEF w, a, e
<1>4. /\ Written(x, a, status) /\ a.at = "unwind" /\ a.panic = x.panic /\ a.body = x.body
      /\ DOMAIN a = Fields
  BY <1>1, <1>2, <1>3 DEF Written, SameCall, Fields
<1>5. Written(x, e, status) /\ e.at = "unwind" /\ e.panic = x.panic /\ e.body = "gateway"
  BY <1>2, <1>3, <1>4 DEF Written, SameCall, Fields
<1> QED BY <1>4, <1>5 DEF a, e

\* Nobody's body but the upstream's or the cache's needs the policy.
Replied(g, x, y) ==
  \/ y.body = x.body
  \/ x.body # "cache" /\ y.body = "gateway"
  \/ x.body # "cache" /\ y.body = "upstream" /\ Passed(g, x) /\ Stamped(x)

\* A written response keeps what was true of the exchange.
LEMMA WrittenKeepsCommon ==
  ASSUME NEW g, NEW x, NEW y, Common(g, x), SameCall(x, y), y.header = x.header,
         DOMAIN y.wrote = Writers, Replied(g, x, y)
  PROVE  Common(g, y)
<1>1. /\ Own(g, y) = Own(g, x)
      /\ Entitled(g, y) <=> Entitled(g, x)
      /\ Authorised(g, y) <=> Authorised(g, x)
      /\ Passed(g, y) <=> Passed(g, x)
  BY DEF Own, Entitled, Authorised, Passed, SameCall
<1>2. HeaderOK(g, y)
  <2>1. HeaderOK(g, x) /\ y.informed = x.informed /\ y.idHeader = x.idHeader
        /\ y.writers = x.writers
    BY DEF Common, SameCall
  <2>2. Identified(y)
    BY <2>1 DEF HeaderOK, Identified, Stamped, Replied
  <2>3. GrantOK(g, y)
    BY <1>1, <2>1 DEF HeaderOK, GrantOK, Replied
  <2>4. CacheStatus(y) = CacheStatus(x)
    BY <2>1 DEF CacheStatus, Replied
  <2> QED BY <2>1, <2>2, <2>3, <2>4 DEF HeaderOK
<1>3. Policy(g, y)
  BY <1>1 DEF Common, Policy, SameCall, Replied
<1>4. OneMeta(y)
  BY DEF Common, OneMeta, SameCall
<1> QED BY <1>2, <1>3, <1>4 DEF Common, SameCall

\* A written response is an answer.
LEMMA WrittenIsAnswered ==
  ASSUME NEW g, NEW x, NEW y, NEW status, Common(g, x), Written(x, y, status),
         Final(status), Replied(g, x, y), x.header.id # <<>>,
         y.panic \in {"none", "abort"},
         \/ y.at = "unwind"
         \/ y.at = "store" /\ "cache" \in y.writers
  PROVE  Answered(g, y)
<1>1. Common(g, y)
  BY WrittenKeepsCommon DEF Written
<1>2. y.at = "store" => y.captured = y.header
  BY DEF Written, SameCall
<1> QED BY <1>1, <1>2 DEF Answered, Written, SameCall

\* What a handler has before it answers.
Ready(g, x) == Common(g, x) /\ Unwritten(x) /\ x.panic = "none"

\* Such a handler is the first to write, and no body has been sent.
LEMMA ReadyIsWritable ==
  ASSUME NEW g, NEW x, Ready(g, x)
  PROVE  Writable(x) /\ x.body \notin {"gateway", "cache", "upstream"}
BY MessagesWellTyped DEF Ready, Common, Unwritten, Writable

\* http.Error ends an exchange; so it does behind cacheResponses.
LEMMA ErrorAnswers ==
  ASSUME NEW g, NEW x, Ready(g, x), x.header.id # <<>>, NEW status, Final(status)
  PROVE  Answered(g, Error(x, status)) /\ Answered(g, Return(Error(x, status)))
<1> DEFINE e == Error(x, status)
           s == Return(e)
<1>1. /\ Written(x, e, status) /\ e.at = "unwind" /\ e.panic = "none"
      /\ e.body = "gateway"
  BY ReadyIsWritable, AnswerEffect DEF Ready
<1>2. Replied(g, x, e)
  BY <1>1, ReadyIsWritable DEF Replied
<1>3. Answered(g, e)
  BY <1>1, <1>2, WrittenIsAnswered DEF Ready
<1>4. DOMAIN e = Fields
  BY <1>1 DEF Written, SameCall, Ready, Common
<1>5. s = [e EXCEPT !.at = IF "cache" \in e.writers THEN "store" ELSE "unwind"]
  BY DEF Return
<1> HIDE DEF e, s
<1>6. /\ Written(x, s, status) /\ s.panic = "none" /\ s.body = "gateway"
      /\ s.at = (IF "cache" \in s.writers THEN "store" ELSE "unwind")
  BY <1>1, <1>4, <1>5 DEF Written, SameCall, Fields
<1>7. Replied(g, x, s)
  BY <1>6, ReadyIsWritable DEF Replied
<1>8. Answered(g, s)
  BY <1>6, <1>7, WrittenIsAnswered DEF Ready
<1> QED BY <1>3, <1>8 DEF e, s

-----------------------------------------------------------------------------
(* From the server to the route: newGatewayHandler.                         *)

\* An exchange that no route has been found for yet.
Unrouted(x, shape) ==
  /\ Writable(x)
  /\ OneMeta(x)
  /\ x.request = shape
  /\ x.route = 0 /\ x.at = "handler" /\ x.panic = "none" /\ x.body = None
  /\ DOMAIN x.header = HeaderFields
  /\ x.header.id = <<x.idHeader>> /\ x.header.cacheStatus = <<>>
  /\ "cache" \notin x.writers
  /\ x.log = <<>> /\ x.metric = <<>> /\ x.informed = FALSE
  /\ x.charged = FALSE /\ x.forwarded = {} /\ x.backend = FALSE

\* The logger makes the request's metadata, and the recorder finds it.
LEMMA LoggedEffect ==
  ASSUME NEW r, NEW shape
  PROVE  LET y == Instrument(RequestLogger(NewExchange(r, shape)))
         IN  Unrouted(y, shape) /\ y.header.grant = <<>> /\ ~y.header.bars
<1> DEFINE x == NewExchange(r, shape)
           id == incomingOrNewID(x)
           m == [id |-> id, route |-> 0, backend |-> FALSE]
           e == Ensure(x)
           l == RequestLogger(x)
           y == Instrument(l)
<1>1. /\ DOMAIN x = Fields
      /\ x.request = shape /\ x.route = 0 /\ x.at = "handler" /\ x.panic = "none"
      /\ x.body = None /\ x.header = NoHeader /\ x.writers = {} /\ x.ctx = 0
      /\ x.meta = <<>> /\ x.log = <<>> /\ x.metric = <<>> /\ x.charged = FALSE
      /\ x.forwarded = {} /\ x.backend = FALSE /\ x.informed = FALSE
      /\ x.wrote = [w \in Writers |-> 0]
  BY DEF NewExchange, Fields, Writers
<1> HIDE DEF x, id
<1>2. /\ e = [x EXCEPT !.meta = Append(x.meta, m), !.ctx = 1, !.idHeader = id]
      /\ Append(x.meta, m) = <<m>>
  BY <1>1 DEF Ensure, id
<1> HIDE DEF e, m
<1>3. /\ DOMAIN e = Fields
      /\ e.request = shape /\ e.route = 0 /\ e.at = "handler" /\ e.panic = "none"
      /\ e.body = None /\ e.header = NoHeader /\ e.writers = {} /\ e.ctx = 1
      /\ e.meta = <<m>> /\ e.log = <<>> /\ e.metric = <<>> /\ e.charged = FALSE
      /\ e.forwarded = {} /\ e.backend = FALSE /\ e.informed = FALSE /\ e.idHeader = id
      /\ e.wrote = [w \in Writers |-> 0]
  BY <1>1, <1>2 DEF Fields
<1>4. e.meta[1] = m /\ m.id = id
  BY <1>3 DEF m
<1>5. l = [e EXCEPT !.header = [NoHeader EXCEPT !.id = <<id>>], !.logCtx = 1,
                    !.writers = {"log"}]
  BY <1>3, <1>4, Zenon DEF RequestLogger, RequestID, e, Fields
<1> HIDE DEF l
<1>6. y = [l EXCEPT !.metricCtx = l.ctx, !.writers = l.writers \union {"metrics"}]
  BY DEF Instrument
<1> HIDE DEF y
<1>7. /\ DOMAIN l = Fields
      /\ l.request = shape /\ l.route = 0 /\ l.at = "handler" /\ l.panic = "none"
      /\ l.body = None /\ l.header = [NoHeader EXCEPT !.id = <<id>>]
      /\ l.writers = {"log"} /\ l.ctx = 1 /\ l.logCtx = 1
      /\ l.meta = <<m>> /\ l.log = <<>> /\ l.metric = <<>> /\ l.charged = FALSE
      /\ l.forwarded = {} /\ l.backend = FALSE /\ l.informed = FALSE /\ l.idHeader = id
      /\ l.wrote = [w \in Writers |-> 0]
  BY <1>3, <1>5 DEF Fields
<1>8. /\ DOMAIN y = Fields
      /\ y.request = shape /\ y.route = 0 /\ y.at = "handler" /\ y.panic = "none"
      /\ y.body = None /\ y.header = [NoHeader EXCEPT !.id = <<id>>]
      /\ y.writers = {"log", "metrics"} /\ y.ctx = 1 /\ y.logCtx = 1 /\ y.metricCtx = 1
      /\ y.meta = <<m>> /\ y.log = <<>> /\ y.metric = <<>> /\ y.charged = FALSE
      /\ y.forwarded = {} /\ y.backend = FALSE /\ y.informed = FALSE /\ y.idHeader = id
      /\ y.wrote = [w \in Writers |-> 0]
  BY <1>6, <1>7 DEF Fields
<1>9. /\ DOMAIN y.header = HeaderFields
      /\ y.header.id = <<id>> /\ y.header.grant = <<>> /\ y.header.cacheStatus = <<>>
      /\ ~y.header.bars
  BY <1>8 DEF NoHeader, HeaderFields
<1>10. OneMeta(y)
  <2>1. y.meta[1] = m
    BY <1>8
  <2>2. /\ DOMAIN m = {"id", "route", "backend"}
        /\ m.id = id /\ m.route = 0 /\ m.backend = FALSE
    BY DEF m
  <2> QED BY <1>8, <2>1, <2>2, Zenon DEF OneMeta
<1>11. Unrouted(y, shape)
  BY <1>8, <1>9, <1>10 DEF Unrouted, Writable
<1> QED BY <1>9, <1>11 DEF y, l, x

\* Without a grant, or with the request's own, an exchange is ready for its
\* route.
LEMMA UnroutedIsReady ==
  ASSUME NEW g, NEW shape \in Shapes, NEW x, Unrouted(x, shape),
         \/ x.header.grant = <<>> /\ ~Entitled(g, x)
         \/ x.header.grant = <<Own(g, x)>>,
         ~x.header.bars => x.header.grant \in Seq(Shared(g))
  PROVE  Ready(g, x) /\ x.header.id # <<>>
<1>0. x.header.id = <<x.idHeader>> /\ x.header.id # <<>>
  BY DEF Unrouted
<1>1. HeaderOK(g, x)
  <2>1. x.body # "cache" /\ x.body # "upstream" /\ x.informed = FALSE
    BY MessagesWellTyped DEF Unrouted
  <2>2. Identified(x)
    BY <1>0, <2>1 DEF Identified
  <2>3. \A a, S : a \in S => <<a>> \in Seq(S) /\ a \in Range(<<a>>)
    BY DEF Range
  <2>4. \A S : <<>> \in Seq(S)
    OBVIOUS
  <2>5. GrantOK(g, x)
    BY <2>1, <2>3, <2>4, Zenon DEF GrantOK
  <2> QED BY <2>1, <2>2, <2>5 DEF HeaderOK, CacheStatus, Unrouted
<1>2. Policy(g, x)
  BY DEF Policy, Unrouted
<1>3. x.request \in Shapes
  BY DEF Unrouted
<1>4. DOMAIN x.wrote = Writers
  BY DEF Unrouted, Writable
<1> QED BY <1>0, <1>1, <1>2, <1>3, <1>4, Zenon DEF Ready, Common, Unwritten, Unrouted, Writable

\* Vary bars an answer from the cache unless every origin gets the same grant.
LEMMA VariedEffect ==
  ASSUME NEW cors, NEW x, NEW shape, Unrouted(x, shape), x.header.grant = <<>>
  PROVE  LET request == x.request
             wildcard == "*" \in cors.allowedOrigins /\ ~cors.allowCredentials
             varied == addVary(x, wildcard, isPreflight(request))
             own == IF wildcard THEN "*" ELSE request.origin
             granted == [varied EXCEPT !.header.grant = <<own>>]
         IN  /\ Unrouted(varied, shape) /\ varied.header.grant = <<>>
             /\ Unrouted(granted, shape) /\ granted.header.grant = <<own>>
             /\ ~granted.header.bars => wildcard
<1> DEFINE wildcard == "*" \in cors.allowedOrigins /\ ~cors.allowCredentials
           preflight == isPreflight(x.request)
           grant == IF wildcard THEN "*" ELSE x.request.origin
           varied == addVary(x, wildcard, preflight)
           granted == [varied EXCEPT !.header.grant = <<grant>>]
           bars == x.header.bars \/ ~wildcard \/ preflight
           h == [x.header EXCEPT !.bars = bars]
           k == [h EXCEPT !.grant = <<grant>>]
<1> HIDE DEF wildcard, preflight, grant
<1>1. DOMAIN x = Fields /\ DOMAIN x.header = HeaderFields
  BY DEF Unrouted, Writable
<1>2. varied = [x EXCEPT !.header = h]
  BY <1>1 DEF addVary, Fields, HeaderFields
<1> HIDE DEF varied
<1>3. DOMAIN varied = Fields /\ varied.header = h
  BY <1>1, <1>2 DEF Fields
<1>4. granted = [varied EXCEPT !.header = k]
  BY <1>3
<1>5. /\ DOMAIN h = HeaderFields /\ h.id = x.header.id
      /\ h.cacheStatus = x.header.cacheStatus /\ h.grant = x.header.grant
      /\ h.bars = bars
  BY <1>1 DEF HeaderFields
<1> HIDE DEF granted, h
<1>6. /\ DOMAIN k = HeaderFields /\ k.id = x.header.id
      /\ k.cacheStatus = x.header.cacheStatus /\ k.grant = <<grant>> /\ k.bars = bars
  BY <1>5 DEF HeaderFields
<1> HIDE DEF k
<1>7. /\ SameCall(x, varied) /\ varied.panic = x.panic /\ varied.body = x.body
      /\ varied.at = x.at /\ varied.wrote = x.wrote
  BY <1>1, <1>2 DEF SameCall, Fields
<1>8. Unrouted(varied, shape) /\ varied.header.grant = <<>>
  BY <1>3, <1>5, <1>7 DEF Unrouted, Writable, OneMeta, SameCall
<1>9. /\ SameCall(x, granted) /\ granted.panic = x.panic /\ granted.body = x.body
      /\ granted.at = x.at /\ granted.wrote = x.wrote /\ granted.header = k
  BY <1>1, <1>3, <1>4, <1>7 DEF SameCall, Fields
<1>10. Unrouted(granted, shape) /\ granted.header.grant = <<grant>>
  BY <1>6, <1>9 DEF Unrouted, Writable, OneMeta, SameCall
<1>11. ~granted.header.bars => wildcard
  BY <1>6, <1>9, Zenon
<1> QED BY <1>8, <1>10, <1>11 DEF varied, granted, wildcard, preflight, grant

\* CORS answers a preflight request and passes any other on, with the grant its
\* origin is entitled to.
LEMMA CORSEffect ==
  ASSUME NEW g \in Gateways, NEW shape \in Shapes, NEW x, Unrouted(x, shape),
         x.header.grant = <<>>
  PROVE  LET y == CORS(g.cors, x)
         IN  \/ y.at = "unwind" /\ Answered(g, y)
             \/ y.at = "handler" /\ Unrouted(y, shape) /\ Ready(g, y)
<1> DEFINE request == x.request
           preflight == isPreflight(request)
           wildcard == "*" \in g.cors.allowedOrigins /\ ~g.cors.allowCredentials
           varied == addVary(x, wildcard, preflight)
           own == IF wildcard THEN "*" ELSE request.origin
           granted == [varied EXCEPT !.header.grant = <<own>>]
           y == CORS(g.cors, x)
<1>1. request = shape /\ x.at = "handler"
  BY DEF Unrouted
<1>2. wildcard <=> "*" \in g.cors.allowedOrigins
  BY GatewaysWellTyped DEF WellBuilt
<1>4. /\ Unrouted(varied, shape) /\ varied.header.grant = <<>>
      /\ Unrouted(granted, shape) /\ granted.header.grant = <<own>>
      /\ ~granted.header.bars => wildcard
  BY VariedEffect, Zenon
<1>e. \A S : <<>> \in Seq(S)
  OBVIOUS
<1>5. \/ y = x /\ (g.cors.allowedOrigins = {} \/ request.origin = Empty)
      \/ y = Error(varied, 403) /\ preflight
      \/ y = varied /\ ~originAllowed(g.cors, request.origin)
      \/ y = granted /\ ~preflight
      \/ y = Answer(granted, 204) /\ preflight
      \/ y = Error(varied, 403) /\ preflight
  BY DEF CORS
<1> HIDE DEF varied, granted, y
<1>6. /\ varied.request = shape /\ varied.at = "handler"
      /\ granted.request = shape /\ granted.at = "handler"
  BY <1>4 DEF Unrouted
<1>7. CASE y = x /\ (g.cors.allowedOrigins = {} \/ request.origin = Empty)
  <2>1. ~Entitled(g, x)
    BY <1>7 DEF Entitled, originAllowed
  <2>2. Ready(g, x)
    BY <1>e, <2>1, UnroutedIsReady, Zenon
  <2> QED BY <1>1, <1>7, <2>2 DEF y
<1>8. CASE y = Error(varied, 403) /\ preflight
  <2>1. ~Entitled(g, varied)
    BY <1>1, <1>6, <1>8 DEF Entitled
  <2>2. Ready(g, varied) /\ varied.header.id # <<>>
    BY <1>4, <1>e, <2>1, UnroutedIsReady, Zenon
  <2>3. Answered(g, y) /\ y.at = "unwind"
    BY <1>8, <2>2, ErrorAnswers, ReadyIsWritable, AnswerEffect DEF Final
  <2> QED BY <2>3 DEF y
<1>9. CASE y = varied /\ ~originAllowed(g.cors, request.origin)
  <2>1. ~Entitled(g, varied)
    BY <1>1, <1>6, <1>9 DEF Entitled
  <2>2. Ready(g, varied) /\ varied.header.id # <<>>
    BY <1>4, <1>e, <2>1, UnroutedIsReady, Zenon
  <2> QED BY <1>4, <1>6, <1>9, <2>2 DEF y
<1>10. own = Own(g, granted)
  BY <1>1, <1>2, <1>6 DEF Own
<1>11. Ready(g, granted) /\ granted.header.id # <<>>
  <2>1. \A a, S : a \in S => <<a>> \in Seq(S)
    OBVIOUS
  <2>2. ~granted.header.bars => own \in Shared(g)
    BY <1>2, <1>4 DEF Shared
  <2>3. ~granted.header.bars => granted.header.grant \in Seq(Shared(g))
    BY <1>4, <2>1, <2>2
  <2> QED BY <1>4, <1>10, <2>3, UnroutedIsReady, Zenon
<1>12. CASE y = granted /\ ~preflight
  BY <1>4, <1>6, <1>11, <1>12 DEF y
<1>13. CASE y = Answer(granted, 204) /\ preflight
  <2>1. /\ Written(granted, y, 204) /\ y.at = "unwind" /\ y.panic = granted.panic
        /\ y.body = granted.body
    BY <1>11, <1>13, AnswerEffect, ReadyIsWritable DEF Final
  <2>2. Replied(g, granted, y) /\ y.panic = "none" /\ Common(g, granted)
    BY <1>11, <2>1 DEF Replied, Ready
  <2>3. Answered(g, y)
    BY <1>11, <2>1, <2>2, WrittenIsAnswered DEF Final
  <2> QED BY <2>1, <2>3 DEF y
<1> QED BY <1>5, <1>7, <1>8, <1>9, <1>12, <1>13

\* Setting X-Request-ID once more, or again after an interim response, makes it
\* the request's.
LEMMA RestampKeepsReady ==
  ASSUME NEW g, NEW x, Ready(g, x)
  PROVE  LET z == [x EXCEPT !.header.id = <<RequestID(x, x.ctx)>>]
         IN  /\ Ready(g, z) /\ SameCall(x, z) /\ z.at = x.at
             /\ z.header.id = <<x.idHeader>> /\ z.header.id # <<>>
<1> DEFINE h == [x.header EXCEPT !.id = <<x.idHeader>>]
           z == [x EXCEPT !.header.id = <<RequestID(x, x.ctx)>>]
<1>1. DOMAIN x = Fields /\ DOMAIN x.header = HeaderFields
  BY DEF Ready, Common, HeaderOK
<1>2. RequestID(x, x.ctx) = x.idHeader
  BY DEF Ready, Common, OneMeta, RequestID
<1>3. z = [x EXCEPT !.header = h]
  BY <1>1, <1>2
<1>4. /\ DOMAIN h = HeaderFields /\ h.id = <<x.idHeader>> /\ h.grant = x.header.grant
      /\ h.bars = x.header.bars /\ h.cacheStatus = x.header.cacheStatus
      /\ h.id # <<>>
  BY <1>1 DEF HeaderFields
<1> HIDE DEF z, h
<1>5. /\ SameCall(x, z) /\ z.panic = x.panic /\ z.body = x.body
      /\ z.at = x.at /\ z.wrote = x.wrote /\ z.header = h
  BY <1>1, <1>3 DEF SameCall, Fields
<1>6. HeaderOK(g, z)
  <2>1. Own(g, z) = Own(g, x) /\ (Entitled(g, z) <=> Entitled(g, x))
    BY <1>5 DEF Own, Entitled, SameCall
  <2>2. HeaderOK(g, x) /\ z.body \notin {"gateway", "cache", "upstream"}
    BY <1>5, ReadyIsWritable DEF Ready, Common
  <2>3. /\ z.informed = x.informed /\ z.idHeader = x.idHeader /\ z.writers = x.writers
        /\ z.body = x.body
    BY <1>5 DEF SameCall
  <2>4. Identified(z)
    BY <1>4, <1>5, <2>2, <2>3, Zenon DEF Identified
  <2>5. GrantOK(g, z)
    BY <1>4, <1>5, <2>1, <2>2, <2>3 DEF HeaderOK, GrantOK
  <2>6. CacheStatus(z) = CacheStatus(x)
    BY <2>3 DEF CacheStatus
  <2> QED BY <1>4, <1>5, <2>2, <2>4, <2>5, <2>6 DEF HeaderOK
<1>7. OneMeta(z)
  BY <1>5 DEF Ready, Common, OneMeta, SameCall
<1>8. Policy(g, z)
  BY <1>5 DEF Ready, Common, Policy, Passed, Authorised, SameCall
<1>9. Ready(g, z)
  BY <1>5, <1>6, <1>7, <1>8 DEF Ready, Common, Unwritten, SameCall
<1> QED BY <1>4, <1>5, <1>9 DEF z

\* What comes after the first handler of a chain.
LEMMA ChainStep ==
  ASSUME NEW S, NEW h \in S, NEW s \in Seq(S)
  PROVE  Head(<<h>> \o s) = h /\ Tail(<<h>> \o s) = s
OBVIOUS

\* A handler that is not configured leaves the chain as it was.
LEMMA ChainSkip ==
  ASSUME NEW S, NEW s \in Seq(S)
  PROVE  <<>> \o s = s
OBVIOUS

\* Concatenation, for the steps that need only that it is associative.
Cat(s, t) == s \o t

\* Chains are composed in any order.
LEMMA ChainAssociative ==
  \A S : \A a, b, c \in Seq(S) : Cat(a, b) \in Seq(S) /\ Cat(Cat(a, b), c) = Cat(a, Cat(b, c))
<1> SUFFICES ASSUME NEW S, NEW a \in Seq(S), NEW b \in Seq(S), NEW c \in Seq(S)
             PROVE  Cat(a, b) \in Seq(S) /\ Cat(Cat(a, b), c) = Cat(a, Cat(b, c))
  OBVIOUS
<1>1. a \o b \in Seq(S)
  OBVIOUS
<1>2. (a \o b) \o c = a \o (b \o c)
  OBVIOUS
<1> QED BY <1>1, <1>2, Zenon DEF Cat

\* The chain of a route, handler by handler.
LEMMA ChainOrder ==
  ASSUME NEW route
  PROVE  /\ route.protected =>
              /\ Head(routeMiddleware(route)) = "auth"
              /\ Tail(routeMiddleware(route)) = AfterAuth(route)
         /\ ~route.protected => routeMiddleware(route) = AfterAuth(route)
         /\ route.burst > 0 =>
              /\ Head(AfterAuth(route)) = "limit"
              /\ Tail(AfterAuth(route)) = AfterLimit(route)
         /\ ~(route.burst > 0) => AfterAuth(route) = AfterLimit(route)
         /\ route.cached =>
              /\ Head(AfterLimit(route)) = "cache"
              /\ Tail(AfterLimit(route)) = <<"proxy">>
         /\ ~route.cached => AfterLimit(route) = <<"proxy">>
         /\ Head(<<"proxy">>) = "proxy"
<1> DEFINE limit == IF route.burst > 0 THEN <<"limit">> ELSE <<>>
           cached == IF route.cached THEN <<"cache">> ELSE <<>>
           auth == IF route.protected THEN <<"auth">> ELSE <<>>
           proxy == <<"proxy">>
           H == {"auth", "limit", "cache", "proxy"}
<1>1. \A h \in H : <<h>> \in Seq(H)
  <2> HIDE DEF H
  <2> QED OBVIOUS
<1>2. /\ auth \in Seq(H) /\ limit \in Seq(H)
      /\ cached \in Seq(H) /\ proxy \in Seq(H)
  <2>1. <<>> \in Seq(H)
    OBVIOUS
  <2>2. <<"auth">> \in Seq(H) /\ <<"limit">> \in Seq(H) /\ <<"cache">> \in Seq(H)
        /\ <<"proxy">> \in Seq(H)
    <3>1. "auth" \in H /\ "limit" \in H /\ "cache" \in H /\ "proxy" \in H
      OBVIOUS
    <3> HIDE DEF H
    <3> QED BY <1>1, <3>1, Zenon
  <2> HIDE DEF H
  <2> QED BY <2>1, <2>2, Zenon
<1>3. /\ routeMiddleware(route) = ((auth \o limit) \o cached) \o proxy
      /\ AfterAuth(route) = (limit \o cached) \o proxy
      /\ AfterLimit(route) = cached \o proxy
  BY DEF routeMiddleware, AfterAuth, AfterLimit
<1>4. /\ route.protected => auth = <<"auth">>
      /\ ~route.protected => auth = <<>>
      /\ route.burst > 0 => limit = <<"limit">>
      /\ ~(route.burst > 0) => limit = <<>>
      /\ route.cached => cached = <<"cache">>
      /\ ~route.cached => cached = <<>>
  OBVIOUS
<1>5. Head(proxy) = "proxy"
  OBVIOUS
<1>h. "auth" \in H /\ "limit" \in H /\ "cache" \in H
  OBVIOUS
<1> HIDE DEF limit, cached, auth, proxy, H
<1> DEFINE rest == cached \o proxy
           all == limit \o rest
<1>6. rest \in Seq(H) /\ all \in Seq(H)
  BY <1>2, ChainAssociative, Zenon DEF Cat
<1>7. (limit \o cached) \o proxy = all /\ ((auth \o limit) \o cached) \o proxy = auth \o all
  <2>1. Cat(cached, proxy) \in Seq(H) /\ Cat(auth, limit) \in Seq(H)
    BY <1>2, ChainAssociative
  <2>2. Cat(Cat(limit, cached), proxy) = Cat(limit, Cat(cached, proxy))
    BY <1>2, ChainAssociative
  <2>3. Cat(Cat(Cat(auth, limit), cached), proxy) = Cat(Cat(auth, limit), Cat(cached, proxy))
    BY <1>2, <2>1, ChainAssociative
  <2>4. Cat(Cat(auth, limit), Cat(cached, proxy)) = Cat(auth, Cat(limit, Cat(cached, proxy)))
    BY <1>2, <2>1, ChainAssociative
  <2> QED BY <2>2, <2>3, <2>4, Zenon DEF Cat
<1>8. AfterLimit(route) = rest /\ AfterAuth(route) = all /\ routeMiddleware(route) = auth \o all
  BY <1>3, <1>7
<1> HIDE DEF all
<1>9. /\ Head(<<"auth">> \o all) = "auth" /\ Tail(<<"auth">> \o all) = all
      /\ <<>> \o all = all
  BY <1>6, <1>h, ChainStep, ChainSkip
<1> HIDE DEF rest
<1>10. /\ Head(<<"limit">> \o rest) = "limit" /\ Tail(<<"limit">> \o rest) = rest
       /\ <<>> \o rest = rest
  BY <1>6, <1>h, ChainStep, ChainSkip
<1>11. /\ Head(<<"cache">> \o proxy) = "cache" /\ Tail(<<"cache">> \o proxy) = proxy
       /\ <<>> \o proxy = proxy
  BY <1>2, <1>h, ChainStep, ChainSkip
<1>12. /\ route.protected =>
            Head(auth \o all) = "auth" /\ Tail(auth \o all) = all
       /\ ~route.protected => auth \o all = all
  BY <1>4, <1>9, Zenon
<1>13. /\ route.burst > 0 => Head(all) = "limit" /\ Tail(all) = rest
       /\ ~(route.burst > 0) => all = rest
  BY <1>4, <1>10, Zenon DEF all
<1>14. /\ route.cached => Head(rest) = "cache" /\ Tail(rest) = proxy
       /\ ~route.cached => rest = proxy
  BY <1>4, <1>11, Zenon DEF rest
<1> QED BY <1>5, <1>8, <1>12, <1>13, <1>14, Zenon DEF proxy

-----------------------------------------------------------------------------
(* The handlers of a route.                                                 *)

\* What is settled when an exchange enters a handler, and what comes next.
LEMMA StageOfHead ==
  ASSUME NEW g, NEW x, Stage(g, x)
  PROVE  LET route == g.routes[x.route]
         IN  /\ Head(x.todo) = "auth" => ~x.charged /\ Tail(x.todo) = AfterAuth(route)
             /\ Head(x.todo) = "limit" =>
                  /\ ~x.charged /\ (route.protected => Authorised(g, x))
                  /\ Tail(x.todo) = AfterLimit(route)
             /\ Head(x.todo) = "cache" =>
                  Passed(g, x) /\ route.cached /\ Tail(x.todo) = <<"proxy">>
             /\ Head(x.todo) = "proxy" => Passed(g, x)
<1> DEFINE route == g.routes[x.route]
           all == routeMiddleware(route)
           auth == AfterAuth(route)
           limit == AfterLimit(route)
           proxy == <<"proxy">>
<1>1. /\ route.protected => Head(all) = "auth" /\ Tail(all) = auth
      /\ ~route.protected => all = auth
      /\ route.burst > 0 => Head(auth) = "limit" /\ Tail(auth) = limit
      /\ ~(route.burst > 0) => auth = limit
      /\ route.cached => Head(limit) = "cache" /\ Tail(limit) = proxy
      /\ ~route.cached => limit = proxy
      /\ Head(proxy) = "proxy"
  BY ChainOrder
<1>2. Passed(g, x) <=> /\ route.protected => Authorised(g, x)
                       /\ route.burst > 0 => x.charged
  BY DEF Passed
<1>3. \/ x.todo = all /\ ~x.charged
      \/ x.todo = auth /\ ~x.charged /\ (route.protected => Authorised(g, x))
      \/ x.todo = limit /\ Passed(g, x)
      \/ x.todo = proxy /\ Passed(g, x)
  BY DEF Stage
<1> HIDE DEF route, all, auth, limit, proxy
<1> QED BY <1>1, <1>2, <1>3, Zenon DEF route, auth, limit, proxy

\* y is x a handler further: nothing is written and no backend is chosen.
Moved(x, y) ==
  /\ DOMAIN y = Fields
  /\ y.request = x.request /\ y.idHeader = x.idHeader /\ y.route = x.route
  /\ y.meta = x.meta /\ y.ctx = x.ctx /\ y.logCtx = x.logCtx
  /\ y.metricCtx = x.metricCtx /\ y.log = x.log /\ y.metric = x.metric
  /\ y.forwarded = x.forwarded /\ y.backend = x.backend /\ y.wrote = x.wrote
  /\ y.informed = x.informed /\ y.body = x.body /\ y.panic = x.panic /\ y.at = x.at

\* Before the proxy no interim response can have come.
LEMMA NotInformed ==
  ASSUME NEW g, NEW x, Handling(g, x), Head(x.todo) # "proxy"
  PROVE  ~x.informed /\ x.header.id = <<x.idHeader>> /\ x.header.id # <<>>
BY DEF Handling, Fresh

\* An exchange that has moved is being handled.
LEMMA MovedIsHandling ==
  ASSUME NEW g, NEW x, NEW y, Handling(g, x), Moved(x, y), HeaderOK(g, y), Stage(g, y),
         {"log", "metrics"} \subseteq y.writers, "client" \notin y.writers,
         "cache" \in y.writers => g.routes[x.route].cached,
         ~x.informed, y.header.id = <<y.idHeader>>,
         y.charged /\ g.routes[x.route].protected => Authorised(g, x)
  PROVE  Handling(g, y)
<1>1. y.body = None /\ None \notin {"upstream", "cache"}
  BY MessagesWellTyped DEF Handling, Unwritten, Moved
<1>2. Policy(g, y)
  BY <1>1 DEF Policy, Moved, Authorised
<1>3. OneMeta(y)
  BY DEF Handling, Common, OneMeta, Moved
<1>4. Common(g, y)
  BY <1>2, <1>3 DEF Handling, Common, Moved
<1>5. Fresh(y)
  BY DEF Fresh, Moved
<1> QED BY <1>4, <1>5 DEF Handling, Unwritten, Moved

\* next.ServeHTTP, with or without a charge.
LEMMA DelegateEffect ==
  ASSUME NEW g, NEW x, Handling(g, x)
  PROVE  LET y == Delegate(x)
             z == [y EXCEPT !.charged = TRUE]
         IN  /\ Moved(x, y) /\ HeaderOK(g, y) /\ y.writers = x.writers
             /\ y.header = x.header
             /\ y.charged = x.charged /\ y.todo = Tail(x.todo)
             /\ z.header = x.header
             /\ Moved(x, z) /\ HeaderOK(g, z) /\ z.writers = x.writers
             /\ z.charged = TRUE /\ z.todo = Tail(x.todo)
<1> DEFINE y == Delegate(x)
           z == [y EXCEPT !.charged = TRUE]
<1>1. DOMAIN x = Fields
  BY DEF Handling, Common
<1>2. y = [x EXCEPT !.todo = Tail(x.todo)]
  BY DEF Delegate
<1> HIDE DEF y
<1>3. /\ Moved(x, y) /\ y.writers = x.writers /\ y.header = x.header
      /\ y.charged = x.charged /\ y.todo = Tail(x.todo)
  BY <1>1, <1>2 DEF Moved, Fields
<1>4. DOMAIN y = Fields
  BY <1>3 DEF Moved
<1>5. /\ Moved(x, z) /\ z.writers = x.writers /\ z.header = x.header
      /\ z.charged = TRUE /\ z.todo = Tail(x.todo)
  BY <1>3, <1>4 DEF Moved, Fields
<1> HIDE DEF z
<1>6. /\ Own(g, y) = Own(g, x) /\ (Entitled(g, y) <=> Entitled(g, x))
      /\ Own(g, z) = Own(g, x) /\ (Entitled(g, z) <=> Entitled(g, x))
  BY <1>3, <1>5 DEF Moved, Own, Entitled
<1>7. HeaderOK(g, x)
  BY DEF Handling, Common
<1>8. HeaderOK(g, y) /\ HeaderOK(g, z)
  BY <1>3, <1>5, <1>6, <1>7 DEF HeaderOK, Identified, Stamped, GrantOK, CacheStatus, Moved
<1> QED BY <1>3, <1>5, <1>8 DEF y, z

\* APIKeyAuth lets a request with a valid key on and answers any other.
LEMMA APIKeyAuthEffect ==
  ASSUME NEW g, NEW x, Handling(g, x), Head(x.todo) = "auth"
  PROVE  LET y == IF x.request.apiKey \in Range(g.apiKeys) THEN Delegate(x)
                  ELSE Error(x, 401)
         IN  Handling(g, y) \/ Answered(g, y)
<1> DEFINE y == Delegate(x)
<1>1. CASE ~Authorised(g, x)
  <2>1. Ready(g, x) /\ x.header.id # <<>>
    BY NotInformed DEF Handling, Ready
  <2> QED BY <1>1, <2>1, ErrorAnswers DEF Authorised, Final
<1>2. CASE Authorised(g, x)
  <2>1. Stage(g, x) /\ Common(g, x) /\ x.route # 0
    BY DEF Handling
  <2>2. ~x.charged /\ Tail(x.todo) = AfterAuth(g.routes[x.route])
    BY <2>1, StageOfHead
  <2>3. /\ Moved(x, y) /\ HeaderOK(g, y) /\ y.writers = x.writers /\ y.header = x.header
        /\ y.charged = x.charged /\ y.todo = Tail(x.todo)
    BY DelegateEffect, Zenon
  <2> HIDE DEF y
  <2>4. Authorised(g, y)
    BY <1>2, <2>3 DEF Authorised, Moved
  <2>5. Stage(g, y)
    BY <2>2, <2>3, <2>4 DEF Stage, Moved
  <2>6. ~x.informed /\ y.header.id = <<y.idHeader>>
    BY <2>3, NotInformed DEF Moved
  <2>7. Handling(g, y)
    BY <1>2, <2>1, <2>3, <2>5, <2>6, MovedIsHandling DEF Common
  <2> QED BY <1>2, <2>7 DEF Authorised, y
<1> QED BY <1>1, <1>2

\* rateLimit charges the request and lets it on, or answers it.
LEMMA RateLimitEffect ==
  ASSUME NEW g, NEW x, Handling(g, x), Head(x.todo) = "limit"
  PROVE  /\ Handling(g, [Delegate(x) EXCEPT !.charged = TRUE])
         /\ Answered(g, Error(x, 429))
<1> DEFINE y == [Delegate(x) EXCEPT !.charged = TRUE]
<1>1. Ready(g, x) /\ x.header.id # <<>>
  BY NotInformed DEF Handling, Ready
<1>2. Stage(g, x) /\ Common(g, x) /\ x.route # 0
  BY DEF Handling
<1>3. /\ g.routes[x.route].protected => Authorised(g, x)
      /\ Tail(x.todo) = AfterLimit(g.routes[x.route])
  BY <1>2, StageOfHead
<1>4. /\ Moved(x, y) /\ HeaderOK(g, y) /\ y.writers = x.writers /\ y.header = x.header
      /\ y.charged = TRUE /\ y.todo = Tail(x.todo)
  BY DelegateEffect
<1> HIDE DEF y
<1>5. Passed(g, y)
  BY <1>3, <1>4 DEF Passed, Authorised, Moved
<1>6. Stage(g, y)
  BY <1>3, <1>4, <1>5 DEF Stage, Moved
<1>7. ~x.informed /\ y.header.id = <<y.idHeader>>
  BY <1>4, NotInformed DEF Moved
<1>8. Handling(g, y)
  BY <1>2, <1>3, <1>4, <1>6, <1>7, MovedIsHandling DEF Common
<1> QED BY <1>1, <1>8, ErrorAnswers DEF y, Final

\* A field with a value has one to show.
LEMMA NonemptyRange ==
  ASSUME NEW S, NEW s \in Seq(S), s # <<>>
  PROVE  Range(s) # {}
<1>1. Len(s) \in Nat /\ DOMAIN s = 1 .. Len(s) /\ Len(s) # 0
  OBVIOUS
<1>2. 1 \in DOMAIN s
  BY <1>1
<1> QED BY <1>2 DEF Range

\* A response replayed from the cache carries a grant that anyone may have, or
\* the request's own.
LEMMA ReplayEffect ==
  ASSUME NEW g, NEW x, Handling(g, x), Head(x.todo) # "proxy", Passed(g, x), NEW response,
         response.header.grant \in Seq(Shared(g))
  PROVE  Answered(g, writeCachedResponse(x, response))
<1> DEFINE grant == IF response.header.grant = <<>> THEN x.header.grant
                    ELSE response.header.grant
           id == RequestID(x, x.ctx)
           h1 == [x.header EXCEPT !.grant = grant]
           h2 == [h1 EXCEPT !.id = <<id>>]
           h == [h2 EXCEPT !.cacheStatus = <<"HIT">>]
           y == [x EXCEPT !.header = h]
           a == Answer(y, 200)
           z == [a EXCEPT !.body = "cache"]
<1>1. DOMAIN x = Fields /\ DOMAIN x.header = HeaderFields /\ HeaderOK(g, x)
  BY DEF Handling, Common, HeaderOK
<1>2. id = x.idHeader
  BY DEF Handling, Common, OneMeta, RequestID
<1>3. writeCachedResponse(x, response) = z
  <2> DEFINE y1 == [x EXCEPT !.header.grant = IF response.header.grant = <<>> THEN @
                                              ELSE response.header.grant]
             y2 == [y1 EXCEPT !.header.id = <<id>>]
             y3 == [y2 EXCEPT !.header.cacheStatus = <<"HIT">>]
  <2>1. writeCachedResponse(x, response) = [Answer(y3, 200) EXCEPT !.body = "cache"]
    BY DEF writeCachedResponse
  <2> HIDE DEF id
  <2>2. y1 = [x EXCEPT !.header = h1]
    OBVIOUS
  <2> HIDE DEF y1, h1
  <2>3. y2 = [x EXCEPT !.header = h2]
    BY <1>1, <2>2, Zenon DEF Fields
  <2> HIDE DEF y2, h2
  <2>4. y3 = y
    BY <1>1, <2>3, Zenon DEF Fields
  <2> QED BY <2>1, <2>4
<1> HIDE DEF grant, id
<1>4. /\ DOMAIN h = HeaderFields /\ h.id = <<x.idHeader>> /\ h.grant = grant
      /\ h.bars = x.header.bars /\ h.cacheStatus = <<"HIT">> /\ h.id # <<>>
  BY <1>1, <1>2 DEF HeaderFields
<1> HIDE DEF h
<1>5. /\ SameCall(x, y) /\ y.panic = x.panic /\ y.header = h
      /\ y.wrote = x.wrote /\ DOMAIN y = Fields
  BY <1>1 DEF SameCall, Fields
<1> HIDE DEF y
<1>6. Writable(y)
  BY <1>5 DEF Writable, SameCall, Handling, Common, Unwritten
<1>7. Written(y, a, 200) /\ a.at = "unwind" /\ a.panic = y.panic
  BY <1>6, AnswerEffect DEF Final
<1> HIDE DEF a
<1>8. DOMAIN a = Fields
  BY <1>5, <1>7 DEF Written, SameCall
<1>9. Written(y, z, 200) /\ z.at = "unwind" /\ z.panic = y.panic /\ z.body = "cache"
  BY <1>7, <1>8 DEF Written, SameCall, Fields
<1> HIDE DEF z
<1>10. SameCall(x, z) /\ z.header = h /\ DOMAIN z.wrote = Writers
  BY <1>5, <1>9 DEF Written, SameCall
<1>11. /\ Own(g, z) = Own(g, x) /\ (Entitled(g, z) <=> Entitled(g, x))
       /\ Passed(g, z) /\ (Authorised(g, z) <=> Authorised(g, x))
  BY <1>10 DEF Own, Entitled, Passed, Authorised, SameCall
<1>12. /\ grant \in Seq({Own(g, x), "upstream"})
       /\ Entitled(g, x) => Range(grant) # {}
       /\ ~x.header.bars => grant \in Seq(Shared(g))
  <2>1. GrantOK(g, x) /\ x.body # "cache" /\ ~x.informed
    BY <1>1, NotInformed, MessagesWellTyped DEF HeaderOK, Handling, Unwritten
  <2>2. Shared(g) \subseteq {Own(g, x), "upstream"}
    BY DEF Shared, Own
  <2>3. \A S, T : S \subseteq T => Seq(S) \subseteq Seq(T)
    OBVIOUS
  <2>4. response.header.grant # <<>> => Range(response.header.grant) # {}
    BY NonemptyRange
  <2> QED BY <2>1, <2>2, <2>3, <2>4 DEF grant, GrantOK
<1>13. HeaderOK(g, z)
  <2>1. Identified(z)
    BY <1>4, <1>9, <1>10, Zenon DEF Identified, SameCall
  <2>2. GrantOK(g, z)
    BY <1>4, <1>9, <1>10, <1>11, <1>12, Zenon DEF GrantOK
  <2> QED BY <1>4, <1>9, <1>10, <2>1, <2>2 DEF HeaderOK, CacheStatus
<1>14. Policy(g, z)
  BY <1>10, <1>11 DEF Policy, SameCall, Passed
<1>15. OneMeta(z)
  BY <1>10 DEF Handling, Common, OneMeta, SameCall
<1>16. Common(g, z)
  BY <1>10, <1>13, <1>14, <1>15 DEF Handling, Common, SameCall
<1>17. z.panic = "none"
  BY <1>5, <1>9 DEF Handling
<1>18. Answered(g, z)
  <2>1. /\ z.wrote["log"] = 200 /\ z.wrote["metrics"] = 200 /\ z.wrote["client"] = 200
        /\ z.sent = z.header /\ z.header.id # <<>>
    BY <1>4, <1>5, <1>9, <1>10, Zenon DEF Written
  <2>2. Final(200)
    BY DEF Final
  <2> QED BY <1>9, <1>16, <1>17, <2>1, <2>2 DEF Answered
<1> QED BY <1>3, <1>18

\* cacheResponses passes the request on, and records what comes back if the
\* lookup was eligible.
LEMMA LookupEffect ==
  ASSUME NEW g, NEW x, Handling(g, x), Head(x.todo) = "cache"
  PROVE  /\ Handling(g, Delegate(x))
         /\ Handling(g, [Delegate(x) EXCEPT !.header.cacheStatus = <<"MISS">>,
                                            !.writers = @ \union {"cache"}])
         /\ Passed(g, x)
<1> DEFINE d == Delegate(x)
           h == [d.header EXCEPT !.cacheStatus = <<"MISS">>]
           w == d.writers \union {"cache"}
           d1 == [d EXCEPT !.header = h]
           y == [d1 EXCEPT !.writers = w]
<1>1. Stage(g, x) /\ Common(g, x) /\ x.route # 0
  BY DEF Handling
<1>2. /\ Passed(g, x) /\ g.routes[x.route].cached
      /\ Tail(x.todo) = <<"proxy">>
  BY <1>1, StageOfHead
<1>3. /\ Moved(x, d) /\ HeaderOK(g, d) /\ d.writers = x.writers /\ d.header = x.header
      /\ d.charged = x.charged /\ d.todo = Tail(x.todo)
  BY DelegateEffect, Zenon
<1>4. DOMAIN d = Fields
  BY <1>3 DEF Moved
<1>5. [Delegate(x) EXCEPT !.header.cacheStatus = <<"MISS">>,
                          !.writers = @ \union {"cache"}] = y
  <2> HIDE DEF d
  <2>1. [d EXCEPT !.header.cacheStatus = <<"MISS">>, !.writers = @ \union {"cache"}] = y
    BY <1>4 DEF Fields
  <2> QED BY <2>1 DEF d
<1> HIDE DEF d
<1>6. /\ Moved(x, d1) /\ d1.header = h /\ d1.writers = d.writers
      /\ d1.charged = x.charged /\ d1.todo = Tail(x.todo)
  BY <1>3, <1>4 DEF Moved, Fields
<1>7. DOMAIN d1 = Fields
  BY <1>6 DEF Moved
<1> HIDE DEF d1
<1>8. /\ Moved(x, y) /\ y.header = h /\ y.writers = w
      /\ y.charged = x.charged /\ y.todo = Tail(x.todo)
  BY <1>6, <1>7 DEF Moved, Fields
<1> HIDE DEF y
<1>9. /\ Own(g, y) = Own(g, d) /\ (Entitled(g, y) <=> Entitled(g, d))
      /\ Passed(g, y) /\ Passed(g, d)
  BY <1>2, <1>3, <1>8 DEF Own, Entitled, Passed, Authorised, Moved
<1>10. /\ DOMAIN h = HeaderFields /\ h.id = d.header.id /\ h.grant = d.header.grant
       /\ h.bars = d.header.bars /\ h.cacheStatus = <<"MISS">>
  BY <1>3 DEF HeaderOK, HeaderFields
<1> HIDE DEF h
<1>11. y.body # "cache"
  BY <1>8, MessagesWellTyped DEF Moved, Handling, Unwritten
<1>n. /\ ~x.informed /\ d.header.id = <<d.idHeader>> /\ y.header.id = <<y.idHeader>>
  BY <1>3, <1>8, <1>10, NotInformed DEF Moved
<1>12. HeaderOK(g, y)
  <2>1. y.body = d.body /\ y.informed = d.informed /\ y.idHeader = d.idHeader /\ ~y.informed
    BY <1>3, <1>8, <1>n DEF Moved
  <2>2. Identified(y)
    BY <1>3, <1>8, <1>10, <2>1 DEF HeaderOK, Identified, Stamped
  <2>3. GrantOK(g, y)
    BY <1>3, <1>8, <1>9, <1>10, <2>1 DEF HeaderOK, GrantOK
  <2> QED BY <1>8, <1>10, <1>11, <2>1, <2>2, <2>3 DEF HeaderOK, CacheStatus
<1>13. Stage(g, y) /\ Stage(g, d)
  BY <1>2, <1>3, <1>8, <1>9 DEF Stage, Moved
<1>14. x.charged /\ g.routes[x.route].protected => Authorised(g, x)
  BY <1>2 DEF Passed
<1>15. Handling(g, d)
  BY <1>1, <1>3, <1>13, <1>14, <1>n, MovedIsHandling DEF Common
<1>16. Handling(g, y)
  <2>1. /\ {"log", "metrics"} \subseteq y.writers
        /\ "client" \notin y.writers
    BY <1>1, <1>3, <1>8 DEF Common
  <2> QED BY <1>2, <1>8, <1>12, <1>13, <1>14, <1>n, <2>1, MovedIsHandling
<1> QED BY <1>2, <1>5, <1>15, <1>16 DEF d

-----------------------------------------------------------------------------
(* serveRoute and the reverse proxy.                                        *)

\* A request for which a backend has been acquired can still be answered.
LEMMA ForwardedEffect ==
  ASSUME NEW g, NEW x, Handling(g, x), Passed(g, x)
  PROVE  Handling(g, Forwarded(x)) /\ Passed(g, Forwarded(x))
<1> DEFINE m == [x.meta[1] EXCEPT !.backend = TRUE]
           s == SetBackend(x)
           id == RequestID(x, x.ctx)
           y == Forwarded(x)
<1>1. /\ DOMAIN x = Fields /\ x.ctx = 1
      /\ x.meta = <<x.meta[1]>> /\ DOMAIN x.meta[1] = {"id", "route", "backend"}
      /\ x.meta[1].id = x.idHeader /\ x.meta[1].route = x.route
  BY DEF Handling, Common, OneMeta
<1>2. s = [x EXCEPT !.meta = [x.meta EXCEPT ![1] = m]]
  BY <1>1 DEF SetBackend
<1>3. id = x.idHeader
  BY <1>1 DEF RequestID
<1>4. y = [s EXCEPT !.backend = TRUE, !.forwarded = {id}]
  BY DEF Forwarded
<1>5. /\ DOMAIN m = {"id", "route", "backend"}
      /\ m.id = x.idHeader /\ m.route = x.route /\ m.backend = TRUE
  BY <1>1
<1> HIDE DEF m, s, y, id
<1>6. /\ DOMAIN s = Fields /\ s.meta = <<m>>
      /\ s.request = x.request /\ s.idHeader = x.idHeader /\ s.ctx = x.ctx
      /\ s.logCtx = x.logCtx /\ s.metricCtx = x.metricCtx /\ s.header = x.header
      /\ s.writers = x.writers /\ s.log = x.log /\ s.metric = x.metric
      /\ s.charged = x.charged /\ s.wrote = x.wrote /\ s.panic = x.panic
      /\ s.body = x.body /\ s.route = x.route
      /\ s.at = x.at /\ s.todo = x.todo /\ s.informed = x.informed
  <2>1. \A a, b, c : c = <<a>> => [c EXCEPT ![1] = b] = <<b>>
    OBVIOUS
  <2>2. [x.meta EXCEPT ![1] = m] = <<m>>
    BY <1>1, <2>1
  <2>3. s = [x EXCEPT !.meta = <<m>>]
    BY <1>2, <2>2
  <2> QED BY <1>1, <2>3 DEF Fields
<1>7. /\ DOMAIN y = Fields /\ y.meta = <<m>> /\ y.backend = TRUE /\ y.forwarded = {id}
      /\ y.request = x.request /\ y.idHeader = x.idHeader /\ y.ctx = x.ctx
      /\ y.logCtx = x.logCtx /\ y.metricCtx = x.metricCtx /\ y.header = x.header
      /\ y.writers = x.writers /\ y.log = x.log /\ y.metric = x.metric
      /\ y.charged = x.charged /\ y.wrote = x.wrote /\ y.panic = x.panic
      /\ y.body = x.body /\ y.route = x.route
      /\ y.at = x.at /\ y.todo = x.todo /\ y.informed = x.informed
  BY <1>4, <1>6 DEF Fields
<1>8. OneMeta(y)
  <2>1. y.meta[1] = m
    BY <1>7
  <2> QED BY <1>5, <1>7, <2>1, Zenon DEF OneMeta, Handling, Common
<1>9. /\ Own(g, y) = Own(g, x) /\ (Entitled(g, y) <=> Entitled(g, x))
      /\ Passed(g, y) /\ (Authorised(g, y) <=> Authorised(g, x))
  BY <1>7 DEF Own, Entitled, Passed, Authorised
<1>10. HeaderOK(g, y)
  BY <1>7, <1>9, Zenon DEF HeaderOK, Identified, Stamped, GrantOK, CacheStatus, Handling, Common
<1>11. Policy(g, y)
  BY <1>9 DEF Policy, Passed
<1>12. Common(g, y)
  BY <1>3, <1>7, <1>8, <1>10, <1>11, Zenon DEF Handling, Common
<1>13. Stage(g, y) /\ Fresh(y)
  BY <1>7, <1>9 DEF Stage, Fresh, Handling
<1> QED BY <1>7, <1>9, <1>12, <1>13 DEF Unwritten, Handling, y

\* The values of a field to which others have been added.
LEMMA RangeConcat ==
  ASSUME NEW S, NEW s \in Seq(S), NEW t \in Seq(S)
  PROVE  Range(s \o t) = Range(s) \union Range(t)
<1> DEFINE u == s \o t
<1>1. /\ Len(s) \in Nat /\ Len(t) \in Nat /\ Len(u) = Len(s) + Len(t)
      /\ DOMAIN s = 1 .. Len(s) /\ DOMAIN t = 1 .. Len(t) /\ DOMAIN u = 1 .. Len(u)
      /\ \A i \in 1 .. Len(u) : u[i] = IF i <= Len(s) THEN s[i] ELSE t[i - Len(s)]
  OBVIOUS
<1> HIDE DEF u
<1>2. ASSUME NEW i \in DOMAIN s PROVE s[i] \in Range(u)
  <2>1. i \in DOMAIN u /\ u[i] = s[i]
    BY <1>1
  <2> QED BY <2>1 DEF Range
<1>3. ASSUME NEW i \in DOMAIN t PROVE t[i] \in Range(u)
  <2>1. i + Len(s) \in DOMAIN u /\ u[i + Len(s)] = t[i]
    BY <1>1
  <2> QED BY <2>1 DEF Range
<1>4. ASSUME NEW i \in DOMAIN u PROVE u[i] \in Range(s) \union Range(t)
  <2>1. CASE i <= Len(s)
    <3>1. i \in DOMAIN s /\ u[i] = s[i]
      BY <1>1, <2>1
    <3> QED BY <3>1 DEF Range
  <2>2. CASE ~(i <= Len(s))
    <3>1. i - Len(s) \in DOMAIN t /\ u[i] = t[i - Len(s)]
      BY <1>1, <2>2
    <3> QED BY <3>1 DEF Range
  <2> QED BY <2>1, <2>2
<1>5. Range(u) = Range(s) \union Range(t)
  BY <1>2, <1>3, <1>4 DEF Range
<1> QED BY <1>5 DEF u

\* Adding a value, and adding none.
LEMMA AddValues ==
  ASSUME NEW a
  PROVE  /\ <<>> \o <<a>> = <<a>> /\ <<a>> \o <<a>> = <<a, a>>
         /\ <<a>> \o <<>> = <<a>> /\ <<>> \o <<>> = <<>>
<1>1. \A u \in Seq({a}) : <<>> \o u = u /\ u \o <<>> = u
  OBVIOUS
<1>2. <<>> \in Seq({a}) /\ <<a>> \in Seq({a})
  OBVIOUS
<1>3. <<a>> \o <<a>> = <<a, a>>
  <2> DEFINE u == <<a>> \o <<a>>
             v == <<a, a>>
  <2>1. u \in Seq({a}) /\ Len(u) = 2
    BY <1>2
  <2>2. v \in Seq({a}) /\ Len(v) = 2
    OBVIOUS
  <2>3. \A t \in Seq({a}) : \A i \in 1 .. Len(t) : t[i] = a
    OBVIOUS
  <2> HIDE DEF u, v
  <2>4. Len(u) = Len(v) /\ \A i \in 1 .. Len(u) : u[i] = v[i]
    BY <2>1, <2>2, <2>3
  <2>5. u = v
    BY <2>1, <2>2, <2>4
  <2> QED BY <2>5 DEF u, v
<1> QED BY <1>1, <1>2, <1>3, Zenon

\* The upstream's fields join the gateway's: the identifier again, no X-Cache
\* of its own and no grant but its own.
LEMMA CopiedEffect ==
  ASSUME NEW g, NEW x, Ready(g, x), Fresh(x), Passed(g, x), NEW answer \in Answers
  PROVE  LET y == copyHeader(x, ModifyResponse(x, answer.header))
         IN  Ready(g, y) /\ Passed(g, y) /\ Stamped(y) /\ y.header.id # <<>>
<1> DEFINE m == ModifyResponse(x, answer.header)
           h == [id |-> x.header.id \o m.id,
                 grant |-> x.header.grant \o m.grant,
                 bars |-> x.header.bars \/ m.bars,
                 cacheStatus |-> x.header.cacheStatus \o m.cacheStatus]
           y == copyHeader(x, m)
<1>1. DOMAIN x = Fields /\ HeaderOK(g, x) /\ x.request \in Shapes
      /\ x.body \notin {"gateway", "cache", "upstream"} /\ x.informed \in BOOLEAN
  BY ReadyIsWritable DEF Ready, Common
<1>2. /\ DOMAIN answer.header = HeaderFields
      /\ answer.header.grant \in Seq({"upstream"})
  BY MessagesWellTyped DEF NoHeader, HeaderFields
<1>3. RequestID(x, x.ctx) = x.idHeader
  BY DEF Ready, Common, OneMeta, RequestID
<1>4. m.id = <<x.idHeader>> /\ m.grant \in Seq({"upstream"}) /\ m.cacheStatus = <<>>
  BY <1>2, <1>3 DEF ModifyResponse, HeaderFields
<1> HIDE DEF m
<1>5. y = [x EXCEPT !.header = h]
  BY DEF copyHeader
<1>6. /\ DOMAIN h = HeaderFields
      /\ h.id = x.header.id \o m.id
      /\ h.grant = x.header.grant \o m.grant
      /\ h.bars <=> (x.header.bars \/ m.bars)
      /\ h.cacheStatus = x.header.cacheStatus \o m.cacheStatus
  BY Zenon DEF HeaderFields
<1> HIDE DEF h, y
<1>7. /\ SameCall(x, y) /\ y.panic = x.panic /\ y.header = h /\ y.wrote = x.wrote
      /\ y.body = x.body
  BY <1>1, <1>5 DEF SameCall, Fields
<1>8. /\ Own(g, y) = Own(g, x) /\ (Entitled(g, y) <=> Entitled(g, x))
      /\ Passed(g, y) /\ y.informed = x.informed /\ y.idHeader = x.idHeader
      /\ y.writers = x.writers
  BY <1>7 DEF Own, Entitled, Passed, Authorised, SameCall
<1>s. Stamped(y) /\ y.header.id # <<>>
  <2>1. h.id = IF x.informed THEN <<x.idHeader>> ELSE <<x.idHeader, x.idHeader>>
    BY <1>1, <1>4, <1>6, AddValues DEF Fresh
  <2>2. <<x.idHeader>> # <<>> /\ <<x.idHeader, x.idHeader>> # <<>>
    OBVIOUS
  <2> QED BY <1>7, <1>8, <2>1, <2>2 DEF Stamped
<1>9. HeaderOK(g, y)
  <2>1. Identified(y)
    BY <1>s, <1>8 DEF Identified, Stamped
  <2>2. GrantOK(g, y)
    <3> DEFINE G == {Own(g, x), "upstream"}
               w == x.header.grant
    <3>1. w \in Seq(G) /\ GrantOK(g, x)
      BY <1>1 DEF HeaderOK, GrantOK
    <3>2. \A T : "upstream" \in T => m.grant \in Seq(T)
      BY <1>4
    <3>3. m.grant \in Seq(G) /\ m.grant \in Seq(Shared(g))
      BY <3>2 DEF Shared
    <3>4. Range(w \o m.grant) = Range(w) \union Range(m.grant)
      BY <3>1, <3>3, RangeConcat
    <3>5. Entitled(g, x) => Own(g, x) \notin Range(m.grant)
      <4>1. Range(m.grant) \subseteq {"upstream"}
        BY <1>4 DEF Range
      <4>2. Own(g, x) # "upstream"
        BY <1>1, MessagesWellTyped DEF Own
      <4> QED BY <4>1, <4>2
    <3>6. Own(g, x) \notin Range(m.grant) =>
            (Own(g, x) \in Range(h.grant) <=> Own(g, x) \in Range(w))
      BY <1>6, <3>4
    <3>7. h.grant \in Seq(G)
      <4> HIDE DEF G, w
      <4> QED BY <1>6, <3>1, <3>3 DEF w
    <3>8. ~h.bars => h.grant \in Seq(Shared(g))
      <4>1. ~h.bars => w \in Seq(Shared(g))
        BY <1>6, <3>1 DEF GrantOK
      <4> HIDE DEF w
      <4> QED BY <1>6, <3>3, <4>1 DEF w
    <3> QED BY <1>1, <1>7, <1>8, <3>1, <3>5, <3>6, <3>7, <3>8 DEF GrantOK
  <2>3. h.cacheStatus = x.header.cacheStatus
    <3>1. x.header.cacheStatus \in {<<"HIT">>, <<"MISS">>, <<>>}
      BY <1>1 DEF HeaderOK, CacheStatus
    <3> QED BY <1>4, <1>6, <3>1, AddValues
  <2>4. CacheStatus(y) = CacheStatus(x)
    BY <1>7, <1>8 DEF CacheStatus
  <2> QED BY <1>1, <1>6, <1>7, <2>1, <2>2, <2>3, <2>4 DEF HeaderOK
<1>10. Policy(g, y)
  BY <1>8 DEF Policy, Passed
<1>11. OneMeta(y)
  BY <1>7 DEF Ready, Common, OneMeta, SameCall
<1>12. Common(g, y)
  BY <1>7, <1>9, <1>10, <1>11 DEF Ready, Common, SameCall
<1>13. Ready(g, y)
  BY <1>7, <1>12 DEF Ready, Unwritten
<1> QED BY <1>8, <1>13, <1>s DEF y, m

\* An interim response leaves the exchange with the proxy, and without the
\* fields the gateway had set.
LEMMA InformEffect ==
  ASSUME NEW g, NEW f, Handling(g, f), f.backend = TRUE, Head(f.todo) = "proxy", NEW header
  PROVE  Handling(g, [WriteHeader(copyHeader(f, header), 103) EXCEPT
                        !.header = NoHeader, !.informed = TRUE])
<1> DEFINE c == copyHeader(f, header)
           w == WriteHeader(c, 103)
           y == [w EXCEPT !.header = NoHeader, !.informed = TRUE]
<1>1. DOMAIN f = Fields
  BY DEF Handling, Common
<1>2. \E h : c = [f EXCEPT !.header = h]
  BY Zenon DEF copyHeader
<1>3. DOMAIN c = Fields /\ c = [f EXCEPT !.header = c.header]
  BY <1>1, <1>2 DEF Fields
<1> HIDE DEF c
<1>4. isInterim(103)
  BY DEF isInterim
<1>5. w = [c EXCEPT !.wrote = [v \in DOMAIN c.wrote |-> c.wrote[v]], !.sent = c.sent,
                    !.captured = c.captured]
  BY <1>4 DEF WriteHeader, WriteThrough
<1> HIDE DEF w
<1>6. c.wrote = f.wrote /\ f.wrote = [v \in Writers |-> 0]
  BY <1>1, <1>3 DEF Fields, Handling, Unwritten
<1>7. /\ DOMAIN w = Fields
      /\ w.request = f.request /\ w.idHeader = f.idHeader /\ w.route = f.route
      /\ w.todo = f.todo /\ w.meta = f.meta /\ w.ctx = f.ctx
      /\ w.logCtx = f.logCtx /\ w.metricCtx = f.metricCtx
      /\ w.writers = f.writers /\ w.log = f.log /\ w.metric = f.metric
      /\ w.charged = f.charged /\ w.forwarded = f.forwarded /\ w.backend = f.backend
      /\ w.wrote = f.wrote /\ w.body = f.body /\ w.panic = f.panic /\ w.at = f.at
  <2>1. [v \in DOMAIN c.wrote |-> c.wrote[v]] = f.wrote
    BY <1>6
  <2>2. w = [c EXCEPT !.wrote = f.wrote, !.sent = c.sent, !.captured = c.captured]
    BY <1>5, <2>1, Zenon
  <2>3. /\ c.request = f.request /\ c.idHeader = f.idHeader /\ c.route = f.route
        /\ c.todo = f.todo /\ c.meta = f.meta /\ c.ctx = f.ctx
        /\ c.logCtx = f.logCtx /\ c.metricCtx = f.metricCtx
        /\ c.writers = f.writers /\ c.log = f.log /\ c.metric = f.metric
        /\ c.charged = f.charged /\ c.forwarded = f.forwarded /\ c.backend = f.backend
        /\ c.body = f.body /\ c.panic = f.panic /\ c.at = f.at
    BY <1>1, <1>3 DEF Fields
  <2> QED BY <1>3, <2>2, <2>3 DEF Fields
<1>8. /\ DOMAIN y = Fields /\ y.header = NoHeader /\ y.informed = TRUE
      /\ y.request = f.request /\ y.idHeader = f.idHeader /\ y.route = f.route
      /\ y.todo = f.todo /\ y.meta = f.meta /\ y.ctx = f.ctx
      /\ y.logCtx = f.logCtx /\ y.metricCtx = f.metricCtx
      /\ y.writers = f.writers /\ y.log = f.log /\ y.metric = f.metric
      /\ y.charged = f.charged /\ y.forwarded = f.forwarded /\ y.backend = f.backend
      /\ y.wrote = f.wrote /\ y.body = f.body /\ y.panic = f.panic /\ y.at = f.at
  BY <1>7 DEF Fields
<1> HIDE DEF y
<1>9. y.body \notin {"cache", "upstream"}
  BY <1>8, MessagesWellTyped DEF Handling, Unwritten
<1>10. HeaderOK(g, y)
  <2>1. /\ DOMAIN y.header = HeaderFields /\ y.header.id = <<>> /\ y.header.grant = <<>>
        /\ y.header.cacheStatus = <<>>
    BY <1>8 DEF NoHeader, HeaderFields
  <2>2. Identified(y)
    BY <1>8, <1>9, <2>1 DEF Identified
  <2>3. Range(y.header.grant) = {} /\ \A S : y.header.grant \in Seq(S)
    BY <2>1 DEF Range
  <2>4. GrantOK(g, y)
    BY <1>8, <1>9, <2>3 DEF GrantOK
  <2> QED BY <1>8, <1>9, <2>1, <2>2, <2>4 DEF HeaderOK, CacheStatus
<1>11. OneMeta(y)
  BY <1>8 DEF Handling, Common, OneMeta
<1>12. Policy(g, y) /\ Stage(g, y)
  BY <1>8, Zenon DEF Handling, Common, Policy, Passed, Authorised, Stage
<1>13. Common(g, y)
  BY <1>8, <1>10, <1>11, <1>12, Zenon DEF Handling, Common
<1>14. Fresh(y)
  BY <1>8 DEF Fresh, NoHeader
<1>15. Handling(g, y)
  BY <1>8, <1>12, <1>13, <1>14 DEF Handling, Unwritten
<1> QED BY <1>15 DEF y, w, c

\* An answer of the upstream, complete or broken off.
LEMMA UpstreamAnswersEffect ==
  ASSUME NEW g, NEW c, Ready(g, c), Passed(g, c), Stamped(c), c.header.id # <<>>,
         NEW status, Final(status)
  PROVE  LET z == [WriteHeader(c, status) EXCEPT !.body = "upstream"]
         IN  /\ Answered(g, [z EXCEPT !.panic = "abort", !.at = "unwind"])
             /\ Answered(g, Return(z))
<1> DEFINE y == WriteHeader(c, status)
           b == [y EXCEPT !.body = "upstream"]
           p == [b EXCEPT !.panic = "abort", !.at = "unwind"]
           s == Return(b)
<1>1. Written(c, y, status) /\ y.panic = "none"
  <2>1. /\ DOMAIN c = Fields /\ c.wrote = [w \in Writers |-> 0]
        /\ {"log", "metrics"} \subseteq c.writers /\ "client" \notin c.writers
    BY ReadyIsWritable DEF Writable
  <2>2. c.panic = "none"
    BY DEF Ready
  <2> QED BY <2>1, <2>2, WriteHeaderEffect DEF Written
<1>2. DOMAIN y = Fields
  BY <1>1 DEF Written, SameCall, Ready, Common
<1> HIDE DEF y
<1>3. /\ Written(c, b, status) /\ b.panic = "none" /\ b.body = "upstream"
      /\ DOMAIN b = Fields
  BY <1>1, <1>2 DEF Written, SameCall, Fields
<1>4. s = [b EXCEPT !.at = IF "cache" \in b.writers THEN "store" ELSE "unwind"]
  BY DEF Return
<1> HIDE DEF b
<1>5. Written(c, p, status) /\ p.panic = "abort" /\ p.at = "unwind" /\ p.body = "upstream"
  BY <1>3 DEF Written, SameCall, Fields
<1> HIDE DEF p, s
<1>6. /\ Written(c, s, status) /\ s.panic = "none" /\ s.body = "upstream"
      /\ s.at = (IF "cache" \in s.writers THEN "store" ELSE "unwind")
  BY <1>3, <1>4 DEF Written, SameCall, Fields
<1>7. Replied(g, c, p) /\ Replied(g, c, s)
  BY <1>5, <1>6, ReadyIsWritable, Zenon DEF Replied
<1>8. Answered(g, p)
  BY <1>5, <1>7, WrittenIsAnswered DEF Ready
<1>9. Answered(g, s)
  BY <1>6, <1>7, WrittenIsAnswered DEF Ready
<1> QED BY <1>8, <1>9 DEF y, p, s, b

\* A status below 100 is kept by the writers and leaves the answer to Recovery.
LEMMA RefusedStatusEffect ==
  ASSUME NEW g, NEW c, Ready(g, c), NEW status \in 1 .. 99
  PROVE  Answered(g, [WriteThrough(c, c.writers, status) EXCEPT !.panic = "other",
                                                                !.at = "unwind"])
<1> DEFINE first(v) == ~isInterim(status) /\ v \in c.writers /\ c.wrote[v] = 0
           wrote == [v \in Writers |-> IF first(v) THEN status ELSE c.wrote[v]]
           w == WriteThrough(c, c.writers, status)
           y == [w EXCEPT !.panic = "other", !.at = "unwind"]
<1>1. /\ DOMAIN c = Fields /\ c.wrote = [v \in Writers |-> 0] /\ DOMAIN c.wrote = Writers
      /\ {"log", "metrics"} \subseteq c.writers /\ "client" \notin c.writers
      /\ c.body = None
  BY DEF Ready, Common, Unwritten
<1>2. first("log") /\ first("metrics") /\ ~first("client")
  BY <1>1 DEF isInterim, Writers
<1>3. /\ DOMAIN wrote = Writers /\ wrote["log"] = status /\ wrote["metrics"] = status
      /\ wrote["client"] = 0
  BY <1>1, <1>2 DEF Writers
<1>4. w = [c EXCEPT !.wrote = wrote,
                    !.sent = IF first("client") THEN c.header ELSE c.sent,
                    !.captured = IF first("cache") THEN c.header ELSE c.captured]
  BY <1>1 DEF WriteThrough
<1> HIDE DEF wrote, first, w
<1>5. /\ SameCall(c, w) /\ w.header = c.header /\ w.body = c.body /\ w.wrote = wrote
      /\ DOMAIN w = Fields
  BY <1>1, <1>4 DEF SameCall, Fields
<1>6. /\ SameCall(c, y) /\ y.header = c.header /\ y.body = c.body /\ y.wrote = wrote
      /\ y.panic = "other" /\ y.at = "unwind"
  BY <1>5 DEF SameCall, Fields
<1> HIDE DEF y
<1>7. Common(g, y)
  BY <1>3, <1>6, WrittenKeepsCommon DEF Ready, Replied
<1>8. Answered(g, y)
  BY <1>1, <1>3, <1>6, <1>7 DEF Answered
<1> QED BY <1>8 DEF y, w

\* A switch of protocols is written past the writers.
LEMMA UpgradeEffect ==
  ASSUME NEW g, NEW c, Ready(g, c), Passed(g, c), Stamped(c), c.header.id # <<>>
  PROVE  Answered(g, [WriteThrough(c, {"client"}, 101) EXCEPT !.body = "upstream",
                                                              !.at = "unwind"])
<1> DEFINE w == WriteThrough(c, {"client"}, 101)
           y == [w EXCEPT !.body = "upstream", !.at = "unwind"]
           wrote == [v \in Writers |-> IF v = "client" THEN 101 ELSE 0]
<1>1. /\ DOMAIN c = Fields /\ c.wrote = [v \in Writers |-> 0]
      /\ DOMAIN c.wrote = Writers /\ c.panic = "none"
  BY DEF Ready, Common, Unwritten
<1>2. /\ SameCall(c, w) /\ w.header = c.header /\ w.panic = c.panic
      /\ w.wrote = wrote /\ w.sent = c.header
  <2>0. ~isInterim(101)
    BY DEF isInterim
  <2>1. \A v \in Writers : (v \in {"client"} /\ c.wrote[v] = 0) <=> v = "client"
    BY <1>1
  <2>2. [v \in Writers |-> IF ~isInterim(101) /\ v \in {"client"} /\ c.wrote[v] = 0 THEN 101
                           ELSE c.wrote[v]] = wrote
    BY <1>1, <2>0, <2>1
  <2>3. "client" \in {"client"} /\ c.wrote["client"] = 0 /\ ~("cache" \in {"client"})
    BY <1>1 DEF Writers
  <2> HIDE DEF wrote
  <2>4. w = [c EXCEPT !.wrote = wrote, !.sent = c.header, !.captured = c.captured]
    BY <1>1, <2>0, <2>2, <2>3, Zenon DEF WriteThrough
  <2> HIDE DEF w
  <2> QED BY <1>1, <2>4 DEF SameCall, Fields
<1>3. DOMAIN w = Fields
  BY <1>1, <1>2 DEF SameCall
<1>4. /\ DOMAIN wrote = Writers /\ wrote["client"] = 101 /\ wrote["log"] = 0
      /\ wrote["metrics"] = 0
  BY DEF Writers
<1> HIDE DEF w, wrote
<1>5. /\ SameCall(c, y) /\ y.header = c.header /\ y.panic = c.panic
      /\ y.wrote = wrote /\ y.sent = c.header /\ y.at = "unwind" /\ y.body = "upstream"
  BY <1>2, <1>3 DEF SameCall, Fields
<1> HIDE DEF y
<1>6. Replied(g, c, y)
  BY <1>5, ReadyIsWritable DEF Replied
<1>7. Common(g, y)
  BY <1>4, <1>5, <1>6, WrittenKeepsCommon DEF Ready
<1>8. Answered(g, y)
  BY <1>1, <1>4, <1>5, <1>7 DEF Answered
<1> QED BY <1>8 DEF y, w

\* A handler that panics leaves the answer to Recovery.
LEMMA PanicEffect ==
  ASSUME NEW g, NEW x, Handling(g, x)
  PROVE  Answered(g, [[x EXCEPT !.panic = "other"] EXCEPT !.at = "unwind"])
<1> DEFINE p == [x EXCEPT !.panic = "other"]
           y == [p EXCEPT !.at = "unwind"]
<1>1. DOMAIN x = Fields /\ x.wrote = [w \in Writers |-> 0] /\ x.body = None
  BY DEF Handling, Common, Unwritten
<1>2. /\ SameCall(x, p) /\ p.header = x.header /\ p.wrote = x.wrote /\ p.body = x.body
      /\ p.panic = "other" /\ DOMAIN p = Fields
  BY <1>1 DEF SameCall, Fields
<1> HIDE DEF p
<1>3. /\ SameCall(x, y) /\ y.header = x.header /\ y.wrote = x.wrote /\ y.body = x.body
      /\ y.panic = "other" /\ y.at = "unwind"
  BY <1>2 DEF SameCall, Fields
<1> HIDE DEF y
<1>4. DOMAIN y.wrote = Writers /\ y.wrote["log"] = y.wrote["metrics"]
  BY <1>1, <1>3 DEF Writers
<1>5. Common(g, y)
  BY <1>3, <1>4, WrittenKeepsCommon DEF Handling, Replied
<1>6. Answered(g, y)
  BY <1>1, <1>3, <1>4, <1>5 DEF Answered, Unwritten, Writers
<1> QED BY <1>6 DEF y, p

\* cacheResponses returns to the handlers outside it.
LEMMA StoreReturns ==
  ASSUME NEW g, NEW x, Answered(g, x)
  PROVE  Answered(g, [x EXCEPT !.at = "unwind"])
<1> DEFINE y == [x EXCEPT !.at = "unwind"]
<1>1. DOMAIN x = Fields /\ DOMAIN x.wrote = Writers
  BY DEF Answered, Common
<1>2. /\ SameCall(x, y) /\ y.header = x.header /\ y.wrote = x.wrote /\ y.body = x.body
      /\ y.panic = x.panic /\ y.sent = x.sent /\ y.at = "unwind"
  BY <1>1 DEF SameCall, Fields
<1> HIDE DEF y
<1>3. Common(g, y)
  BY <1>1, <1>2, WrittenKeepsCommon DEF Answered, Replied
<1>4. Answered(g, y)
  BY <1>2, <1>3, Zenon DEF Answered, Unwritten
<1> QED BY <1>4 DEF y

-----------------------------------------------------------------------------
(* The deferred functions.                                                  *)

\* What the deferred functions of recorder and logger do to an exchange.
Reported(x, y) ==
  /\ DOMAIN y = Fields
  /\ y.request = x.request /\ y.route = x.route /\ y.charged = x.charged
  /\ y.meta = x.meta /\ y.ctx = x.ctx /\ y.body = x.body
  /\ y.writers = x.writers /\ y.wrote = x.wrote /\ y.sent = x.sent
  /\ y.header = x.header /\ y.panic = x.panic
  /\ y.forwarded = x.forwarded /\ y.backend = x.backend
  /\ y.informed = x.informed
  /\ Len(y.log) = 1 /\ Len(y.metric) = 1
  /\ y.metric[1].status = statusOf(x, "metrics")
  /\ y.metric[1].route = x.route
  /\ y.log[1].status = statusOf(x, "log")
  /\ y.log[1].id = x.idHeader
  /\ y.log[1].backend = x.backend

\* The measurement and the event are made once each, from the one metadata
\* instance and the statuses the writers saw.
LEMMA ReportedEffect ==
  ASSUME NEW g, NEW x, Answered(g, x), x.at = "unwind"
  PROVE  Reported(x, logCompletedRequest(observe(x)))
<1> DEFINE method == metricMethod(x.request.method)
           measured == statusOf(x, "metrics")
           m == [method |-> method, route |-> Route(x, x.metricCtx), status |-> measured]
           o == observe(x)
           logged == statusOf(o, "log")
           e == [id |-> RequestID(o, o.logCtx), backend |-> Backend(o, o.logCtx),
                 status |-> logged]
           y == logCompletedRequest(o)
<1>1. DOMAIN x = Fields /\ OneMeta(x) /\ x.log = <<>> /\ x.metric = <<>>
  BY DEF Answered, Common
<1>2. o = [x EXCEPT !.metric = Append(x.metric, m)]
  BY DEF observe
<1>3. m.route = x.route /\ m.status = measured
  BY <1>1 DEF OneMeta, Route
<1> HIDE DEF m, method
<1>4. Append(x.metric, m) = <<m>>
  BY <1>1
<1>5. o = [x EXCEPT !.metric = <<m>>]
  BY <1>2, <1>4
<1> HIDE DEF o, measured
<1>6. /\ DOMAIN o = Fields /\ o.metric = <<m>> /\ o.log = <<>>
      /\ o.request = x.request /\ o.route = x.route /\ o.charged = x.charged
      /\ o.meta = x.meta /\ o.ctx = x.ctx /\ o.body = x.body
      /\ o.writers = x.writers /\ o.wrote = x.wrote /\ o.sent = x.sent
      /\ o.header = x.header /\ o.panic = x.panic /\ o.logCtx = x.logCtx
      /\ o.forwarded = x.forwarded /\ o.backend = x.backend /\ o.informed = x.informed
  BY <1>1, <1>5 DEF Fields
<1>7. y = [o EXCEPT !.log = Append(o.log, e)]
  BY DEF logCompletedRequest
<1>8. e.id = x.idHeader /\ e.backend = x.backend /\ e.status = logged
  BY <1>1, <1>6 DEF OneMeta, RequestID, Backend
<1>9. logged = statusOf(x, "log")
  BY <1>6 DEF statusOf
<1> HIDE DEF e, y, logged
<1>10. Append(o.log, e) = <<e>>
  BY <1>6
<1>11. y = [o EXCEPT !.log = <<e>>]
  BY <1>7, <1>10
<1>12. /\ DOMAIN y = Fields /\ y.metric = <<m>> /\ y.log = <<e>>
       /\ y.request = x.request /\ y.route = x.route /\ y.charged = x.charged
       /\ y.meta = x.meta /\ y.ctx = x.ctx /\ y.body = x.body
       /\ y.writers = x.writers /\ y.wrote = x.wrote /\ y.sent = x.sent
       /\ y.header = x.header /\ y.panic = x.panic
       /\ y.forwarded = x.forwarded /\ y.backend = x.backend /\ y.informed = x.informed
  BY <1>6, <1>11 DEF Fields
<1>13. /\ y.metric[1] = m /\ y.log[1] = e /\ Len(y.log) = 1 /\ Len(y.metric) = 1
  BY <1>12
<1> QED BY <1>3, <1>8, <1>9, <1>12, <1>13, Zenon DEF Reported, y, o, measured

\* Recovery writes the response of a handler that panicked, and no other.
LEMMA RecoveryEffect ==
  ASSUME NEW y, DOMAIN y = Fields, DOMAIN y.wrote = Writers,
         y.panic = "other" => y.wrote["client"] = 0
  PROVE  LET z == [Recovery(y) EXCEPT !.at = "done"]
         IN  /\ z.at = "done"
             /\ z.request = y.request /\ z.route = y.route /\ z.charged = y.charged
             /\ z.meta = y.meta /\ z.ctx = y.ctx /\ z.writers = y.writers
             /\ z.forwarded = y.forwarded /\ z.backend = y.backend /\ z.informed = y.informed
             /\ z.log = y.log /\ z.metric = y.metric
             /\ y.panic # "other" =>
                  z.wrote = y.wrote /\ z.sent = y.sent /\ z.body = y.body
             /\ y.panic = "other" =>
                  z.wrote["client"] = 500 /\ z.sent = y.header /\ z.body = "gateway"
<1> DEFINE w == WriteThrough(y, {"client"}, 500)
           p == [w EXCEPT !.body = "gateway", !.panic = "none"]
           z == [Recovery(y) EXCEPT !.at = "done"]
           wrote == [v \in Writers |-> IF ~isInterim(500) /\ v \in {"client"} /\ y.wrote[v] = 0
                                       THEN 500 ELSE y.wrote[v]]
<1>1. CASE y.panic # "other"
  <2>1. z = [y EXCEPT !.at = "done"]
    BY <1>1 DEF Recovery
  <2> HIDE DEF z
  <2>2. /\ z.at = "done"
        /\ z.request = y.request /\ z.route = y.route /\ z.charged = y.charged
        /\ z.meta = y.meta /\ z.ctx = y.ctx /\ z.writers = y.writers
        /\ z.forwarded = y.forwarded /\ z.backend = y.backend /\ z.informed = y.informed
        /\ z.log = y.log /\ z.metric = y.metric
        /\ z.wrote = y.wrote /\ z.sent = y.sent /\ z.body = y.body
    BY <2>1 DEF Fields
  <2> QED BY <1>1, <2>2 DEF z
<1>2. CASE y.panic = "other"
  <2>1. /\ "client" \in {"client"} /\ y.wrote["client"] = 0 /\ ~("cache" \in {"client"})
        /\ ~isInterim(500)
    BY <1>2 DEF isInterim
  <2>2. wrote["client"] = 500
    BY <2>1 DEF Writers
  <2>3. w = [y EXCEPT !.wrote = wrote, !.sent = y.header, !.captured = y.captured]
    BY <2>1 DEF WriteThrough
  <2> HIDE DEF wrote, w
  <2>4. /\ DOMAIN w = Fields /\ w.wrote = wrote /\ w.sent = y.header
        /\ w.request = y.request /\ w.route = y.route /\ w.charged = y.charged
        /\ w.meta = y.meta /\ w.ctx = y.ctx /\ w.writers = y.writers
        /\ w.forwarded = y.forwarded /\ w.backend = y.backend /\ w.informed = y.informed
        /\ w.log = y.log /\ w.metric = y.metric
    BY <2>3 DEF Fields
  <2>5. z = [p EXCEPT !.at = "done"]
    BY <1>2 DEF Recovery, w
  <2>6. /\ DOMAIN p = Fields /\ p.wrote = wrote /\ p.sent = y.header /\ p.body = "gateway"
        /\ p.request = y.request /\ p.route = y.route /\ p.charged = y.charged
        /\ p.meta = y.meta /\ p.ctx = y.ctx /\ p.writers = y.writers
        /\ p.forwarded = y.forwarded /\ p.backend = y.backend /\ p.informed = y.informed
        /\ p.log = y.log /\ p.metric = y.metric
    BY <2>4 DEF Fields
  <2> HIDE DEF p, z
  <2>7. /\ z.at = "done" /\ z.wrote = wrote /\ z.sent = y.header /\ z.body = "gateway"
        /\ z.request = y.request /\ z.route = y.route /\ z.charged = y.charged
        /\ z.meta = y.meta /\ z.ctx = y.ctx /\ z.writers = y.writers
        /\ z.forwarded = y.forwarded /\ z.backend = y.backend /\ z.informed = y.informed
        /\ z.log = y.log /\ z.metric = y.metric
    BY <2>5, <2>6 DEF Fields
  <2> QED BY <1>2, <2>2, <2>7 DEF z
<1> QED BY <1>1, <1>2

\* The deferred functions complete the exchange.
LEMMA CompleteEffect ==
  ASSUME NEW g, NEW x, Answered(g, x), x.at = "unwind"
  PROVE  Completed(g, [Recovery(logCompletedRequest(observe(x))) EXCEPT !.at = "done"])
<1> DEFINE y == logCompletedRequest(observe(x))
           z == [Recovery(y) EXCEPT !.at = "done"]
<1>1. Reported(x, y)
  BY ReportedEffect
<1> HIDE DEF y
<1>2. DOMAIN y.wrote = Writers /\ (y.panic = "other" => y.wrote["client"] = 0)
  BY <1>1 DEF Answered, Common, Reported
<1>3. /\ z.at = "done"
      /\ z.request = y.request /\ z.route = y.route /\ z.charged = y.charged
      /\ z.meta = y.meta /\ z.ctx = y.ctx /\ z.writers = y.writers
      /\ z.forwarded = y.forwarded /\ z.backend = y.backend /\ z.informed = y.informed
      /\ z.log = y.log /\ z.metric = y.metric
      /\ y.panic # "other" => z.wrote = y.wrote /\ z.sent = y.sent /\ z.body = y.body
      /\ y.panic = "other" =>
           z.wrote["client"] = 500 /\ z.sent = y.header /\ z.body = "gateway"
  <2>1. DOMAIN y = Fields
    BY <1>1 DEF Reported
  <2> QED BY <1>2, <2>1, RecoveryEffect
<1> HIDE DEF z
<1>4. /\ z.at = "done" /\ z.request = x.request
      /\ z.route = x.route /\ z.charged = x.charged
      /\ z.meta = x.meta /\ z.ctx = x.ctx /\ z.writers = x.writers
      /\ z.forwarded = x.forwarded /\ z.backend = x.backend /\ z.informed = x.informed
      /\ Len(z.log) = 1 /\ Len(z.metric) = 1
      /\ z.metric[1].route = x.route
      /\ z.log[1].id = x.idHeader /\ z.log[1].backend = x.backend
  BY <1>1, <1>3 DEF Reported
<1>5. /\ z.log[1].status = statusOf(x, "log")
      /\ z.metric[1].status = statusOf(x, "metrics")
      /\ x.panic # "other" => z.wrote = x.wrote /\ z.sent = x.sent /\ z.body = x.body
      /\ x.panic = "other" =>
           z.wrote["client"] = 500 /\ z.sent = x.header /\ z.body = "gateway"
  BY <1>1, <1>3 DEF Reported
<1>6. /\ Own(g, z) = Own(g, x) /\ (Entitled(g, z) <=> Entitled(g, x))
      /\ Passed(g, z) <=> Passed(g, x)
      /\ Authorised(g, z) <=> Authorised(g, x)
  BY <1>4 DEF Own, Entitled, Passed, Authorised
<1>7. z.sent = x.header
  BY <1>5 DEF Answered
<1>8. z.body = x.body \/ (z.body = "gateway" /\ x.body # "cache")
  BY <1>5, MessagesWellTyped DEF Answered
<1>9. HeaderOK(g, x) /\ Policy(g, x) /\ x.forwarded \subseteq {x.idHeader} /\ OneMeta(x)
  BY DEF Answered, Common
<1>10. /\ z.metric[1].status = z.log[1].status
       /\ z.wrote["client"] # 101 =>
            z.wrote["client"] = IF z.log[1].status < 100 THEN 500 ELSE z.log[1].status
  <2>0. x.wrote["log"] = x.wrote["metrics"]
    BY DEF Answered
  <2>1. CASE x.panic = "other"
    <3>1. x.wrote["log"] \in 0 .. 99
      BY <2>1 DEF Answered
    <3>2. /\ statusOf(x, "metrics") = statusOf(x, "log")
          /\ statusOf(x, "log") = IF x.wrote["log"] = 0 THEN 500 ELSE x.wrote["log"]
      BY <2>0, <2>1 DEF statusOf
    <3> QED BY <1>5, <2>1, <3>1, <3>2
  <2>2. CASE x.panic # "other"
    <3>1. statusOf(x, "metrics") = statusOf(x, "log")
      BY <2>0 DEF statusOf
    <3>2. x.wrote["client"] # 101 =>
            x.wrote["log"] = x.wrote["client"] /\ Final(x.wrote["log"])
      BY <2>2 DEF Answered
    <3>3. x.wrote["client"] # 101 =>
            statusOf(x, "log") = x.wrote["client"] /\ ~(statusOf(x, "log") < 100)
      BY <3>2 DEF statusOf, Final
    <3> QED BY <1>5, <2>2, <3>1, <3>3
  <2> QED BY <2>1, <2>2
<1>11. Policy(g, z)
  BY <1>4, <1>6, <1>8, <1>9 DEF Policy
<1>12. Len(z.meta) = 1 /\ z.ctx = 1
  BY <1>4, <1>9 DEF OneMeta
<1>13. z.sent.cacheStatus = CacheStatus(z)
  BY <1>4, <1>7, <1>8, <1>9 DEF HeaderOK, CacheStatus
<1>14. /\ z.sent.id \in {<<>>, <<z.log[1].id>>, <<z.log[1].id, z.log[1].id>>}
       /\ z.sent.id = <<>> => z.informed /\ z.body = "gateway"
       /\ z.body = "upstream" =>
            z.sent.id = IF z.informed THEN <<z.log[1].id>> ELSE <<z.log[1].id, z.log[1].id>>
  <2>1. Identified(x) /\ (x.header.id = <<>> => x.panic = "other")
    BY <1>9 DEF HeaderOK, Answered
  <2> QED BY <1>4, <1>5, <1>7, <1>8, <2>1 DEF Identified, Stamped
<1>15. /\ Range(z.sent.grant) \subseteq {Own(g, z), "upstream"}
       /\ Entitled(g, z) =>
           IF z.body = "cache" THEN Range(z.sent.grant) # {}
           ELSE Own(g, z) \in Range(z.sent.grant) <=> ~z.informed
  <2>1. GrantOK(g, x)
    BY <1>9 DEF HeaderOK
  <2>2. \A S : \A t \in Seq(S) : Range(t) \subseteq S
    BY DEF Range
  <2>3. Range(x.header.grant) \subseteq {Own(g, x), "upstream"}
    BY <2>1, <2>2 DEF GrantOK
  <2>4. (z.body = "cache") <=> (x.body = "cache")
    BY <1>8
  <2> QED BY <1>4, <1>6, <1>7, <2>1, <2>3, <2>4 DEF GrantOK
<1>16. /\ z.at = "done" /\ Len(z.log) = 1 /\ Len(z.metric) = 1
       /\ z.forwarded \subseteq {z.log[1].id}
       /\ z.log[1].backend = z.backend /\ z.metric[1].route = z.route
  BY <1>4, <1>9
<1>17. Completed(g, z)
  BY <1>10, <1>11, <1>12, <1>13, <1>14, <1>15, <1>16, Zenon DEF Completed
<1> QED BY <1>17 DEF z, y

-----------------------------------------------------------------------------
(* The invariant.                                                           *)

\* Where an exchange is says what is known of it.
LEMMA WhereAnExchangeIs ==
  ASSUME NEW g, NEW x, XInv(g, x)
  PROVE  /\ x.at = "handler" => Handling(g, x)
         /\ x.at \in {"store", "unwind"} => Answered(g, x)
         /\ x.at = "done" => Completed(g, x)
<1>1. x = Idle => x.at = "idle"
  BY DEF Idle
<1>2. /\ Handling(g, x) => x.at = "handler"
      /\ Answered(g, x) => x.at \in {"store", "unwind"}
      /\ Completed(g, x) => x.at = "done"
  BY Zenon DEF Handling, Answered, Completed
<1> QED BY <1>1, <1>2 DEF XInv

\* A step of one exchange concerns no other.
LEMMA ExchangeStep ==
  ASSUME PInv, NEW r \in Requests, NEW y, ex' = [ex EXCEPT ![r] = y],
         UNCHANGED gateway, XInv(gateway, y)
  PROVE  /\ gateway' \in Gateways
         /\ DOMAIN ex' = Requests
         /\ \A q \in Requests : XInv(gateway', ex'[q])
<1>1. gateway \in Gateways /\ DOMAIN ex = Requests /\ \A q \in Requests : XInv(gateway, ex[q])
  BY DEF PInv
<1>2. DOMAIN ex' = Requests /\ \A q \in Requests : ex'[q] = IF q = r THEN y ELSE ex[q]
  BY <1>1
<1> QED BY <1>1, <1>2

\* A step of one exchange that touches neither the limiters nor the caches.
LEMMA LonelyStep ==
  ASSUME PInv, NEW r \in Requests, NEW y, ex' = [ex EXCEPT ![r] = y],
         UNCHANGED <<gateway, tokens, cache>>, XInv(gateway, y)
  PROVE  PInv'
<1>1. /\ gateway' \in Gateways /\ DOMAIN ex' = Requests
      /\ \A q \in Requests : XInv(gateway', ex'[q])
  BY ExchangeStep, Zenon
<1>2. gateway' = gateway /\ tokens' = tokens /\ cache' = cache
  OBVIOUS
<1>3. Buckets' = Buckets
  BY <1>2 DEF Buckets
<1>4. Stored'
  BY <1>2 DEF PInv, Stored
<1> QED BY <1>1, <1>2, <1>3, <1>4 DEF PInv

\* A bucket's capacity is a number.
LEMMA BurstIsNatural ==
  ASSUME gateway \in Gateways, NEW b \in Buckets
  PROVE  gateway.routes[b[1]].burst \in Nat
<1>1. PICK i \in DOMAIN gateway.routes, c \in Clients : b = <<i, c>>
  BY DEF Buckets
<1>2. gateway.routes \in Seq(BuiltRoute)
  BY GatewaysWellTyped DEF WellBuilt
<1>3. \A t \in BuiltRoute : t.burst \in Nat
  BY DEF BuiltRoute
<1>4. gateway.routes[i].burst \in Nat
  BY <1>1, <1>2, <1>3
<1>5. b[1] = i
  BY <1>1
<1> QED BY <1>4, <1>5

\* Nothing has happened yet.
LEMMA PInvInit == Init => PInv
<1> SUFFICES ASSUME Init PROVE PInv
  OBVIOUS
<1>1. gateway \in Gateways /\ DOMAIN ex = Requests
  BY DEF Init
<1>2. \A r \in Requests : XInv(gateway, ex[r])
  BY DEF Init, XInv
<1>3. ASSUME NEW b \in Buckets PROVE tokens[b] \in 0 .. gateway.routes[b[1]].burst
  <2>1. gateway.routes[b[1]].burst \in Nat
    BY <1>1, BurstIsNatural
  <2>2. tokens[b] = gateway.routes[b[1]].burst
    BY DEF Init
  <2> QED BY <2>1, <2>2
<1>4. DOMAIN tokens = Buckets
  BY DEF Init
<1>5. DOMAIN cache = DOMAIN gateway.routes /\ \A i \in DOMAIN cache : cache[i] = {}
  BY DEF Init
<1> QED BY <1>1, <1>2, <1>3, <1>4, <1>5 DEF PInv, Stored

\* The limiter takes a token of the request's own bucket.
LEMMA RateLimitStep ==
  ASSUME PInv, NEW r \in Requests, rateLimit(r)
  PROVE  PInv'
<1> DEFINE x == ex[r]
           b == <<x.route, x.request.client>>
           y == [Delegate(x) EXCEPT !.charged = TRUE]
<1>1. DOMAIN ex = Requests /\ XInv(gateway, x)
  BY DEF PInv
<1>2. x.at = "handler" /\ Head(x.todo) = "limit" /\ UNCHANGED <<gateway, cache>>
  BY DEF rateLimit, Enters
<1>3. Handling(gateway, x)
  BY <1>1, <1>2, WhereAnExchangeIs
<1>4. Handling(gateway, y) /\ Answered(gateway, Error(x, 429))
  BY <1>2, <1>3, RateLimitEffect
<1>5. CASE tokens[b] > 0
  <2>1. tokens' = [tokens EXCEPT ![b] = tokens[b] - 1] /\ ex' = [ex EXCEPT ![r] = y]
    BY <1>1, <1>5 DEF rateLimit
  <2> HIDE DEF y
  <2>2. XInv(gateway, y)
    BY <1>4 DEF XInv
  <2>3. /\ gateway' \in Gateways /\ DOMAIN ex' = Requests
        /\ \A q \in Requests : XInv(gateway', ex'[q])
    BY <1>2, <2>1, <2>2, ExchangeStep, Zenon
  <2>4. Buckets' = Buckets
    BY <1>2 DEF Buckets
  <2>5. DOMAIN tokens' = Buckets
    BY <2>1 DEF PInv
  <2>6. ASSUME NEW c \in Buckets PROVE tokens'[c] \in 0 .. gateway.routes[c[1]].burst
    <3> HIDE DEF b
    <3>1. tokens[c] \in 0 .. gateway.routes[c[1]].burst /\ c \in DOMAIN tokens
      BY DEF PInv
    <3>2. tokens'[c] = IF c = b THEN tokens[c] - 1 ELSE tokens[c]
      BY <2>1, <3>1
    <3> DEFINE t == tokens[c]
               u == gateway.routes[c[1]].burst
    <3>3. c = b => t > 0
      BY <1>5
    <3>4. t \in 0 .. u /\ tokens'[c] = IF c = b THEN t - 1 ELSE t
      BY <3>1, <3>2
    <3>5. u \in Nat
      BY BurstIsNatural DEF PInv
    <3> HIDE DEF t, u
    <3>6. tokens'[c] \in 0 .. u
      BY <3>3, <3>4, <3>5
    <3> QED BY <3>6 DEF u
  <2> QED BY <1>2, <2>3, <2>4, <2>5, <2>6 DEF PInv, Stored
<1>6. CASE ~(tokens[b] > 0)
  <2>1. ex' = [ex EXCEPT ![r] = Error(x, 429)] /\ UNCHANGED tokens
    BY <1>1, <1>6 DEF rateLimit
  <2>2. XInv(gateway, Error(x, 429))
    BY <1>4 DEF XInv
  <2> QED BY <1>2, <2>1, <2>2, LonelyStep, Zenon
<1> QED BY <1>5, <1>6

\* A lookup is answered by what Stored allows, and changes no cache.
LEMMA CacheResponsesStep ==
  ASSUME PInv, NEW r \in Requests, cacheResponses(r)
  PROVE  PInv'
<1> DEFINE x == ex[r]
           found == {c \in cache[x.route] : c.path = x.request.path}
           hit == CHOOSE c \in found : TRUE
           miss == [Delegate(x) EXCEPT !.header.cacheStatus = <<"MISS">>,
                                       !.writers = @ \union {"cache"}]
           y == IF ~isCacheableRequest(x.request) THEN Delegate(x)
                ELSE IF found # {} THEN writeCachedResponse(x, hit) ELSE miss
<1>1. XInv(gateway, x)
  BY DEF PInv
<1>2. /\ x.at = "handler" /\ Head(x.todo) = "cache"
      /\ UNCHANGED <<gateway, tokens, cache>> /\ ex' = [ex EXCEPT ![r] = y]
  BY DEF cacheResponses, Enters
<1>3. Handling(gateway, x)
  BY <1>1, <1>2, WhereAnExchangeIs
<1>4. Handling(gateway, Delegate(x)) /\ Handling(gateway, miss) /\ Passed(gateway, x)
  BY <1>2, <1>3, LookupEffect, Zenon
<1>5. x.route \in DOMAIN cache
  BY <1>3, Zenon DEF Handling, Common, PInv
<1>6. found # {} => Answered(gateway, writeCachedResponse(x, hit))
  <2> SUFFICES ASSUME found # {} PROVE Answered(gateway, writeCachedResponse(x, hit))
    OBVIOUS
  <2>1. hit \in found
    OBVIOUS
  <2>2. hit \in cache[x.route]
    BY <2>1
  <2> HIDE DEF hit
  <2>3. hit.header.grant \in Seq(Shared(gateway))
    BY <1>5, <2>2 DEF PInv, Stored
  <2>4. Head(x.todo) # "proxy"
    BY <1>2
  <2> QED BY <1>3, <1>4, <2>3, <2>4, ReplayEffect
<1>7. y = Delegate(x) \/ (found # {} /\ y = writeCachedResponse(x, hit)) \/ y = miss
  OBVIOUS
<1> HIDE DEF y, found, hit, miss
<1>8. XInv(gateway, y)
  BY <1>4, <1>6, <1>7 DEF XInv
<1> QED BY <1>2, <1>8, LonelyStep, Zenon

\* Only a response that any request may have is stored.
LEMMA CacheStoreStep ==
  ASSUME PInv, NEW r \in Requests, cacheStore(r)
  PROVE  PInv'
<1> DEFINE x == ex[r]
           i == x.route
           header == [x.captured EXCEPT !.id = <<>>, !.cacheStatus = <<>>]
           stored == [path |-> x.request.path, header |-> header]
           others == {c \in cache[i] : c.path # x.request.path}
           recording == /\ x.wrote["cache"] = 200
                        /\ ~responseHeadersPreventCaching(x.captured)
           entries == IF recording THEN others \union {stored} ELSE cache[i]
           y == [x EXCEPT !.at = "unwind"]
<1>1. DOMAIN ex = Requests /\ XInv(gateway, x)
  BY DEF PInv
<1>2. /\ x.at = "store" /\ UNCHANGED <<gateway, tokens>>
      /\ cache' = [cache EXCEPT ![i] = entries]
      /\ ex' = [ex EXCEPT ![r] = y]
  BY <1>1 DEF cacheStore
<1>3. Answered(gateway, x)
  BY <1>1, <1>2, WhereAnExchangeIs
<1>4. XInv(gateway, y)
  BY <1>3, StoreReturns DEF XInv
<1>5. /\ "cache" \in x.writers /\ x.captured = x.header /\ HeaderOK(gateway, x)
      /\ i \in DOMAIN gateway.routes /\ gateway.routes[i].cached
  BY <1>2, <1>3 DEF Answered, Common
<1>6. recording => stored.header.grant \in Seq(Shared(gateway))
  <2>1. header.grant = x.captured.grant
    BY <1>5 DEF HeaderOK, HeaderFields
  <2>2. ~x.captured.bars => x.captured.grant \in Seq(Shared(gateway))
    BY <1>5 DEF HeaderOK, GrantOK
  <2>3. stored.header = header
    OBVIOUS
  <2> QED BY <2>1, <2>2, <2>3, Zenon DEF responseHeadersPreventCaching
<1> HIDE DEF y, stored, recording
<1>7. \A c \in entries : c.header.grant \in Seq(Shared(gateway))
  BY <1>5, <1>6 DEF PInv, Stored
<1> HIDE DEF entries, x
<1>8. /\ gateway' \in Gateways /\ DOMAIN ex' = Requests
      /\ \A q \in Requests : XInv(gateway', ex'[q])
  BY <1>2, <1>4, ExchangeStep, Zenon
<1>9. Buckets' = Buckets
  BY <1>2 DEF Buckets
<1>10. /\ DOMAIN cache = DOMAIN gateway.routes
       /\ \A j \in DOMAIN cache : ~gateway.routes[j].cached => cache[j] = {}
       /\ \A j \in DOMAIN cache : \A c \in cache[j] : c.header.grant \in Seq(Shared(gateway))
  BY DEF PInv, Stored
<1> HIDE DEF i
<1>11. /\ DOMAIN cache' = DOMAIN cache
       /\ \A j \in DOMAIN cache : cache'[j] = IF j = i THEN entries ELSE cache[j]
  BY <1>2
<1>12. /\ DOMAIN cache' = DOMAIN gateway'.routes
       /\ \A j \in DOMAIN cache' : ~gateway'.routes[j].cached => cache'[j] = {}
  BY <1>2, <1>5, <1>10, <1>11
<1>13. \A j \in DOMAIN cache' : \A c \in cache'[j] :
         c.header.grant \in Seq(Shared(gateway'))
  BY <1>2, <1>7, <1>10, <1>11
<1> QED BY <1>2, <1>8, <1>9, <1>12, <1>13 DEF PInv, Stored

\* Forgetting a response leaves those that were stored before.
LEMMA ForgetStep ==
  ASSUME PInv, NEW i \in DOMAIN cache, Forget(i)
  PROVE  PInv'
<1>1. PICK c \in cache[i] : cache' = [cache EXCEPT ![i] = cache[i] \ {c}]
  BY Zenon DEF Forget
<1>2. UNCHANGED <<gateway, ex, tokens>>
  BY DEF Forget
<1>3. Buckets' = Buckets
  BY <1>2 DEF Buckets
<1>4. /\ DOMAIN cache' = DOMAIN cache
      /\ \A j \in DOMAIN cache : cache'[j] \subseteq cache[j]
  BY <1>1
<1> QED BY <1>2, <1>3, <1>4 DEF PInv, Stored

\* A bucket refills no further than its burst.
LEMMA RefillStep ==
  ASSUME PInv, NEW b \in Buckets, Refill(b)
  PROVE  PInv'
<1> DEFINE u(c) == gateway.routes[c[1]].burst
<1>1. /\ tokens[b] < u(b) /\ tokens' = [tokens EXCEPT ![b] = tokens[b] + 1]
      /\ UNCHANGED <<gateway, ex, cache>>
  BY DEF Refill
<1>2. Buckets' = Buckets
  BY <1>1 DEF Buckets
<1>3. DOMAIN tokens' = Buckets
  BY <1>1 DEF PInv
<1>4. ASSUME NEW c \in Buckets PROVE tokens'[c] \in 0 .. u(c)
  <2>1. tokens[c] \in 0 .. u(c) /\ c \in DOMAIN tokens
    BY DEF PInv
  <2>2. u(c) \in Nat
    BY BurstIsNatural DEF PInv
  <2>3. tokens'[c] = IF c = b THEN tokens[c] + 1 ELSE tokens[c]
    BY <1>1, <2>1
  <2> HIDE DEF u
  <2> QED BY <1>1, <2>1, <2>2, <2>3
<1> QED BY <1>1, <1>2, <1>3, <1>4 DEF PInv, Stored

\* An exchange goes on to the next handler of its route, or is answered, after
\* its key has been looked up.
LEMMA APIKeyAuthStep ==
  ASSUME PInv, NEW r \in Requests, APIKeyAuth(r)
  PROVE  PInv'
<1> DEFINE x == ex[r]
           y == IF x.request.apiKey \in Range(gateway.apiKeys) THEN Delegate(x)
                ELSE Error(x, 401)
<1>1. DOMAIN ex = Requests /\ XInv(gateway, x)
  BY DEF PInv
<1>2. /\ x.at = "handler" /\ Head(x.todo) = "auth"
      /\ UNCHANGED <<gateway, tokens, cache>>
  BY DEF APIKeyAuth, Enters
<1>3. ex' = [ex EXCEPT ![r] = y]
  BY <1>1 DEF APIKeyAuth
<1>4. Handling(gateway, x)
  BY <1>1, <1>2, WhereAnExchangeIs
<1>5. Handling(gateway, y) \/ Answered(gateway, y)
  BY <1>2, <1>4, APIKeyAuthEffect
<1> HIDE DEF y
<1> QED BY <1>2, <1>3, <1>5, LonelyStep, Zenon DEF XInv

\* The proxy handler is entered with the policy met.
LEMMA ProxyEntered ==
  ASSUME PInv, NEW r \in Requests, Enters(r, "proxy")
  PROVE  /\ DOMAIN ex = Requests
         /\ Handling(gateway, ex[r]) /\ Ready(gateway, ex[r])
         /\ Handling(gateway, Forwarded(ex[r])) /\ Ready(gateway, Forwarded(ex[r]))
         /\ Passed(gateway, Forwarded(ex[r]))
         /\ Forwarded(ex[r]).backend = TRUE /\ Head(Forwarded(ex[r]).todo) = "proxy"
<1>1. DOMAIN ex = Requests /\ XInv(gateway, ex[r])
  BY DEF PInv
<1>2. ex[r].at = "handler" /\ Head(ex[r].todo) = "proxy"
  BY DEF Enters
<1>3. Handling(gateway, ex[r])
  BY <1>1, <1>2, WhereAnExchangeIs
<1>4. Stage(gateway, ex[r]) /\ Ready(gateway, ex[r]) /\ DOMAIN ex[r] = Fields
  BY <1>3, Zenon DEF Handling, Ready, Common
<1>5. Passed(gateway, ex[r])
  BY <1>2, <1>4, StageOfHead
<1>6. Handling(gateway, Forwarded(ex[r])) /\ Passed(gateway, Forwarded(ex[r]))
  BY <1>3, <1>5, ForwardedEffect
<1>7. Forwarded(ex[r]).backend = TRUE /\ Forwarded(ex[r]).todo = ex[r].todo
  <2> DEFINE s == SetBackend(ex[r])
  <2>1. DOMAIN s = Fields /\ s.todo = ex[r].todo
    BY <1>4 DEF SetBackend, Fields
  <2>2. Forwarded(ex[r]) = [s EXCEPT !.backend = TRUE,
                                     !.forwarded = {RequestID(ex[r], ex[r].ctx)}]
    BY DEF Forwarded
  <2> HIDE DEF s
  <2> QED BY <2>1, <2>2 DEF Fields
<1> QED BY <1>1, <1>2, <1>3, <1>4, <1>6, <1>7, Zenon DEF Handling, Ready

\* ErrorHandler puts the identifier back before it answers.
LEMMA ErrorHandlerAnswers ==
  ASSUME NEW g, NEW x, Ready(g, x), NEW status, Final(status)
  PROVE  Answered(g, Return(Error([x EXCEPT !.header.id = <<RequestID(x, x.ctx)>>],
                                  status)))
<1> DEFINE y == [x EXCEPT !.header.id = <<RequestID(x, x.ctx)>>]
<1>1. Ready(g, y) /\ y.header.id # <<>>
  BY RestampKeepsReady, Zenon
<1> HIDE DEF y
<1>2. Answered(g, Return(Error(y, status)))
  BY <1>1, ErrorAnswers
<1> QED BY <1>2 DEF y

\* The gateway answers for a pool that refuses and an upstream that fails.
LEMMA ProxyErrorStep ==
  ASSUME PInv, NEW r \in Requests,
         Unavailable(r) \/ \E status \in {502, 504} : UpstreamFails(r, status)
  PROVE  PInv'
<1>1. CASE Unavailable(r)
  <2> DEFINE y == Return(Error(ex[r], 503))
  <2>0. Enters(r, "proxy")
    BY <1>1 DEF Unavailable
  <2>1. ~ex[r].backend /\ UNCHANGED <<gateway, tokens, cache>>
    BY <1>1 DEF Unavailable
  <2>2. DOMAIN ex = Requests /\ Ready(gateway, ex[r])
    BY <2>0, ProxyEntered, ZenonT(40)
  <2>3. ex[r].header.id # <<>>
    <3>1. Identified(ex[r]) /\ ~ex[r].informed
      BY <2>1, <2>2 DEF Ready, Common, HeaderOK
    <3> QED BY <3>1 DEF Identified
  <2>4. Final(503)
    BY DEF Final
  <2>5. Answered(gateway, y)
    BY <2>2, <2>3, <2>4, ErrorAnswers
  <2>6. ex' = [ex EXCEPT ![r] = y]
    BY <1>1, <2>2 DEF Unavailable
  <2> HIDE DEF y
  <2>7. XInv(gateway, y)
    BY <2>5 DEF XInv
  <2> QED BY <2>1, <2>6, <2>7, LonelyStep, Zenon
<1>2. ASSUME NEW status \in {502, 504}, UpstreamFails(r, status)
      PROVE  PInv'
  <2> DEFINE x == Forwarded(ex[r])
             y == [x EXCEPT !.header.id = <<RequestID(x, x.ctx)>>]
  <2>1. /\ Enters(r, "proxy") /\ UNCHANGED <<gateway, tokens, cache>>
        /\ ex' = [ex EXCEPT ![r] = Return(Error(y, status))]
    BY <1>2 DEF UpstreamFails
  <2>2. Ready(gateway, x)
    BY <2>1, ProxyEntered, ZenonT(40)
  <2> HIDE DEF x
  <2>3. Final(status)
    BY DEF Final
  <2>4. Answered(gateway, Return(Error(y, status)))
    BY <2>2, <2>3, ErrorHandlerAnswers
  <2> HIDE DEF y
  <2>5. XInv(gateway, Return(Error(y, status)))
    BY <2>4 DEF XInv
  <2> QED BY <2>1, <2>5, LonelyStep, Zenon
<1> QED BY <1>1, <1>2

\* An interim response is passed on, and the proxy goes on waiting.
LEMMA UpstreamInformsStep ==
  ASSUME PInv, NEW r \in Requests, NEW answer \in Answers, UpstreamInforms(r, answer)
  PROVE  PInv'
<1> DEFINE f == Forwarded(ex[r])
           y == [WriteHeader(copyHeader(f, answer.header), 103) EXCEPT
                   !.header = NoHeader, !.informed = TRUE]
<1>1. /\ Enters(r, "proxy") /\ UNCHANGED <<gateway, tokens, cache>>
      /\ ex' = [ex EXCEPT ![r] = y]
  BY DEF UpstreamInforms
<1>2. Handling(gateway, f) /\ f.backend = TRUE /\ Head(f.todo) = "proxy"
  BY <1>1, ProxyEntered, Zenon
<1> HIDE DEF f
<1>3. Handling(gateway, y)
  BY <1>2, InformEffect, Zenon
<1> HIDE DEF y
<1> QED BY <1>1, <1>3, LonelyStep, Zenon DEF XInv

\* The upstream's answer reaches the client, or part of it does, or the server
\* panics over its status.
LEMMA UpstreamAnswersStep ==
  ASSUME PInv, NEW r \in Requests, NEW answer \in Answers,
         (\E breaksOff \in BOOLEAN : UpstreamAnswers(r, answer, breaksOff))
           \/ UpstreamUpgrades(r, answer)
  PROVE  PInv'
<1> DEFINE x == Forwarded(ex[r])
           c == copyHeader(x, ModifyResponse(x, answer.header))
           z == [WriteHeader(c, answer.status) EXCEPT !.body = "upstream"]
           refused == [WriteThrough(c, c.writers, answer.status) EXCEPT
                         !.panic = "other", !.at = "unwind"]
           broken == [z EXCEPT !.panic = "abort", !.at = "unwind"]
           whole == Return(z)
           upgraded == [WriteThrough(c, {"client"}, 101) EXCEPT !.body = "upstream",
                                                                !.at = "unwind"]
<1>1. Enters(r, "proxy") /\ UNCHANGED <<gateway, tokens, cache>>
  BY DEF UpstreamAnswers, UpstreamUpgrades
<1>2. \/ answer.status < 100 /\ ex' = [ex EXCEPT ![r] = refused]
      \/ ~(answer.status < 100) /\ ex' = [ex EXCEPT ![r] = broken]
      \/ ~(answer.status < 100) /\ ex' = [ex EXCEPT ![r] = whole]
      \/ ex' = [ex EXCEPT ![r] = upgraded]
  BY DEF UpstreamAnswers, UpstreamUpgrades
<1>3. Ready(gateway, x) /\ Passed(gateway, x) /\ Fresh(x)
  BY <1>1, ProxyEntered, Zenon DEF Handling
<1> HIDE DEF x
<1>4. Ready(gateway, c) /\ Passed(gateway, c) /\ Stamped(c) /\ c.header.id # <<>>
  BY <1>3, CopiedEffect
<1> HIDE DEF c
<1>5. answer.status \in (1 .. 99) \union (200 .. 999)
  BY MessagesWellTyped
<1>6. answer.status < 100 => Answered(gateway, refused)
  <2>1. answer.status < 100 => answer.status \in 1 .. 99
    BY <1>5
  <2> QED BY <1>4, <2>1, RefusedStatusEffect, Zenon
<1>7. ~(answer.status < 100) => Final(answer.status)
  BY <1>5 DEF Final
<1>8. ~(answer.status < 100) => Answered(gateway, broken) /\ Answered(gateway, whole)
  BY <1>4, <1>7, UpstreamAnswersEffect, Zenon
<1>9. Answered(gateway, upgraded)
  BY <1>4, UpgradeEffect, Zenon
<1> HIDE DEF refused, broken, whole, upgraded
<1> QED BY <1>1, <1>2, <1>6, <1>8, <1>9, LonelyStep DEF XInv

\* Panics and the deferred functions.
LEMMA UnwindStep ==
  ASSUME PInv, NEW r \in Requests, HandlerPanics(r) \/ Complete(r)
  PROVE  PInv'
<1> DEFINE x == ex[r]
           p == [[x EXCEPT !.panic = "other"] EXCEPT !.at = "unwind"]
           y == [Recovery(logCompletedRequest(observe(x))) EXCEPT !.at = "done"]
<1>1. DOMAIN ex = Requests /\ XInv(gateway, x) /\ UNCHANGED <<gateway, tokens, cache>>
  BY DEF PInv, HandlerPanics, Complete
<1>2. CASE HandlerPanics(r)
  <2>1. ex' = [ex EXCEPT ![r] = p] /\ x.at = "handler"
    BY <1>1, <1>2, Zenon DEF HandlerPanics
  <2>2. Handling(gateway, x)
    BY <1>1, <2>1, WhereAnExchangeIs
  <2>3. Answered(gateway, p)
    BY <2>2, PanicEffect, Zenon
  <2> HIDE DEF p
  <2> QED BY <1>1, <2>1, <2>3, LonelyStep, Zenon DEF XInv
<1>3. CASE Complete(r)
  <2>1. ex' = [ex EXCEPT ![r] = y] /\ x.at = "unwind"
    BY <1>1, <1>3 DEF Complete
  <2>2. Answered(gateway, x)
    BY <1>1, <2>1, WhereAnExchangeIs
  <2>3. Completed(gateway, y)
    BY <2>1, <2>2, CompleteEffect
  <2> HIDE DEF y
  <2> QED BY <1>1, <2>1, <2>3, LonelyStep, Zenon DEF XInv
<1> QED BY <1>2, <1>3

-----------------------------------------------------------------------------
(* Finding the route, the one part that counts and takes minima.           *)

INSTANCE FiniteSetTheorems

\* Every nonempty set of naturals has a least element.
LEMMA LeastNatural ==
  ASSUME NEW S \in SUBSET Nat, S # {}
  PROVE  \E n \in S : \A m \in S : n <= m
<1> DEFINE R == {ss \in Nat \X Nat : ss[1] < ss[2]}
<1>1. IsWellFoundedOn(R, Nat)
  BY NatLessThanWellFounded DEF OpToRel
<1> HIDE DEF R
<1>2. PICK n \in S : \A m \in S : ~(<<m, n>> \in R)
  BY <1>1, WFMin, Zenon
<1>3. ASSUME NEW m \in S PROVE n <= m
  <2>1. ~(<<m, n>> \in R) /\ m \in Nat /\ n \in Nat
    BY <1>2
  <2>2. ~(m < n)
    BY <2>1 DEF R
  <2> QED BY <2>1, <2>2
<1> QED BY <1>3

\* Of finitely many routes with a length, one is the first of the longest: take
\* the least m such that some route beats all those after the m-th.
LEMMA FirstLongest ==
  ASSUME NEW n \in Nat, NEW M \in SUBSET (1 .. n), M # {}, NEW f \in [M -> Nat]
  PROVE  \E i \in M : \A j \in M : f[i] > f[j] \/ (f[i] = f[j] /\ i <= j)
<1> DEFINE Beats(i, j) == f[i] > f[j] \/ (f[i] = f[j] /\ i <= j)
           Done(m) == \E i \in M : \A j \in M : j > m => Beats(i, j)
           S == {m \in Nat : Done(m)}
<1>0. \A j \in M : j \in Nat /\ 1 <= j /\ j <= n /\ f[j] \in Nat
  OBVIOUS
<1>1. \A i, j \in M : Beats(i, j) \/ Beats(j, i)
  BY <1>0
<1>2. \A i, j, k \in M : Beats(i, j) /\ Beats(j, k) => Beats(i, k)
  BY <1>0
<1>3. \A i \in M : Beats(i, i)
  BY <1>0
<1>4. n \in S
  <2>1. \A j \in M : ~(j > n)
    BY <1>0
  <2>2. Done(n)
    BY <2>1, Zenon
  <2> QED BY <2>2
<1> HIDE DEF Beats
<1>5. PICK m \in S : \A k \in S : m <= k
  BY <1>4, LeastNatural, Zenon
<1>6. PICK i \in M : \A j \in M : j > m => Beats(i, j)
  BY <1>5
<1>7. CASE m = 0
  BY <1>0, <1>6, <1>7 DEF Beats
<1>8. CASE m # 0
  <2>1. m \in Nat /\ m - 1 \in Nat /\ m - 1 \notin S
    <3>1. m \in Nat /\ m - 1 \in Nat /\ ~(m <= m - 1)
      BY <1>5, <1>8
    <3> QED BY <1>5, <3>1, Zenon
  <2>2. \A j \in M : j > m - 1 <=> j > m \/ j = m
    BY <1>0, <2>1
  <2>3. CASE m \notin M
    <3>1. Done(m - 1)
      BY <1>6, <2>2, <2>3
    <3> QED BY <2>1, <3>1
  <2>4. CASE m \in M /\ Beats(i, m)
    <3>1. Done(m - 1)
      BY <1>6, <2>2, <2>4
    <3> QED BY <2>1, <3>1
  <2>5. CASE m \in M /\ Beats(m, i)
    <3>1. \A j \in M : j > m - 1 => Beats(m, j)
      BY <1>2, <1>3, <1>6, <2>2, <2>5
    <3>2. Done(m - 1)
      BY <2>5, <3>1
    <3> QED BY <2>1, <3>2
  <2> QED BY <1>1, <2>3, <2>4, <2>5
<1> QED BY <1>7, <1>8

\* matchRoute returns the index of a route, or 0.
LEMMA MatchRouteType ==
  ASSUME NEW g \in Gateways, NEW path
  PROVE  matchRoute(g.routes, path) \in {0} \union DOMAIN g.routes
<1> DEFINE routes == g.routes
           M == Matches(routes, path)
           n == Len(routes)
           length(i) == Length(routes[i].pathPrefix)
           f == [i \in M |-> length(i)]
           First(i) == \A j \in M : length(i) > length(j) \/ (length(i) = length(j) /\ i <= j)
<1>1. n \in Nat /\ DOMAIN routes = 1 .. n /\ \A i \in 1 .. n : routes[i].pathPrefix \in Seq(STRING)
  <2>1. routes \in Seq(BuiltRoute)
    BY GatewaysWellTyped DEF WellBuilt
  <2>2. \A t \in BuiltRoute : t.pathPrefix \in Seq(STRING)
    BY DEF BuiltRoute
  <2> HIDE DEF routes
  <2> QED BY <2>1, <2>2
<1>2. M \in SUBSET (1 .. n)
  BY <1>1 DEF Matches
<1>3. CASE M = {}
  BY <1>3 DEF matchRoute
<1>4. CASE M # {}
  <2>1. ASSUME NEW i \in 1 .. n PROVE length(i) \in Nat
    <3> DEFINE p == routes[i].pathPrefix
               segments == {k \in DOMAIN p : p[k] # Empty}
    <3>1. Len(p) \in Nat /\ DOMAIN p = 1 .. Len(p)
      BY <1>1
    <3>2. IsFiniteSet(segments)
      <4> HIDE DEF p
      <4>1. segments \subseteq 1 .. Len(p)
        BY <3>1
      <4>2. IsFiniteSet(1 .. Len(p))
        BY <3>1, FS_Interval
      <4> QED BY <4>1, <4>2, FS_Subset
    <3>3. Cardinality(segments) \in Nat
      BY <3>2, FS_CardinalityType
    <3>4. length(i) = Len(p) + Cardinality(segments)
      BY DEF Length
    <3> HIDE DEF p, segments
    <3> QED BY <3>1, <3>3, <3>4
  <2> HIDE DEF M
  <2>2. f \in [M -> Nat]
    BY <1>2, <2>1
  <2> HIDE DEF f
  <2>3. PICK i \in M : \A j \in M : f[i] > f[j] \/ (f[i] = f[j] /\ i <= j)
    BY <1>1, <1>2, <1>4, <2>2, FirstLongest, Zenon
  <2>4. First(i)
    BY <2>3 DEF f
  <2>5. matchRoute(routes, path) = CHOOSE k \in M : First(k)
    BY <1>4, Zenon DEF matchRoute, M
  <2> HIDE DEF First
  <2>6. matchRoute(routes, path) \in M
    BY <2>3, <2>4, <2>5
  <2> QED BY <1>1, <1>2, <2>6, Zenon
<1> QED BY <1>3, <1>4

\* ServeHTTP answers 404 or enters the handlers of a route.
LEMMA ServeHTTPEffect ==
  ASSUME gateway \in Gateways, NEW shape \in Shapes, NEW x, Unrouted(x, shape),
         Ready(gateway, x)
  PROVE  Handling(gateway, ServeHTTP(x)) \/ Answered(gateway, ServeHTTP(x))
<1> DEFINE z == [x EXCEPT !.header.id = <<RequestID(x, x.ctx)>>]
           i == matchRoute(gateway.routes, x.request.path)
           chain == routeMiddleware(gateway.routes[i])
           s == SetRoute(z, i)
           y == [s EXCEPT !.route = i, !.todo = chain]
<1>1. Ensure(x) = x
  BY DEF Ensure, Unrouted, OneMeta
<1>2. /\ Ready(gateway, z) /\ SameCall(x, z) /\ z.at = "handler"
      /\ z.header.id = <<x.idHeader>> /\ z.header.id # <<>>
  BY RestampKeepsReady, Zenon DEF Unrouted
<1>3. ServeHTTP(x) = IF i = 0 THEN Error(z, 404) ELSE y
  BY <1>1 DEF ServeHTTP
<1>4. i \in {0} \union DOMAIN gateway.routes
  BY MatchRouteType
<1> HIDE DEF z, i
<1>5. CASE i = 0
  <2>1. Final(404)
    BY DEF Final
  <2>2. Answered(gateway, Error(z, 404))
    BY <1>2, <2>1, ErrorAnswers
  <2> QED BY <1>3, <1>5, <2>2
<1>6. CASE i # 0
  <2> DEFINE m == [z.meta[1] EXCEPT !.route = i]
  <2>1. /\ DOMAIN z = Fields /\ z.ctx = 1 /\ z.backend = FALSE /\ z.route = 0
        /\ z.charged = FALSE /\ "cache" \notin z.writers
        /\ z.meta = <<z.meta[1]>> /\ DOMAIN z.meta[1] = {"id", "route", "backend"}
        /\ z.meta[1].id = z.idHeader /\ z.meta[1].backend = FALSE
        /\ z.informed = FALSE /\ z.header.id = <<z.idHeader>>
    BY <1>2 DEF Unrouted, Writable, SameCall, OneMeta
  <2>2. s = [z EXCEPT !.meta = [z.meta EXCEPT ![1] = m]]
    BY <2>1 DEF SetRoute
  <2>3. /\ DOMAIN m = {"id", "route", "backend"}
        /\ m.id = z.idHeader /\ m.route = i /\ m.backend = FALSE
    BY <2>1
  <2> HIDE DEF s, m, chain
  <2>4. /\ DOMAIN s = Fields /\ s.meta = <<m>>
        /\ s.request = z.request /\ s.idHeader = z.idHeader /\ s.ctx = z.ctx
        /\ s.logCtx = z.logCtx /\ s.metricCtx = z.metricCtx /\ s.header = z.header
        /\ s.writers = z.writers /\ s.log = z.log /\ s.metric = z.metric
        /\ s.charged = z.charged /\ s.forwarded = z.forwarded
        /\ s.backend = z.backend /\ s.informed = z.informed /\ s.wrote = z.wrote
        /\ s.panic = z.panic
        /\ s.body = z.body /\ s.at = z.at
    <3>1. \A a, b, c : c = <<a>> => [c EXCEPT ![1] = b] = <<b>>
      OBVIOUS
    <3>2. [z.meta EXCEPT ![1] = m] = <<m>>
      BY <2>1, <3>1
    <3> HIDE DEF m
    <3>3. s = [z EXCEPT !.meta = <<m>>]
      BY <2>2, <3>2
    <3> QED BY <2>1, <3>3 DEF Fields
  <2>5. /\ DOMAIN y = Fields /\ y.route = i /\ y.todo = chain /\ y.meta = <<m>>
        /\ y.request = z.request /\ y.idHeader = z.idHeader /\ y.ctx = z.ctx
        /\ y.logCtx = z.logCtx /\ y.metricCtx = z.metricCtx /\ y.header = z.header
        /\ y.writers = z.writers /\ y.log = z.log /\ y.metric = z.metric
        /\ y.charged = z.charged /\ y.forwarded = z.forwarded
        /\ y.backend = z.backend /\ y.informed = z.informed /\ y.wrote = z.wrote
        /\ y.panic = z.panic
        /\ y.body = z.body /\ y.at = z.at
    BY <2>4 DEF Fields
  <2> HIDE DEF y
  <2>6. OneMeta(y)
    <3>1. y.meta[1] = m
      BY <2>5
    <3>2. OneMeta(z)
      BY <1>2, Zenon DEF Ready, Common
    <3> QED BY <2>1, <2>3, <2>5, <3>1, <3>2, Zenon DEF OneMeta
  <2>7. HeaderOK(gateway, y)
    <3>1. Own(gateway, y) = Own(gateway, z) /\ (Entitled(gateway, y) <=> Entitled(gateway, z))
      BY <2>5 DEF Own, Entitled
    <3>2. HeaderOK(gateway, z)
      BY <1>2, Zenon DEF Ready, Common
    <3> QED BY <2>5, <3>1, <3>2, Zenon DEF HeaderOK, Identified, Stamped, GrantOK, CacheStatus
  <2>8. Policy(gateway, y)
    <3>1. y.body \notin {"upstream", "cache"} /\ ~y.charged
      BY <1>2, <2>1, <2>5, ReadyIsWritable, ZenonT(40)
    <3> QED BY <3>1 DEF Policy
  <2>9. Common(gateway, y)
    BY <1>2, <1>4, <2>1, <2>5, <2>6, <2>7, <2>8, Zenon DEF Ready, Common
  <2>10. Stage(gateway, y)
    BY <2>1, <2>5, Zenon DEF Stage, chain
  <2>11. Handling(gateway, y)
    BY <1>2, <1>6, <2>1, <2>5, <2>9, <2>10, Zenon DEF Handling, Ready, Unwritten, Fresh
  <2> QED BY <1>3, <1>6, <2>11 DEF y, s, chain
<1> QED BY <1>5, <1>6

\* newGatewayHandler takes a new exchange to the handlers of its route or
\* answers it.
LEMMA GatewayPathEffect ==
  ASSUME gateway \in Gateways, NEW r, NEW shape \in Shapes
  PROVE  LET y == gatewayPath(NewExchange(r, shape))
         IN  Handling(gateway, y) \/ Answered(gateway, y)
<1> DEFINE x == Instrument(RequestLogger(NewExchange(r, shape)))
           c == CORS(gateway.cors, x)
<1>1. Unrouted(x, shape) /\ x.header.grant = <<>>
  BY LoggedEffect
<1>2. gatewayPath(NewExchange(r, shape)) = IF c.at = "unwind" THEN c ELSE ServeHTTP(c)
  BY DEF gatewayPath
<1> HIDE DEF x
<1>3. \/ c.at = "unwind" /\ Answered(gateway, c)
      \/ c.at = "handler" /\ Unrouted(c, shape) /\ Ready(gateway, c)
  BY <1>1, CORSEffect
<1> HIDE DEF c
<1> QED BY <1>2, <1>3, ServeHTTPEffect

\* A new request gets as far as the handlers of its route, or is answered.
LEMMA ArriveStep ==
  ASSUME PInv, NEW r \in Requests, NEW shape \in Shapes, Arrive(r, shape)
  PROVE  PInv'
<1> DEFINE y == gatewayPath(NewExchange(r, shape))
<1>1. ex' = [ex EXCEPT ![r] = y] /\ UNCHANGED <<gateway, tokens, cache>>
  BY DEF Arrive
<1>2. Handling(gateway, y) \/ Answered(gateway, y)
  BY GatewayPathEffect, Zenon DEF PInv
<1> HIDE DEF y
<1> QED BY <1>1, <1>2, LonelyStep, Zenon DEF XInv

-----------------------------------------------------------------------------
\* Every step preserves the invariant.
LEMMA PInvNext == PInv /\ [Next]_vars => PInv'
<1> SUFFICES ASSUME PInv, [Next]_vars PROVE PInv'
  OBVIOUS
<1>1. CASE UNCHANGED vars
  <2>1. gateway' = gateway /\ tokens' = tokens /\ cache' = cache /\ ex' = ex
    BY <1>1 DEF vars
  <2>2. Buckets' = Buckets
    BY <2>1 DEF Buckets
  <2>3. Stored'
    BY <2>1 DEF PInv, Stored
  <2> QED BY <2>1, <2>2, <2>3 DEF PInv
<1>2. ASSUME NEW r \in Requests, NEW shape \in Shapes, Arrive(r, shape) PROVE PInv'
  BY <1>2, ArriveStep
<1>3. ASSUME NEW r \in Requests, APIKeyAuth(r) PROVE PInv'
  BY <1>3, APIKeyAuthStep
<1>4. ASSUME NEW r \in Requests, rateLimit(r) PROVE PInv'
  BY <1>4, RateLimitStep
<1>5. ASSUME NEW r \in Requests, cacheResponses(r) PROVE PInv'
  BY <1>5, CacheResponsesStep
<1>6. ASSUME NEW r \in Requests, cacheStore(r) PROVE PInv'
  BY <1>6, CacheStoreStep
<1>7. ASSUME NEW r \in Requests,
             Unavailable(r) \/ \E status \in {502, 504} : UpstreamFails(r, status)
      PROVE  PInv'
  BY <1>7, ProxyErrorStep
<1>8. ASSUME NEW r \in Requests, NEW answer \in Answers,
             (\E breaksOff \in BOOLEAN : UpstreamAnswers(r, answer, breaksOff))
               \/ UpstreamUpgrades(r, answer)
      PROVE  PInv'
  BY <1>8, UpstreamAnswersStep
<1>12. ASSUME NEW r \in Requests, NEW answer \in Answers, UpstreamInforms(r, answer)
       PROVE  PInv'
  BY <1>12, UpstreamInformsStep
<1>9. ASSUME NEW r \in Requests, HandlerPanics(r) \/ Complete(r) PROVE PInv'
  BY <1>9, UnwindStep
<1>10. ASSUME NEW i \in DOMAIN cache, Forget(i) PROVE PInv'
  BY <1>10, ForgetStep
<1>11. ASSUME NEW b \in Buckets, Refill(b) PROVE PInv'
  BY <1>11, RefillStep
<1> QED BY <1>1, <1>2, <1>3, <1>4, <1>5, <1>6, <1>7, <1>8, <1>9, <1>10, <1>11, <1>12
     DEF Next

\* In every reachable state every exchange is idle, being handled, answered or
\* completed, and the caches hold only what any request may have.
THEOREM ExchangesAlwaysInOrder == Spec => []PInv
BY PInvInit, PInvNext, PTL DEF Spec

\* What a finished request is known to satisfy.
LEMMA FinishedIsCompleted ==
  ASSUME PInv, NEW r \in Finished
  PROVE  r \in Requests /\ Completed(gateway, ex[r])
<1>1. r \in Requests /\ ex[r].at = "done"
  BY DEF Finished
<1> QED BY <1>1, WhereAnExchangeIs DEF PInv

\* Limiters and caches have their types, and every request under way has one
\* metadata instance, however many handlers ask for it.
THEOREM TypeCorrect == Spec => []TypeOK
<1>1. ASSUME PInv PROVE TypeOK
  <2>1. ASSUME NEW r \in Requests
        PROVE  /\ ex[r].at \in {"idle", "handler", "store", "unwind", "done"}
               /\ ex[r].at # "idle" => Len(ex[r].meta) = 1 /\ ex[r].ctx = 1
    <3>1. XInv(gateway, ex[r])
      BY <1>1 DEF PInv
    <3>2. CASE ex[r] = Idle
      BY <3>2 DEF Idle
    <3>3. CASE Handling(gateway, ex[r]) \/ Answered(gateway, ex[r])
      <4>1. ex[r].at \in {"handler", "store", "unwind"} /\ OneMeta(ex[r])
        BY <3>3, Zenon DEF Handling, Answered, Common
      <4> QED BY <4>1 DEF OneMeta
    <3>4. CASE Completed(gateway, ex[r])
      BY <3>4, Zenon DEF Completed
    <3> QED BY <3>1, <3>2, <3>3, <3>4 DEF XInv
  <2> QED BY <1>1, <2>1 DEF PInv, TypeOK
<1> QED BY <1>1, ExchangesAlwaysInOrder, PTL

\* The access log and the metrics always agree with each other about the status
\* of a finished request, and with the client, except about an upgraded
\* connection and a status below 100, for which the client gets a 500.
THEOREM StatusAlwaysAgrees == Spec => []StatusAgrees
<1>1. ASSUME PInv PROVE StatusAgrees
  BY <1>1, FinishedIsCompleted, Zenon DEF StatusAgrees, Completed
<1> QED BY <1>1, ExchangesAlwaysInOrder, PTL

\* The identifier in the log is always the one the upstream was given and the
\* only one the client gets: twice with a proxied response, once if an interim
\* response came first, and never only after an interim response and a panic.
THEOREM AlwaysCorrelated == Spec => []Correlated
<1>1. ASSUME PInv PROVE Correlated
  BY <1>1, FinishedIsCompleted, Zenon DEF Correlated, Completed
<1> QED BY <1>1, ExchangesAlwaysInOrder, PTL

\* No finished request ever carries a grant that CORS made for another origin,
\* and one that is entitled to a grant lacks it exactly if an interim response
\* came first; a replayed response has one, the upstream's or CORS's.
THEOREM GrantsAlwaysOwn == Spec => []GrantsAreOwn
<1>1. ASSUME PInv PROVE GrantsAreOwn
  BY <1>1, FinishedIsCompleted, Zenon DEF GrantsAreOwn, Completed, Own, Entitled
<1> QED BY <1>1, ExchangesAlwaysInOrder, PTL

\* Nothing is ever served past APIKeyAuth or rateLimit, and no request without a
\* valid key is charged.
THEOREM PolicyAlwaysFirst == Spec => []PolicyFirst
<1>1. ASSUME PInv PROVE PolicyFirst
  BY <1>1, FinishedIsCompleted, Zenon DEF PolicyFirst, Completed, Policy, Passed, Authorised
<1> QED BY <1>1, ExchangesAlwaysInOrder, PTL

\* X-Cache is always HIT on a replay, MISS on what else a cached route serves to
\* a cacheable request unless an interim response came first, absent otherwise.
THEOREM CacheStatusAlwaysTrue == Spec => []CacheStatusTrue
<1>1. ASSUME PInv PROVE CacheStatusTrue
  BY <1>1, FinishedIsCompleted, Zenon DEF CacheStatusTrue, Completed, CacheStatus
<1> QED BY <1>1, ExchangesAlwaysInOrder, PTL
=============================================================================
