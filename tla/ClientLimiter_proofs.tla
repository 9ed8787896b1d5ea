------------------------ MODULE ClientLimiter_proofs ------------------------
(***************************************************************************)
(* Machine-checked proofs about ClientLimiter, for every set of clients,   *)
(* shards and handlers, every rate, burst, time to live, cleanup interval  *)
(* and lag: the type invariant, the bound on what a client is granted in   *)
(* any window of time, and that without lag the buckets implement          *)
(* TokenBuckets.                                                           *)
(***************************************************************************)
EXTENDS ClientLimiter, TLAPS

\* What is true of every bucket: it is not overfull, and neither of its stamps
\* is in the future or was refilled after the client was last seen.
Buckets ==
  \A c \in Clients : clients[c] # NoEntry =>
    /\ clients[c].tokens <= capacity
    /\ clients[c].lastRefill <= clients[c].lastSeen
    /\ clients[c].lastRefill <= clock

\* A handler that waits for the shard lock holds a stamp at most lag old.
Stamps ==
  \A h \in Handlers : waiting[h] # Idle =>
    waiting[h].now <= clock /\ clock <= waiting[h].now + lag

\* The earliest stamp that can be applied after the window was opened.
Base == windowStart - lag

\* The potential of a client: what it was granted in the window and what it has
\* left is paid for by the burst, the flow since Base, and lag per eviction.
Potential(c) ==
  IF clients[c] = NoEntry
  THEN \/ granted[c] = 0
       \/ granted[c] * One <= (clock - windowStart + forgotten[c] * lag) * Rate
  ELSE \/ /\ granted[c] = 0
          /\ clients[c].lastRefill < Base
       \/ /\ clients[c].lastRefill >= Base
          /\ granted[c] * One + clients[c].tokens <=
               capacity + (clients[c].lastRefill - Base + forgotten[c] * lag) * Rate

Window ==
  /\ windowStart = NoWindow =>
       \A c \in Watched : granted[c] = 0 /\ forgotten[c] = 0
  /\ windowStart # NoWindow =>
       /\ windowStart <= clock
       /\ \A c \in Watched : Potential(c)

IInv == TypeOK /\ Buckets /\ Stamps /\ Window

-----------------------------------------------------------------------------
\* A bucket holds a positive number of units.
LEMMA CapacityPositive == capacity \in Nat \ {0}
<1>1. \A m, n \in Nat \ {0} : m * n \in Nat \ {0}
  OBVIOUS
<1> QED
  BY <1>1, LimiterAssumption DEF capacity

\* Flow is monotonic in time and additive.
LEMMA FlowArithmetic ==
  /\ \A m, n \in Int : (m + n) * Rate = m * Rate + n * Rate
  /\ \A m \in Int : m * Rate \in Int
  /\ \A m \in Nat : m * Rate \in Nat
  /\ \A m, n \in Int : m <= n => m * Rate <= n * Rate
<1>1. Rate \in Nat
  BY LimiterAssumption
<1> QED
  BY <1>1

\* The time to live that NewClientLimiter settles on is long enough to fill an
\* empty bucket: no eviction can gain or lose a token by itself.
LEMMA TTLFillsBucket == clientIdleTTL \in Nat /\ capacity <= clientIdleTTL * Rate
<1> DEFINE d == bucketRefillDuration
<1>1. Rate \in Nat \ {0} /\ capacity \in Nat /\ IdleTTL \in Nat
  BY LimiterAssumption, CapacityPositive
<1>2. d \in Nat /\ capacity <= d * Rate
  <2>1. \A a \in Nat, b \in Nat \ {0} :
          a \div b \in Nat /\ a < (a \div b) * b + b
    OBVIOUS
  <2>2. d = (capacity + Rate - 1) \div Rate /\ capacity + Rate - 1 \in Nat
    BY <1>1 DEF bucketRefillDuration
  <2>3. d \in Nat /\ capacity + Rate - 1 < d * Rate + Rate
    BY <1>1, <2>1, <2>2
  <2> HIDE DEF d
  <2>4. d * Rate \in Nat
    BY <2>3, FlowArithmetic
  <2> QED
    BY <1>1, <2>3, <2>4
<1>3. clientIdleTTL \in Nat /\ d <= clientIdleTTL
  BY <1>1, <1>2 DEF clientIdleTTL, Greatest
<1> QED
  BY <1>1, <1>2, <1>3, FlowArithmetic

-----------------------------------------------------------------------------
\* Bucket.refill: the stamp moves forward to now or not at all, and what flows
\* in meanwhile is added up to the capacity.
LEMMA RefillEffect ==
  ASSUME NEW e \in Entry, e.tokens <= capacity, NEW now \in Nat
  PROVE  /\ refill(e, now) \in Entry
         /\ refill(e, now).lastSeen = e.lastSeen
         /\ refill(e, now).lastRefill = Greatest(e.lastRefill, now)
         /\ refill(e, now).tokens <= capacity
         /\ refill(e, now).tokens =
              Least(capacity,
                    e.tokens + (Greatest(e.lastRefill, now) - e.lastRefill) * Rate)
<1>0. capacity \in Nat /\ Rate \in Nat
  BY CapacityPositive, LimiterAssumption
<1>1. CASE now > e.lastRefill
  <2> DEFINE flow == (now - e.lastRefill) * Rate
  <2>1. flow \in Nat
    <3>1. now - e.lastRefill \in Nat
      BY <1>1 DEF Entry
    <3> QED BY <3>1, FlowArithmetic
  <2>2. /\ refill(e, now) = [e EXCEPT !.tokens = Least(capacity, e.tokens + flow),
                                      !.lastRefill = now]
        /\ Greatest(e.lastRefill, now) = now
    BY <1>1 DEF refill, Greatest, Entry
  <2>3. Least(capacity, e.tokens + flow) \in Nat
        /\ Least(capacity, e.tokens + flow) <= capacity
    <3> HIDE DEF flow
    <3> QED BY <1>0, <2>1 DEF Least, Entry
  <2> HIDE DEF flow
  <2> QED
    BY <2>2, <2>3 DEF Entry, flow
<1>2. CASE ~(now > e.lastRefill)
  <2>1. refill(e, now) = e /\ Greatest(e.lastRefill, now) = e.lastRefill
    BY <1>2 DEF refill, Greatest, Entry
  <2>2. (e.lastRefill - e.lastRefill) * Rate = 0
    BY <1>0 DEF Entry
  <2> QED
    BY <1>0, <2>1, <2>2 DEF Least, Entry
<1> QED
  BY <1>1, <1>2

\* What the cleanup at the start of Allow does: it drops entries whose client
\* has not been seen for clientIdleTTL, and changes nothing else.
LEMMA KeptEffect ==
  ASSUME TypeOK, NEW s, NEW now \in Nat
  PROVE  /\ DOMAIN Kept(s, now) = Clients
         /\ \A c \in Clients :
              \/ Kept(s, now)[c] = clients[c]
              \/ /\ Kept(s, now)[c] = NoEntry
                 /\ clients[c] \in Entry
                 /\ now >= clients[c].lastSeen + clientIdleTTL
BY DEF Kept, Expired, TypeOK

\* The entry that Allow refills, for a known client and for a new one.
LEMMA FoundEffect ==
  ASSUME TypeOK, Buckets, NEW kept, NEW c \in Clients, NEW now \in Nat,
         now <= clock, kept[c] \in {clients[c], NoEntry}
  PROVE  /\ Found(kept, c, now) \in Entry
         /\ Found(kept, c, now).tokens <= capacity
         /\ Found(kept, c, now).lastRefill <= clock
         /\ Found(kept, c, now).lastRefill <= Found(kept, c, now).lastSeen
         /\ now <= Found(kept, c, now).lastSeen
         /\ kept[c] = NoEntry =>
              /\ Found(kept, c, now).tokens = capacity
              /\ Found(kept, c, now).lastRefill = now
         /\ kept[c] # NoEntry =>
              /\ Found(kept, c, now).tokens = clients[c].tokens
              /\ Found(kept, c, now).lastRefill = clients[c].lastRefill
<1>1. CASE kept[c] = NoEntry
  BY <1>1, CapacityPositive DEF Found, newBucketAt, Entry, TypeOK
<1>2. CASE kept[c] # NoEntry
  <2>1. kept[c] = clients[c] /\ clients[c] \in Entry
    BY <1>2 DEF TypeOK
  <2>2. Found(kept, c, now) = [clients[c] EXCEPT !.lastSeen = Greatest(@, now)]
    BY <1>2, <2>1 DEF Found
  <2> QED
    BY <1>2, <2>1, <2>2 DEF Greatest, Entry, Buckets
<1> QED
  BY <1>1, <1>2

\* What a decision does, put together from the lemmas above: client c is served
\* at stamp now, the cleanup leaves kept, and entry is c's refilled bucket.
Decision(c, now, kept, entry) ==
  /\ now <= clock
  /\ clock <= now + lag
  /\ \A d \in Clients :
       \/ kept[d] = clients[d]
       \/ /\ kept[d] = NoEntry
          /\ clients[d] \in Entry
          /\ now >= clients[d].lastSeen + clientIdleTTL
  /\ entry.tokens <= capacity
  /\ entry.lastRefill <= clock
  /\ entry.lastRefill <= entry.lastSeen
  /\ kept[c] = NoEntry => entry.tokens = capacity /\ entry.lastRefill = now
  /\ kept[c] # NoEntry =>
       /\ entry.lastRefill = Greatest(clients[c].lastRefill, now)
       /\ entry.tokens =
            Least(capacity, clients[c].tokens
                            + (entry.lastRefill - clients[c].lastRefill) * Rate)
  /\ clients' = [kept EXCEPT ![c] =
       IF entry.tokens >= One THEN [entry EXCEPT !.tokens = @ - One] ELSE entry]
  /\ decision' = [client |-> c, allowed |-> entry.tokens >= One]
  /\ granted' = [w \in Watched |->
       IF w = c /\ entry.tokens >= One /\ windowStart # NoWindow
       THEN granted[w] + 1 ELSE granted[w]]
  /\ forgotten' = [w \in Watched |->
       IF kept[w] # clients[w] /\ windowStart # NoWindow
       THEN forgotten[w] + 1 ELSE forgotten[w]]
  /\ UNCHANGED <<clock, lag, windowStart>>

\* What Allow does to the bucket it is asked for, and what it decides.
LEMMA AllowDecides ==
  ASSUME IInv, NEW h \in Handlers, Allow(h)
  PROVE  \E c \in Clients, now \in Nat,
            kept \in [Clients -> Entry \union {NoEntry}], entry \in Entry :
           Decision(c, now, kept, entry)
<1> DEFINE c == waiting[h].client
           now == waiting[h].now
           kept == Kept(ShardFor[c], now)
           found == Found(kept, c, now)
           entry == refill(found, now)
<1>0. TypeOK /\ Buckets /\ Stamps
  BY DEF IInv
<1>1. /\ c \in Clients /\ now \in Nat
      /\ now <= clock /\ clock <= now + lag
  BY <1>0 DEF Allow, TypeOK, Stamps
<1>2. /\ DOMAIN kept = Clients
      /\ \A d \in Clients :
           \/ kept[d] = clients[d]
           \/ /\ kept[d] = NoEntry
              /\ clients[d] \in Entry
              /\ now >= clients[d].lastSeen + clientIdleTTL
  <2> HIDE DEF c, now
  <2> QED BY <1>0, <1>1, KeptEffect
<1>3. kept \in [Clients -> Entry \union {NoEntry}]
  <2>1. kept = [d \in Clients |-> kept[d]]
    BY DEF Kept
  <2> HIDE DEF kept
  <2> QED BY <1>0, <1>2, <2>1 DEF TypeOK
<1>4. /\ found \in Entry /\ found.tokens <= capacity
      /\ found.lastRefill <= clock /\ found.lastRefill <= found.lastSeen
      /\ now <= found.lastSeen
      /\ kept[c] = NoEntry => found.tokens = capacity /\ found.lastRefill = now
      /\ kept[c] # NoEntry => /\ found.tokens = clients[c].tokens
                              /\ found.lastRefill = clients[c].lastRefill
  <2> HIDE DEF c, now, kept
  <2> QED BY <1>0, <1>1, <1>2, FoundEffect
<1>5. /\ entry \in Entry /\ entry.lastSeen = found.lastSeen
      /\ entry.lastRefill = Greatest(found.lastRefill, now)
      /\ entry.tokens <= capacity
      /\ entry.tokens =
           Least(capacity, found.tokens
                           + (Greatest(found.lastRefill, now) - found.lastRefill) * Rate)
  <2> HIDE DEF c, now, kept, found
  <2> QED BY <1>1, <1>4, RefillEffect
<1>6. /\ clients' = [kept EXCEPT ![c] =
           IF entry.tokens >= One THEN [entry EXCEPT !.tokens = @ - One] ELSE entry]
      /\ decision' = [client |-> c, allowed |-> entry.tokens >= One]
      /\ granted' = [w \in Watched |->
           IF w = c /\ entry.tokens >= One /\ windowStart # NoWindow
           THEN granted[w] + 1 ELSE granted[w]]
      /\ forgotten' = [w \in Watched |->
           IF kept[w] # clients[w] /\ windowStart # NoWindow
           THEN forgotten[w] + 1 ELSE forgotten[w]]
      /\ UNCHANGED <<clock, lag, windowStart>>
  BY DEF Allow
<1> HIDE DEF c, now, kept, found, entry
<1>7. entry.lastRefill <= clock /\ entry.lastRefill <= entry.lastSeen
  BY <1>1, <1>4, <1>5 DEF Greatest, Entry
<1>8. kept[c] = NoEntry => entry.tokens = capacity /\ entry.lastRefill = now
  <2> SUFFICES ASSUME kept[c] = NoEntry
               PROVE  entry.tokens = capacity /\ entry.lastRefill = now
    OBVIOUS
  <2>1. Greatest(found.lastRefill, now) = now
    BY <1>1, <1>4 DEF Greatest
  <2>2. (now - now) * Rate = 0
    BY <1>1, LimiterAssumption
  <2>3. entry.tokens = Least(capacity, capacity + 0)
    BY <1>4, <1>5, <2>1, <2>2
  <2> QED BY <1>5, <2>1, <2>3, CapacityPositive DEF Least
<1>9. Decision(c, now, kept, entry)
  BY <1>1, <1>2, <1>4, <1>5, <1>6, <1>7, <1>8 DEF Decision
<1> QED
  BY <1>1, <1>3, <1>5, <1>9

-----------------------------------------------------------------------------
\* An eviction closes the account of a client: its entry has been idle for so
\* long that the flow since then alone would have filled the bucket.
LEMMA EvictedPotential ==
  ASSUME IInv, windowStart # NoWindow, NEW w \in Watched, clients[w] \in Entry,
         NEW now \in Nat, now <= clock, now >= clients[w].lastSeen + clientIdleTTL
  PROVE  \/ granted[w] = 0
         \/ granted[w] * One <=
              (clock - windowStart + (forgotten[w] + 1) * lag) * Rate
<1> DEFINE g == granted[w] * One
           f == forgotten[w] * lag
           t == clients[w].tokens
           last == clients[w].lastRefill
<1>0. w \in Clients /\ clients[w] # NoEntry
  BY LimiterAssumption DEF Entry
<1>1. /\ t \in Nat /\ last \in Nat /\ last <= clients[w].lastSeen
      /\ clients[w].lastSeen \in Nat
  BY <1>0 DEF IInv, Buckets, Entry
<1>2. /\ granted[w] \in Nat /\ forgotten[w] \in Nat /\ lag \in Nat
      /\ clock \in Nat /\ windowStart \in Nat /\ One \in Nat /\ Rate \in Nat
  BY LimiterAssumption DEF IInv, TypeOK
<1>3. g \in Nat /\ f \in Nat /\ (forgotten[w] + 1) * lag = f + lag
  BY <1>2
<1>4. granted[w] = 0 \/ g + t <= capacity + (last - Base + f) * Rate
  BY <1>0 DEF IInv, Window, Potential
<1> HIDE DEF g, f, t, last
<1> SUFFICES ASSUME g + t <= capacity + (last - Base + f) * Rate
             PROVE  g <= (clock - windowStart + (f + lag)) * Rate
  BY <1>3, <1>4 DEF g
<1>5. /\ capacity \in Nat /\ clientIdleTTL \in Nat
      /\ capacity <= clientIdleTTL * Rate
  BY CapacityPositive, TTLFillsBucket
<1>6. last - Base + f \in Int /\ Base = windowStart - lag
  BY <1>1, <1>2, <1>3 DEF Base
<1>7. clientIdleTTL * Rate + (last - Base + f) * Rate
        = (clientIdleTTL + (last - Base + f)) * Rate
  BY <1>5, <1>6, FlowArithmetic
<1>8. clientIdleTTL + (last - Base + f) <= clock - windowStart + (f + lag)
  BY <1>1, <1>2, <1>3, <1>5, <1>6 DEF last
<1>9. (clientIdleTTL + (last - Base + f)) * Rate
        <= (clock - windowStart + (f + lag)) * Rate
  BY <1>2, <1>3, <1>5, <1>6, <1>8, FlowArithmetic
<1>10. /\ (last - Base + f) * Rate \in Int /\ clientIdleTTL * Rate \in Int
       /\ (clock - windowStart + (f + lag)) * Rate \in Int
       /\ (clientIdleTTL + (last - Base + f)) * Rate \in Int
  BY <1>2, <1>3, <1>5, <1>6, FlowArithmetic
<1> QED
  BY <1>1, <1>3, <1>5, <1>7, <1>9, <1>10

\* The bucket of the client that is served, before the token is taken: the
\* account is in balance with the new stamp.
LEMMA ServedPotential ==
  ASSUME IInv, windowStart # NoWindow, NEW c \in Watched, NEW now \in Nat,
         NEW kept \in [Clients -> Entry \union {NoEntry}], NEW entry \in Entry,
         Decision(c, now, kept, entry)
  PROVE  /\ entry.lastRefill >= Base
         /\ granted[c] * One + entry.tokens <=
              capacity + (entry.lastRefill - Base + forgotten'[c] * lag) * Rate
<1> DEFINE g == granted[c] * One
           f == forgotten'[c] * lag
           last == clients[c].lastRefill
<1>0. c \in Clients
  BY LimiterAssumption
<1>1. /\ granted[c] \in Nat /\ forgotten[c] \in Nat /\ lag \in Nat
      /\ clock \in Nat /\ windowStart \in Nat /\ One \in Nat /\ Rate \in Nat
      /\ windowStart <= clock /\ Potential(c) /\ capacity \in Nat
      /\ clients[c] \in Entry \union {NoEntry}
  BY <1>0, LimiterAssumption, CapacityPositive DEF IInv, TypeOK, Window
<1>2. forgotten'[c] \in Nat
  BY <1>1 DEF Decision
<1>3. g \in Nat /\ f \in Nat
  BY <1>1, <1>2
<1>4. /\ entry.tokens \in Nat /\ entry.tokens <= capacity /\ entry.lastRefill \in Nat
      /\ now <= clock /\ clock <= now + lag /\ Base = windowStart - lag
  BY DEF Decision, Entry, Base
<1>5. \A m \in Nat : m * Rate \in Nat
  BY FlowArithmetic
<1>6. CASE kept[c] = NoEntry
  <2>1. entry.tokens = capacity /\ entry.lastRefill = now
    BY <1>6 DEF Decision
  <2>2. g = 0 \/ g <= (clock - windowStart + f) * Rate
    <3>1. CASE clients[c] = NoEntry
      <4>1. forgotten'[c] = forgotten[c]
        BY <1>0, <1>6, <3>1 DEF Decision
      <4> QED BY <1>1, <3>1, <4>1 DEF Potential
    <3>2. CASE clients[c] # NoEntry
      <4>1. forgotten'[c] = forgotten[c] + 1
        BY <1>6, <3>2 DEF Decision
      <4>2. clients[c] \in Entry /\ now >= clients[c].lastSeen + clientIdleTTL
        BY <1>0, <1>6, <3>2 DEF Decision
      <4>3. \/ granted[c] = 0
            \/ granted[c] * One <= (clock - windowStart + (forgotten[c] + 1) * lag) * Rate
        BY <1>4, <4>2, EvictedPotential
      <4> QED BY <1>1, <4>1, <4>3
    <3> QED BY <3>1, <3>2
  <2> HIDE DEF g, f
  <2>3. /\ clock - windowStart + f <= now - Base + f
        /\ clock - windowStart + f \in Int /\ now - Base + f \in Nat
    BY <1>1, <1>3, <1>4
  <2>4. /\ (clock - windowStart + f) * Rate <= (now - Base + f) * Rate
        /\ (now - Base + f) * Rate \in Nat /\ (clock - windowStart + f) * Rate \in Int
    BY <2>3, FlowArithmetic
  <2>5. g <= (now - Base + f) * Rate
    BY <1>3, <2>2, <2>4
  <2>6. now >= Base
    BY <1>1, <1>4
  <2> QED BY <1>1, <1>3, <2>1, <2>4, <2>5, <2>6 DEF g, f
<1>7. CASE kept[c] # NoEntry
  <2>1. kept[c] = clients[c] /\ clients[c] \in Entry /\ forgotten'[c] = forgotten[c]
    BY <1>0, <1>1, <1>7 DEF Decision
  <2>2. /\ entry.lastRefill = Greatest(last, now)
        /\ entry.tokens = Least(capacity, clients[c].tokens
                                          + (entry.lastRefill - last) * Rate)
    BY <1>7 DEF Decision
  <2>3. last \in Nat /\ clients[c].tokens \in Nat
    BY <2>1 DEF Entry
  <2>4. /\ entry.lastRefill >= last /\ entry.lastRefill >= now
        /\ entry.lastRefill >= Base
    BY <1>1, <1>4, <2>2, <2>3 DEF Greatest
  <2>5. \/ granted[c] = 0
        \/ /\ last >= Base
           /\ g + clients[c].tokens <= capacity + (last - Base + f) * Rate
    BY <1>7, <1>1, <2>1 DEF Potential
  <2> HIDE DEF f, last
  <2>6. CASE granted[c] = 0
    <3>1. g = 0
      BY <1>1, <2>6
    <3>2. entry.lastRefill - Base + f \in Nat
      BY <1>1, <1>3, <1>4, <2>4
    <3>3. (entry.lastRefill - Base + f) * Rate \in Nat
      BY <3>2, <1>5
    <3> HIDE DEF g
    <3> QED BY <1>1, <1>4, <2>4, <3>1, <3>3 DEF g, f
  <2>7. CASE g + clients[c].tokens <= capacity + (last - Base + f) * Rate
    <3> HIDE DEF g
    <3>1. /\ entry.lastRefill - last \in Nat /\ last - Base + f \in Int
          /\ (last - Base + f) + (entry.lastRefill - last) = entry.lastRefill - Base + f
      BY <1>1, <1>3, <1>4, <2>3, <2>4
    <3>2. (last - Base + f) * Rate + (entry.lastRefill - last) * Rate
            = (entry.lastRefill - Base + f) * Rate
      <4> DEFINE before == last - Base + f
                 since == entry.lastRefill - last
      <4>1. /\ before \in Int /\ since \in Int
            /\ before + since = entry.lastRefill - Base + f
        BY <3>1
      <4> HIDE DEF before, since
      <4>2. before * Rate + since * Rate = (entry.lastRefill - Base + f) * Rate
        BY <4>1, FlowArithmetic
      <4> QED BY <4>2 DEF before, since
    <3>3. (last - Base + f) * Rate \in Int /\ (entry.lastRefill - last) * Rate \in Nat
      BY <3>1, FlowArithmetic
    <3>4. entry.tokens <= clients[c].tokens + (entry.lastRefill - last) * Rate
      BY <1>1, <1>4, <2>2, <2>3, <3>3 DEF Least
    <3> QED BY <1>1, <1>3, <1>4, <2>3, <2>4, <2>7, <3>2, <3>3, <3>4 DEF g, f
  <2> QED BY <2>5, <2>6, <2>7
<1> QED BY <1>6, <1>7

\* A decision takes at most the token it grants from the bucket.
LEMMA DecisionBuckets ==
  ASSUME IInv, NEW c \in Clients, NEW now \in Nat,
         NEW kept \in [Clients -> Entry \union {NoEntry}], NEW entry \in Entry,
         Decision(c, now, kept, entry)
  PROVE  /\ clients' \in [Clients -> Entry \union {NoEntry}]
         /\ clients'[c] \in Entry
         /\ clients'[c].lastRefill = entry.lastRefill
         /\ clients'[c].tokens =
              IF entry.tokens >= One THEN entry.tokens - One ELSE entry.tokens
         /\ \A d \in Clients \ {c} : clients'[d] = kept[d]
         /\ Buckets'
<1> DEFINE new == IF entry.tokens >= One
                  THEN [entry EXCEPT !.tokens = entry.tokens - One] ELSE entry
<1>1. One \in Nat /\ capacity \in Nat
  BY LimiterAssumption, CapacityPositive
<1>2. clients' = [kept EXCEPT ![c] = new]
  BY DEF Decision
<1>3. /\ new \in Entry /\ new.lastRefill = entry.lastRefill
      /\ new.lastSeen = entry.lastSeen /\ new.tokens <= entry.tokens
      /\ new.tokens = IF entry.tokens >= One THEN entry.tokens - One ELSE entry.tokens
  BY <1>1 DEF Entry
<1> HIDE DEF new
<1>4. /\ clients' \in [Clients -> Entry \union {NoEntry}]
      /\ clients'[c] = new
      /\ \A d \in Clients \ {c} : clients'[d] = kept[d]
  BY <1>2, <1>3
<1>5. Buckets'
  <2> SUFFICES ASSUME NEW d \in Clients, clients'[d] # NoEntry
               PROVE  /\ clients'[d].tokens <= capacity
                      /\ clients'[d].lastRefill <= clients'[d].lastSeen
                      /\ clients'[d].lastRefill <= clock
    BY DEF Decision, Buckets, capacity
  <2>1. CASE d = c
    BY <1>1, <1>3, <1>4, <2>1 DEF Decision, Entry
  <2>2. CASE d # c
    BY <1>4, <2>2 DEF Decision, IInv, Buckets
  <2> QED BY <2>1, <2>2
<1> QED BY <1>3, <1>4, <1>5

\* A decision leaves every watched account in balance.
LEMMA DecisionWindow ==
  ASSUME IInv, NEW c \in Clients, NEW now \in Nat,
         NEW kept \in [Clients -> Entry \union {NoEntry}], NEW entry \in Entry,
         Decision(c, now, kept, entry)
  PROVE  Window'
<1>1. UNCHANGED <<clock, lag, windowStart>> /\ Watched \subseteq Clients
  BY LimiterAssumption DEF Decision
<1>2. CASE windowStart = NoWindow
  BY <1>1, <1>2 DEF Decision, IInv, Window
<1>3. CASE windowStart # NoWindow
  <2>1. /\ clock \in Nat /\ lag \in Nat /\ windowStart \in Nat
        /\ windowStart <= clock /\ One \in Nat /\ capacity \in Nat
        /\ Base' = Base
    BY <1>1, <1>3, LimiterAssumption, CapacityPositive DEF IInv, TypeOK, Window, Base
  <2> SUFFICES ASSUME NEW w \in Watched PROVE Potential(w)'
    BY <1>1, <1>3, <2>1 DEF Window
  <2>2. granted[w] \in Nat /\ forgotten[w] \in Nat /\ Potential(w)
    BY <1>3 DEF IInv, TypeOK, Window
  <2>3. CASE w = c
    <3>1. /\ entry.lastRefill >= Base
          /\ granted[c] * One + entry.tokens <=
               capacity + (entry.lastRefill - Base + forgotten'[c] * lag) * Rate
      BY <1>3, <2>3, ServedPotential
    <3>2. granted'[c] = IF entry.tokens >= One THEN granted[c] + 1 ELSE granted[c]
      BY <1>3, <2>3 DEF Decision
    <3>3. granted'[c] * One + clients'[c].tokens = granted[c] * One + entry.tokens
      <4>1. (granted[c] + 1) * One = granted[c] * One + One
        BY <2>1, <2>2, <2>3
      <4>2. granted[c] * One \in Nat /\ entry.tokens \in Nat
        BY <2>1, <2>2, <2>3 DEF Entry
      <4> QED BY <2>1, <3>2, <4>1, <4>2, DecisionBuckets
    <3>4. clients'[c] # NoEntry /\ clients'[c].lastRefill = entry.lastRefill
      BY DecisionBuckets, LimiterAssumption DEF Entry
    <3> QED BY <1>1, <2>1, <2>3, <3>1, <3>3, <3>4 DEF Potential
  <2>4. CASE w # c /\ kept[w] = clients[w]
    <3>1. clients'[w] = clients[w]
      BY <1>1, <2>4, DecisionBuckets
    <3>2. granted'[w] = granted[w] /\ forgotten'[w] = forgotten[w]
      BY <2>4 DEF Decision
    <3> QED BY <1>1, <2>1, <2>2, <3>1, <3>2 DEF Potential
  <2>5. CASE w # c /\ kept[w] # clients[w]
    <3>1. /\ kept[w] = NoEntry /\ clients[w] \in Entry
          /\ now >= clients[w].lastSeen + clientIdleTTL /\ now <= clock
      BY <1>1, <2>5 DEF Decision
    <3>2. clients'[w] = NoEntry
      BY <1>1, <2>5, <3>1, DecisionBuckets
    <3>3. granted'[w] = granted[w] /\ forgotten'[w] = forgotten[w] + 1
      BY <1>3, <2>5 DEF Decision
    <3> QED BY <1>1, <1>3, <3>1, <3>2, <3>3, EvictedPotential DEF Potential
  <2> QED BY <2>3, <2>4, <2>5
<1> QED BY <1>2, <1>3

-----------------------------------------------------------------------------
\* Allow keeps the invariant.
LEMMA AllowKeeps ==
  ASSUME IInv, NEW h \in Handlers, Allow(h)
  PROVE  IInv'
<1>1. PICK c \in Clients, now \in Nat, kept \in [Clients -> Entry \union {NoEntry}],
           entry \in Entry : Decision(c, now, kept, entry)
  BY AllowDecides
<1>2. Buckets' /\ clients' \in [Clients -> Entry \union {NoEntry}]
  BY <1>1, DecisionBuckets
<1>3. Window'
  BY <1>1, DecisionWindow
<1>4. waiting' = [waiting EXCEPT ![h] = Idle] /\ UNCHANGED <<clock, lag, windowStart>>
  BY DEF Allow
<1>5. Stamps'
  BY <1>4 DEF IInv, TypeOK, Stamps
<1>6. lastCleanup' \in [Shards -> Nat]
  <2>1. waiting[h] \in [client : Clients, now : Nat] /\ waiting[h].now \in Nat
    BY DEF Allow, IInv, TypeOK
  <2>2. \E s : lastCleanup' = [lastCleanup EXCEPT
                 ![s] = IF CleanupDue(s, waiting[h].now) THEN waiting[h].now ELSE @]
    BY DEF Allow
  <2> QED BY <2>1, <2>2 DEF IInv, TypeOK
<1>7. decision' \in [client : Clients, allowed : BOOLEAN]
  BY <1>1 DEF Decision
<1>8. granted' \in [Watched -> Nat] /\ forgotten' \in [Watched -> Nat]
  BY <1>1 DEF Decision, IInv, TypeOK
<1>9. waiting' \in [Handlers -> [client : Clients, now : Nat] \union {Idle}]
  BY <1>4 DEF IInv, TypeOK
<1>10. clock' \in Nat /\ lag' \in 0 .. MaxLag /\ windowStart' \in Nat \union {NoWindow}
  BY <1>4 DEF IInv, TypeOK
<1> QED BY <1>2, <1>3, <1>5, <1>6, <1>7, <1>8, <1>9, <1>10 DEF IInv, TypeOK

\* Reading the clock takes a stamp that is current.
LEMMA ReadClockKeeps ==
  ASSUME IInv, NEW h \in Handlers, NEW c \in Clients, ReadClock(h, c)
  PROVE  IInv'
<1>1. TypeOK'
  BY DEF IInv, TypeOK, ReadClock, window
<1>2. Stamps'
  <2>1. clock \in Nat /\ lag \in Nat
    BY LimiterAssumption DEF IInv, TypeOK
  <2> SUFFICES ASSUME NEW k \in Handlers, waiting'[k] # Idle
               PROVE  waiting'[k].now <= clock /\ clock <= waiting'[k].now + lag
    BY DEF Stamps, ReadClock
  <2>2. CASE k = h
    <3>1. waiting'[k].now = clock
      BY <2>2 DEF ReadClock, IInv, TypeOK
    <3> QED BY <2>1, <3>1
  <2>3. CASE k # h
    BY <2>3 DEF ReadClock, IInv, TypeOK, Stamps
  <2> QED BY <2>2, <2>3
<1>3. Buckets' /\ Window'
  BY DEF IInv, Buckets, Window, Potential, Base, ReadClock, window
<1> QED BY <1>1, <1>2, <1>3 DEF IInv

\* Time goes on only while no handler holds a stamp that is lag old.
LEMMA TickKeeps ==
  ASSUME IInv, Tick
  PROVE  IInv'
<1>0. clock \in Nat /\ lag \in Nat /\ clock' = clock + 1
  BY LimiterAssumption DEF IInv, TypeOK, Tick
<1>1. TypeOK'
  BY <1>0 DEF IInv, TypeOK, Tick, window
<1>2. Stamps'
  <2> SUFFICES ASSUME NEW h \in Handlers, waiting[h] # Idle
               PROVE  waiting[h].now <= clock + 1 /\ clock + 1 <= waiting[h].now + lag
    BY <1>0 DEF Stamps, Tick
  <2>1. waiting[h].now \in Nat /\ waiting[h].now <= clock /\ clock - waiting[h].now < lag
    BY DEF IInv, TypeOK, Stamps, Tick
  <2> QED BY <1>0, <2>1
<1>3. Buckets'
  <2> SUFFICES ASSUME NEW c \in Clients, clients[c] # NoEntry
               PROVE  /\ clients[c].tokens <= capacity
                      /\ clients[c].lastRefill <= clients[c].lastSeen
                      /\ clients[c].lastRefill <= clock + 1
    BY <1>0 DEF Buckets, Tick
  <2>1. clients[c].lastRefill \in Nat /\ clients[c].lastRefill <= clock
    BY DEF IInv, TypeOK, Buckets, Entry
  <2> QED BY <1>0, <2>1 DEF IInv, Buckets
<1>4. Window'
  <2>1. CASE windowStart = NoWindow
    BY <2>1 DEF IInv, Window, Tick, window
  <2>2. CASE windowStart # NoWindow
    <3>1. windowStart \in Nat /\ windowStart <= clock
      BY <2>2 DEF IInv, TypeOK, Window
    <3> SUFFICES ASSUME NEW c \in Watched PROVE Potential(c)'
      BY <1>0, <2>2, <3>1 DEF Window, Tick, window
    <3>2. Potential(c) /\ granted[c] \in Nat /\ forgotten[c] \in Nat
      BY <2>2 DEF IInv, TypeOK, Window
    <3>3. CASE clients[c] # NoEntry
      BY <3>2, <3>3 DEF Potential, Base, Tick, window
    <3>4. CASE clients[c] = NoEntry
      <4> DEFINE f == forgotten[c] * lag
      <4>1. f \in Nat
        BY <1>0, <3>2
      <4>2. One \in Nat
        BY LimiterAssumption
      <4>3. granted[c] * One \in Nat
        BY <3>2, <4>2
      <4>4. granted[c] = 0 \/ granted[c] * One <= (clock - windowStart + f) * Rate
        BY <3>2, <3>4 DEF Potential
      <4> HIDE DEF f
      <4>5. (clock - windowStart + f) * Rate <= (clock + 1 - windowStart + f) * Rate
        BY <1>0, <3>1, <4>1, FlowArithmetic
      <4>6. (clock - windowStart + f) * Rate \in Int /\ (clock + 1 - windowStart + f) * Rate \in Int
        BY <1>0, <3>1, <4>1, FlowArithmetic
      <4>7. granted[c] = 0 \/ granted[c] * One <= (clock + 1 - windowStart + f) * Rate
        BY <4>3, <4>4, <4>5, <4>6
      <4>8. UNCHANGED <<clients, windowStart, granted, forgotten, lag>>
        BY DEF Tick, window
      <4>9. forgotten'[c] * lag' = f
        BY <4>8 DEF f
      <4>10. clock' - windowStart' + forgotten'[c] * lag' = clock + 1 - windowStart + f
        BY <1>0, <3>1, <4>1, <4>8, <4>9
      <4>11. clients'[c] = NoEntry /\ granted'[c] = granted[c]
        BY <3>4, <4>8
      <4> QED BY <4>7, <4>10, <4>11 DEF Potential
    <3> QED BY <3>3, <3>4
  <2> QED BY <2>1, <2>2
<1> QED BY <1>1, <1>2, <1>3, <1>4 DEF IInv

\* A window may open at any moment: a bucket is never overfull.
LEMMA OpenWindowKeeps ==
  ASSUME IInv, OpenWindow
  PROVE  IInv'
<1>0. clock \in Nat /\ lag \in Nat /\ capacity \in Nat /\ One \in Nat
  BY LimiterAssumption, CapacityPositive DEF IInv, TypeOK
<1>1. TypeOK' /\ Buckets' /\ Stamps'
  BY DEF IInv, TypeOK, Buckets, Stamps, OpenWindow
<1>2. windowStart' = clock /\ windowStart' # NoWindow /\ Base' = clock - lag
  BY <1>0 DEF OpenWindow, NoWindow, Base
<1>3. ASSUME NEW c \in Watched PROVE Potential(c)'
  <2>1. granted[c] = 0 /\ forgotten[c] = 0 /\ c \in Clients
    BY LimiterAssumption DEF IInv, Window, OpenWindow
  <2>2. CASE clients[c] = NoEntry
    BY <2>1, <2>2 DEF Potential, OpenWindow
  <2>3. CASE clients[c] # NoEntry /\ clients[c].lastRefill < clock - lag
    BY <1>2, <2>1, <2>3 DEF Potential, OpenWindow
  <2>4. CASE clients[c] # NoEntry /\ ~(clients[c].lastRefill < clock - lag)
    <3> DEFINE last == clients[c].lastRefill
    <3>1. last \in Nat /\ clients[c].tokens \in Nat /\ clients[c].tokens <= capacity
      BY <2>1, <2>4 DEF IInv, TypeOK, Buckets, Entry
    <3>2. last >= clock - lag
      BY <1>0, <2>4, <3>1
    <3> HIDE DEF last
    <3>3. last - (clock - lag) + 0 * lag \in Nat
      BY <1>0, <3>1, <3>2
    <3>4. (last - (clock - lag) + 0 * lag) * Rate \in Nat
      BY <3>3, FlowArithmetic
    <3>5. 0 * One + clients[c].tokens <= capacity + (last - (clock - lag) + 0 * lag) * Rate
      BY <1>0, <3>1, <3>4
    <3> QED BY <1>2, <2>1, <2>4, <3>2, <3>5 DEF Potential, OpenWindow, last
  <2> QED BY <2>2, <2>3, <2>4
<1> QED BY <1>0, <1>1, <1>2, <1>3 DEF IInv, Window, OpenWindow

\* The invariant holds initially and is kept by every step.
LEMMA InductiveInvariant == Spec => []IInv
<1>1. Init => IInv
  <2> SUFFICES ASSUME Init PROVE IInv
    OBVIOUS
  <2>1. TypeOK
    BY LimiterAssumption DEF Init, TypeOK
  <2>2. Buckets /\ Stamps /\ Window
    BY DEF Init, Buckets, Stamps, Window
  <2> QED BY <2>1, <2>2 DEF IInv
<1>2. IInv /\ [Next]_vars => IInv'
  <2> SUFFICES ASSUME IInv, [Next]_vars PROVE IInv'
    OBVIOUS
  <2>1. ASSUME NEW h \in Handlers, Allow(h) PROVE IInv'
    BY <2>1, AllowKeeps
  <2>2. ASSUME NEW h \in Handlers, NEW c \in Clients, ReadClock(h, c) PROVE IInv'
    BY <2>2, ReadClockKeeps
  <2>3. CASE Tick
    BY <2>3, TickKeeps
  <2>4. CASE OpenWindow
    BY <2>4, OpenWindowKeeps
  <2>5. CASE UNCHANGED vars
    BY <2>5 DEF IInv, TypeOK, Buckets, Stamps, Window, Potential, Base, vars, window
  <2> QED BY <2>1, <2>2, <2>3, <2>4, <2>5 DEF Next
<1> QED BY <1>1, <1>2, PTL DEF Spec

\* Type correctness: no bucket's level, stamp or counter leaves the naturals,
\* whatever order the stamps are applied in (Bucket.refill).
THEOREM TypeCorrect == Spec => []TypeOK
BY InductiveInvariant, PTL DEF IInv

\* In every window a client is granted at most its burst and what flows in,
\* with one lag for the window and one for every eviction inside it
\* (ClientLimiter.Allow, clientShard.cleanup).
THEOREM RateAlwaysBounded == Spec => []RateBound
<1>1. IInv => RateBound
  <2> SUFFICES ASSUME IInv, windowStart # NoWindow, NEW c \in Watched
               PROVE  granted[c] * One <=
                 capacity + (clock - windowStart + (1 + forgotten[c]) * lag) * Rate
    BY DEF RateBound
  <2> DEFINE f == forgotten[c] * lag
             g == granted[c] * One
  <2>1. /\ clock \in Nat /\ windowStart \in Nat /\ windowStart <= clock /\ lag \in Nat
        /\ forgotten[c] \in Nat /\ granted[c] \in Nat /\ One \in Nat
        /\ capacity \in Nat /\ c \in Clients
    BY LimiterAssumption, CapacityPositive DEF IInv, TypeOK, Window
  <2>2. f \in Nat /\ g \in Nat /\ (1 + forgotten[c]) * lag = lag + f
    BY <2>1
  <2>3. granted[c] = 0 => g = 0
    BY <2>1
  <2>4. CASE clients[c] = NoEntry
    <3>1. granted[c] = 0 \/ g <= (clock - windowStart + f) * Rate
      BY <2>4 DEF IInv, Window, Potential
    <3> HIDE DEF f, g
    <3>2. /\ clock - windowStart + f \in Nat /\ clock - windowStart + (lag + f) \in Nat
          /\ clock - windowStart + f <= clock - windowStart + (lag + f)
      BY <2>1, <2>2
    <3>3. /\ (clock - windowStart + f) * Rate \in Nat
          /\ (clock - windowStart + (lag + f)) * Rate \in Nat
          /\ (clock - windowStart + f) * Rate <= (clock - windowStart + (lag + f)) * Rate
      BY <3>2, FlowArithmetic
    <3>4. g <= capacity + (clock - windowStart + (lag + f)) * Rate
      BY <2>1, <2>2, <2>3, <3>1, <3>3
    <3> QED BY <2>2, <3>4 DEF g
  <2>5. CASE clients[c] # NoEntry
    <3> DEFINE last == clients[c].lastRefill
    <3>1. /\ last \in Nat /\ last <= clock /\ clients[c].tokens \in Nat
      BY <2>1, <2>5 DEF IInv, TypeOK, Buckets, Entry
    <3>2. \/ granted[c] = 0
          \/ g + clients[c].tokens <= capacity + (last - Base + f) * Rate
      BY <2>5 DEF IInv, Window, Potential
    <3> HIDE DEF f, g, last
    <3>3. /\ last - Base + f \in Int /\ clock - windowStart + (lag + f) \in Nat
          /\ last - Base + f <= clock - windowStart + (lag + f)
      BY <2>1, <2>2, <3>1 DEF Base
    <3>4. /\ (last - Base + f) * Rate \in Int
          /\ (clock - windowStart + (lag + f)) * Rate \in Nat
          /\ (last - Base + f) * Rate <= (clock - windowStart + (lag + f)) * Rate
      BY <3>3, FlowArithmetic
    <3>5. g <= capacity + (clock - windowStart + (lag + f)) * Rate
      BY <2>1, <2>2, <2>3, <3>1, <3>2, <3>4
    <3> QED BY <2>2, <3>5 DEF g
  <2> QED BY <2>4, <2>5
<1> QED BY <1>1, InductiveInvariant, PTL

-----------------------------------------------------------------------------
\* The level that an eagerly filled bucket would show.
Level(c) ==
  IF clients[c] = NoEntry THEN capacity
  ELSE Least(capacity, clients[c].tokens + (clock - clients[c].lastRefill) * Rate)

\* A bucket that was idle for the time to live would be full.
LEMMA IdleIsFull ==
  ASSUME IInv, NEW c \in Clients, clients[c] \in Entry,
         clock >= clients[c].lastSeen + clientIdleTTL
  PROVE  Level(c) = capacity
<1> DEFINE since == clock - clients[c].lastRefill
<1>1. /\ clients[c] # NoEntry /\ clients[c].tokens \in Nat
      /\ clients[c].lastRefill \in Nat /\ clients[c].lastSeen \in Nat
      /\ clients[c].lastRefill <= clients[c].lastSeen
      /\ clock \in Nat /\ capacity \in Nat
  BY LimiterAssumption, CapacityPositive DEF IInv, TypeOK, Buckets, Entry
<1>2. since \in Nat /\ clientIdleTTL \in Nat /\ clientIdleTTL <= since
  BY <1>1, TTLFillsBucket
<1> HIDE DEF since
<1>3. since * Rate \in Nat /\ clientIdleTTL * Rate \in Nat
      /\ clientIdleTTL * Rate <= since * Rate
  <2>1. \A m, n \in Nat : m <= n => m * Rate \in Nat /\ n * Rate \in Nat
                                    /\ m * Rate <= n * Rate
    BY FlowArithmetic
  <2> QED BY <1>2, <2>1
<1>4. capacity <= clients[c].tokens + since * Rate
  BY <1>1, <1>3, TTLFillsBucket
<1>5. clients[c].tokens + since * Rate \in Nat
  BY <1>1, <1>3
<1>6. Least(capacity, clients[c].tokens + since * Rate) = capacity
  BY <1>1, <1>4, <1>5 DEF Least
<1> QED BY <1>1, <1>6 DEF Level, since

\* Without lag a decision is made on the eager level, takes one token from it
\* and leaves the other clients' levels as they are.
LEMMA DecisionIsEager ==
  ASSUME IInv, lag = 0, NEW c \in Clients, NEW now \in Nat,
         NEW kept \in [Clients -> Entry \union {NoEntry}], NEW entry \in Entry,
         Decision(c, now, kept, entry)
  PROVE  /\ entry.tokens = Level(c)
         /\ Level(c)' = IF entry.tokens >= One THEN entry.tokens - One
                                               ELSE entry.tokens
         /\ \A d \in Clients \ {c} : Level(d)' = Level(d)
<1>1. /\ clock \in Nat /\ now = clock /\ clock' = clock /\ One \in Nat /\ capacity \in Nat
      /\ entry.tokens \in Nat /\ entry.tokens <= capacity
  <2>1. clock \in Nat /\ One \in Nat /\ capacity \in Nat /\ entry.tokens \in Nat
    BY LimiterAssumption, CapacityPositive DEF IInv, TypeOK, Entry
  <2>2. now <= clock /\ clock <= now + lag /\ clock' = clock /\ entry.tokens <= capacity
    BY DEF Decision
  <2> QED BY <2>1, <2>2
<1>2. ASSUME NEW d \in Clients, kept[d] = NoEntry PROVE Level(d) = capacity
  <2>1. CASE clients[d] = NoEntry
    BY <2>1 DEF Level
  <2>2. CASE clients[d] # NoEntry
    <3>1. clients[d] \in Entry /\ clock >= clients[d].lastSeen + clientIdleTTL
      BY <1>1, <1>2, <2>2 DEF Decision
    <3> QED BY <3>1, IdleIsFull
  <2> QED BY <2>1, <2>2
<1>3. /\ clients'[c] \in Entry /\ clients'[c] # NoEntry
      /\ clients'[c].lastRefill = entry.lastRefill
      /\ clients'[c].tokens =
           IF entry.tokens >= One THEN entry.tokens - One ELSE entry.tokens
      /\ \A d \in Clients \ {c} : clients'[d] = kept[d]
  BY DecisionBuckets, LimiterAssumption DEF Entry
<1>4. entry.tokens = Level(c) /\ entry.lastRefill = clock
  <2>1. CASE kept[c] = NoEntry
    BY <1>1, <1>2, <2>1 DEF Decision
  <2>2. CASE kept[c] # NoEntry
    <3>1. kept[c] = clients[c] /\ clients[c] # NoEntry /\ clients[c] \in Entry
      BY <2>2 DEF Decision
    <3>2. clients[c].lastRefill <= clock /\ clients[c].lastRefill \in Nat
      BY <3>1 DEF IInv, Buckets, Entry
    <3>3. entry.lastRefill = clock
      BY <1>1, <2>2, <3>2 DEF Decision, Greatest
    <3> QED BY <2>2, <3>1, <3>3 DEF Decision, Level
  <2> QED BY <2>1, <2>2
<1>5. Level(c)' = clients'[c].tokens
  <2> DEFINE t == clients'[c].tokens
  <2>1. t \in Nat /\ t <= capacity
    BY <1>1, <1>3
  <2>2. (clock - clock) * Rate = 0
    BY <1>1, LimiterAssumption
  <2>3. Level(c)' = Least(capacity, t + (clock - clock) * Rate)
    BY <1>1, <1>3, <1>4 DEF Level
  <2> HIDE DEF t
  <2>4. Least(capacity, t + 0) = t
    BY <1>1, <2>1 DEF Least
  <2> QED BY <2>2, <2>3, <2>4 DEF t
<1>6. ASSUME NEW d \in Clients \ {c} PROVE Level(d)' = Level(d)
  <2>1. CASE kept[d] = NoEntry
    BY <1>2, <1>3, <2>1 DEF Level
  <2>2. CASE kept[d] # NoEntry
    <3>1. clients'[d] = clients[d]
      BY <1>3, <2>2 DEF Decision
    <3> QED BY <1>1, <3>1 DEF Level
  <2> QED BY <2>1, <2>2
<1> QED BY <1>3, <1>4, <1>5, <1>6

\* A tick brings every eager level one tick's flow.
LEMMA TickIsEager ==
  ASSUME IInv, Tick, NEW c \in Clients
  PROVE  Level(c)' = IF Level(c) + Rate > capacity THEN capacity ELSE Level(c) + Rate
<1>1. /\ clock \in Nat /\ clock' = clock + 1 /\ clients' = clients
      /\ Rate \in Nat \ {0} /\ capacity \in Nat
  BY LimiterAssumption, CapacityPositive DEF IInv, TypeOK, Tick
<1>2. CASE clients[c] = NoEntry
  BY <1>1, <1>2 DEF Level
<1>3. CASE clients[c] # NoEntry
  <2> DEFINE t == clients[c].tokens
             since == clock - clients[c].lastRefill
             flow == since * Rate
             flowNext == (clock + 1 - clients[c].lastRefill) * Rate
  <2>1. /\ t \in Nat /\ since \in Int /\ clients[c].lastRefill \in Nat
        /\ clock + 1 - clients[c].lastRefill = since + 1
    BY <1>1, <1>3 DEF IInv, TypeOK, Entry
  <2>2. Level(c) = Least(capacity, t + flow)
    BY <1>3 DEF Level
  <2>3. Level(c)' = Least(capacity, t + flowNext)
    <3>1. Level(c)' = Least(capacity, t + (clock' - clients[c].lastRefill) * Rate)
      BY <1>1, <1>3 DEF Level
    <3>2. clock' - clients[c].lastRefill = clock + 1 - clients[c].lastRefill
      BY <1>1, <2>1
    <3> QED BY <3>1, <3>2
  <2>4. since * Rate \in Int /\ (since + 1) * Rate = since * Rate + Rate
    <3> HIDE DEF since
    <3>1. (since + 1) * Rate = since * Rate + 1 * Rate
      BY <2>1, FlowArithmetic
    <3>2. 1 * Rate = Rate
      BY <1>1
    <3> QED BY <2>1, <3>1, <3>2, FlowArithmetic
  <2>5. flow \in Int /\ flowNext = flow + Rate
    BY <2>1, <2>4
  <2> HIDE DEF t, flow, flowNext
  <2> QED BY <1>1, <2>1, <2>2, <2>3, <2>5 DEF Least
<1> QED BY <1>2, <1>3

\* Without lag, forgetting idle clients and refilling lazily changes no answer:
\* every step of the limiter is a step of the eagerly filled, never forgotten
\* buckets of TokenBuckets, or none.
THEOREM LimiterImplementsTokenBuckets == Spec => ImplementsTokenBuckets
<1> DEFINE level == [c \in Clients |-> Level(c)]
<1>1. Init => Promise!TBInit
  <2> SUFFICES ASSUME Init PROVE Promise!TBInit
    OBVIOUS
  <2>1. \A c \in Clients : clients[c] = NoEntry
    BY DEF Init
  <2> QED BY <2>1 DEF Init, Promise!TBInit
<1>2. IInv /\ [Next]_vars => [lag = 0 => [Promise!TBNext]_(Promise!tbVars)]_vars
  <2> SUFFICES ASSUME IInv, Next, lag = 0
               PROVE  Promise!TBNext \/ UNCHANGED <<level, decision>>
    BY DEF Promise!tbVars, Level
  <2>1. ASSUME NEW h \in Handlers, Allow(h) PROVE Promise!TBNext
    <3>1. PICK c \in Clients, now \in Nat, kept \in [Clients -> Entry \union {NoEntry}],
               entry \in Entry : Decision(c, now, kept, entry)
      BY <2>1, AllowDecides
    <3>2. /\ entry.tokens = Level(c)
          /\ Level(c)' = IF entry.tokens >= One THEN entry.tokens - One ELSE entry.tokens
          /\ \A d \in Clients \ {c} : Level(d)' = Level(d)
      BY <3>1, DecisionIsEager
    <3>3. decision' = [client |-> c, allowed |-> level[c] >= One]
      BY <3>1, <3>2 DEF Decision
    <3>4. level' = [level EXCEPT ![c] = IF level[c] >= One THEN level[c] - One ELSE level[c]]
      BY <3>2
    <3>5. Promise!Decide(c)
      BY <3>3, <3>4 DEF Promise!Decide, Level
    <3> QED BY <3>5 DEF Promise!TBNext
  <2>2. ASSUME NEW h \in Handlers, NEW c \in Clients, ReadClock(h, c)
        PROVE  UNCHANGED <<level, decision>>
    BY <2>2 DEF ReadClock, Level
  <2>3. CASE Tick
    <3>1. level' = [c \in Clients |-> IF level[c] + Rate > capacity
                                      THEN capacity ELSE level[c] + Rate]
      BY <2>3, TickIsEager
    <3>2. Promise!Flow
      BY <2>3, <3>1 DEF Promise!Flow, Level, Tick
    <3> QED BY <3>2 DEF Promise!TBNext
  <2>4. CASE OpenWindow
    BY <2>4 DEF OpenWindow, Level
  <2> QED BY <2>1, <2>2, <2>3, <2>4 DEF Next
<1> QED BY <1>1, <1>2, InductiveInvariant, PTL DEF Spec, ImplementsTokenBuckets
=============================================================================
