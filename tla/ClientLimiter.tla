--------------------------- MODULE ClientLimiter ---------------------------
(***************************************************************************)
(* Per-client rate limiting, internal/ratelimiter: the token bucket of     *)
(* bucket.go and the sharded, self-cleaning map of client_limiter.go.      *)
(*                                                                         *)
(* Allow reads the clock before it takes the shard's mutex, so a request   *)
(* can apply a time stamp that is older than what the bucket has already   *)
(* seen.  Everything after the lock is one step.  Tokens are counted in    *)
(* units, One units to the token, so that a tick can bring a fraction of a *)
(* token; the rounding of float64 is left out.  The hash that spreads the  *)
(* clients over the shards is an arbitrary function.                       *)
(***************************************************************************)
EXTENDS Integers

CONSTANTS Clients,
          Shards, ShardFor,     \* shardFor: which shard a client falls into
          Handlers,             \* request goroutines
          NoEntry,              \* a client that has no entry
          Watched,              \* the clients whose grants are counted
          Rate, One, Burst,     \* tokensPerSecond and burst, in units
          IdleTTL,              \* clientIdleTTL asked for
          CleanupInterval,
          MaxLag,               \* bound: the largest lag
          MaxTime               \* bound: the clock stops here

ASSUME LimiterAssumption ==
  /\ ShardFor \in [Clients -> Shards]
  /\ Watched \subseteq Clients
  /\ Rate \in Nat \ {0}
  /\ One \in Nat \ {0}
  /\ Burst \in Nat \ {0}
  /\ IdleTTL \in Nat \ {0}
  /\ CleanupInterval \in Nat \ {0}
  /\ MaxLag \in Nat
  /\ MaxTime \in Nat
  /\ NoEntry \notin [tokens : Nat, lastRefill : Nat, lastSeen : Nat]

Least(a, b) == IF a < b THEN a ELSE b
Greatest(a, b) == IF a > b THEN a ELSE b

capacity == Burst * One

\* The time an empty bucket takes to fill, rounded up.
bucketRefillDuration == (capacity + Rate - 1) \div Rate

\* Mutant: the time to live asked for is taken as it is.
idleTTLAsked == IdleTTL

\* An entry is kept at least until its bucket would be full again.
clientIdleTTL == Greatest(IdleTTL, bucketRefillDuration)

VARIABLES clients,        \* clientShard.clients of all shards together
          lastCleanup,    \* clientShard.lastCleanup
          waiting,        \* handlers between l.now() and the shard lock
          clock,
          lag,            \* the most ticks a handler spends, in this behaviour,
                          \*   between reading the clock and the shard lock
          decision,       \* the latest answer of Allow
          windowStart,    \* history: a window opened at an arbitrary moment,
          granted,        \*   what each client was granted since
          forgotten       \*   and how often its entry was evicted since

window == <<windowStart, granted, forgotten>>
vars == <<clients, lastCleanup, waiting, clock, lag, decision, window>>

Entry == [tokens : Nat, lastRefill : Nat, lastSeen : Nat]
Idle == [client |-> NoEntry, now |-> 0]
NoWindow == -1

TypeOK ==
  /\ clients \in [Clients -> Entry \union {NoEntry}]
  /\ lastCleanup \in [Shards -> Nat]
  /\ waiting \in [Handlers -> [client : Clients, now : Nat] \union {Idle}]
  /\ clock \in Nat
  /\ lag \in 0 .. MaxLag
  /\ decision \in [client : Clients, allowed : BOOLEAN]
  /\ windowStart \in Nat \union {NoWindow}
  /\ granted \in [Watched -> Nat]
  /\ forgotten \in [Watched -> Nat]

Init ==
  /\ clients = [c \in Clients |-> NoEntry]
  /\ lastCleanup = [s \in Shards |-> 0]
  /\ waiting = [h \in Handlers |-> Idle]
  /\ clock = 0
  /\ lag \in 0 .. MaxLag
  /\ decision \in [client : Clients, allowed : {FALSE}]
  /\ windowStart = NoWindow
  /\ granted = [c \in Watched |-> 0]
  /\ forgotten = [c \in Watched |-> 0]

-----------------------------------------------------------------------------
newBucketAt(now) == [tokens |-> capacity, lastRefill |-> now, lastSeen |-> now]

\* Mutant: a stamp from the past drains the bucket.
refillBackwards(entry, now) ==
  [entry EXCEPT !.tokens = Least(capacity, @ + (now - entry.lastRefill) * Rate),
                !.lastRefill = now]

\* Bucket.refill: a stamp that is not newer adds nothing.
refill(entry, now) ==
  IF now > entry.lastRefill
  THEN [entry EXCEPT
          !.tokens = Least(capacity, @ + (now - entry.lastRefill) * Rate),
          !.lastRefill = now]
  ELSE entry

\* clientShard.cleanup: once per interval, drop the shard's idle entries.
CleanupDue(s, now) == now >= lastCleanup[s] + CleanupInterval

Expired(entry, now) == now >= entry.lastSeen + clientIdleTTL

Kept(s, now) ==
  [c \in Clients |->
     IF /\ CleanupDue(s, now)
        /\ ShardFor[c] = s
        /\ clients[c] # NoEntry
        /\ Expired(clients[c], now)
     THEN NoEntry
     ELSE clients[c]]

\* The entry Allow works on: a fresh full bucket, or the known one.
Found(kept, c, now) ==
  IF kept[c] = NoEntry THEN newBucketAt(now)
  ELSE [kept[c] EXCEPT !.lastSeen = Greatest(@, now)]

\* Allow reads the clock ...
ReadClock(h, c) ==
  /\ waiting[h] = Idle
  /\ waiting' = [waiting EXCEPT ![h] = [client |-> c, now |-> clock]]
  /\ UNCHANGED <<clients, lastCleanup, clock, lag, decision, window>>

\* ... and decides under the shard lock.
Allow(h) ==
  /\ waiting[h] # Idle
  /\ LET c == waiting[h].client
         now == waiting[h].now
         s == ShardFor[c]
         kept == Kept(s, now)
         entry == refill(Found(kept, c, now), now)
         allowed == entry.tokens >= One
     IN  /\ lastCleanup' = [lastCleanup EXCEPT
              ![s] = IF CleanupDue(s, now) THEN now ELSE @]
         /\ clients' = [kept EXCEPT ![c] =
              IF allowed THEN [entry EXCEPT !.tokens = @ - One] ELSE entry]
         /\ decision' = [client |-> c, allowed |-> allowed]
         /\ granted' = [w \in Watched |->
              IF w = c /\ allowed /\ windowStart # NoWindow
              THEN granted[w] + 1 ELSE granted[w]]
         /\ forgotten' = [w \in Watched |->
              IF kept[w] # clients[w] /\ windowStart # NoWindow
              THEN forgotten[w] + 1 ELSE forgotten[w]]
  /\ waiting' = [waiting EXCEPT ![h] = Idle]
  /\ UNCHANGED <<clock, lag, windowStart>>

Tick ==
  /\ clock < MaxTime
  /\ \A h \in Handlers : waiting[h] # Idle => clock - waiting[h].now < lag
  /\ clock' = clock + 1
  /\ UNCHANGED <<clients, lastCleanup, waiting, lag, decision, window>>

\* An observer starts to count grants, once and at any moment.
OpenWindow ==
  /\ Watched # {}
  /\ windowStart = NoWindow
  /\ windowStart' = clock
  /\ UNCHANGED <<clients, lastCleanup, waiting, clock, lag, decision, granted,
                 forgotten>>

Next ==
  \/ \E h \in Handlers : Allow(h) \/ \E c \in Clients : ReadClock(h, c)
  \/ Tick
  \/ OpenWindow

Spec == Init /\ [][Next]_vars

-----------------------------------------------------------------------------
\* In every window of time a client is granted at most its burst plus what
\* flows in during the window.  A bucket that is created with a stale stamp is
\* refilled for the lag a second time, so each creation costs at most what
\* flows in during the lag; otherwise eviction gives a client nothing extra.
RateBound ==
  windowStart # NoWindow =>
    \A c \in Watched :
      granted[c] * One <=
        capacity + (clock - windowStart + (1 + forgotten[c]) * lag) * Rate

\* With no lag the lazily refilled, evicted and recreated buckets decide every
\* request as buckets that are filled eagerly and never forgotten would:
\* a client loses no token and gains none by being forgotten.
Promise == INSTANCE TokenBuckets WITH
  Capacity <- capacity,
  level <- [c \in Clients |->
              IF clients[c] = NoEntry THEN capacity
              ELSE Least(capacity,
                     clients[c].tokens + (clock - clients[c].lastRefill) * Rate)]

ImplementsTokenBuckets ==
  /\ Promise!TBInit
  /\ [][lag = 0 => [Promise!TBNext]_(Promise!tbVars)]_vars
=============================================================================
