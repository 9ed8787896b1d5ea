SPECIFICATION Spec
CONSTANTS
  Clients = {c1, c2}
  Shards = {s1}
  ShardFor <- OneShard
  Handlers = {h1, h2}
  NoEntry = NoEntry
  Watched = {c1}
  Rate = 1
  One = 2
  Burst = 2
  IdleTTL = 1
  CleanupInterval = 1
  MaxLag = 1
  MaxTime = 7
INVARIANTS TypeOK RateBound
PROPERTY ImplementsTokenBuckets
