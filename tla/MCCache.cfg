SPECIFICATION CacheSpec
CONSTANTS
  Keys = {k1, k2, k3, k4}
  Responses = {v1, v2}
  TTL = 2
  MaxEntries = 3
  NoResponse = NoResponse
  MaxTime = 5
SYMMETRY Symmetry
INVARIANTS CacheTypeOK RecentlyUsedKept
PROPERTY ExpiredGoFirst
