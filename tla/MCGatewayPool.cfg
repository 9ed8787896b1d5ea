SPECIFICATION FairSpec
CONSTANTS
  Requests = {r1, r2, r3}
  Backends = {b1}
  NoBackend = NoBackend
  Threshold = 2
  Timeout = 1
  Batch = 2
INVARIANTS TypeOK PermitsSettled BackendsReturned ProbeBudget
PROPERTIES HalfOpenResolves Recovery
