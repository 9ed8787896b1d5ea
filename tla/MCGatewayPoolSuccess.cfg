SPECIFICATION Spec
CONSTANTS
  Requests = {r1, r2}
  Backends = {b1}
  NoBackend = NoBackend
  Threshold = 2
  Timeout = 1
  Batch = 1
SYMMETRY Symmetry
INVARIANT SuccessMeansCompleted
