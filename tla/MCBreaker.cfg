SPECIFICATION Spec
CONSTANTS
  Permits = {p1, p2, p3}
  FailureThreshold = 2
  OpenTimeout = 2
  HalfOpenMaxRequests = 2
  MaxTime = 5
  MaxGeneration = 6
SYMMETRY Symmetry
INVARIANTS SlotsAccounted ThresholdArmed
PROPERTY ImplementsCircuitBreaker
