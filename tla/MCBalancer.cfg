SPECIFICATION Spec
CONSTANTS
  Requests = {r1, r2, r3}
  N = 3
SYMMETRY Symmetry
INVARIANTS ConnectionsCounted FewestConnections
PROPERTIES EvenRotation ImplementsBackendPool
