SPECIFICATION Spec
CONSTANTS
  None = None
  Requests = {r1, r2}
  Shapes <- MCShapes
  Answers <- MCAnswers
  Clients = {"c1", "c2"}
  Gateways <- MCGateways
SYMMETRY Symmetry
CHECK_DEADLOCK FALSE
INVARIANTS TypeOK StatusAgrees Correlated GrantsAreOwn PolicyFirst CacheStatusTrue
