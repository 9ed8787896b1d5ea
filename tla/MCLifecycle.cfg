SPECIFICATION FairSpec
CONSTANTS
  None = None
  Backends = {b1, b2}
  Requests = {r1}
  Configs <- MCConfigs
  Environment = {"set"}
  Paths <- MCPaths
CHECK_DEADLOCK FALSE
INVARIANTS TypeOK AcceptedIsSound MostSpecificRoute VerdictsAreCurrent DrainKeepsBackends NothingLeftBehind
PROPERTIES HealthConverges ShutdownEnds
