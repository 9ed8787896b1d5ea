SPECIFICATION Spec
CONSTANTS
  Keys = {k1}
  Responses <- Response
  Handlers = {h1, h2}
  TTL = 2
  MaxEntries = 1
  NoResponse = NoResponse
  MaxBytes = 1
  MaxBody = 2
  MaxFlight = 2
  MaxTime = 2
SYMMETRY Symmetry
INVARIANT TrailersNotStored
