SPECIFICATION Spec
CONSTANTS
  Pools = {p1, p2}
  Size = 2
INVARIANTS TypeOK NoFalseAlarm NoFalseReady OneHot
