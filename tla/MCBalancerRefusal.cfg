SPECIFICATION Spec
CONSTANTS
  Requests = {r1}
  N = 2
SYMMETRY Symmetry
PROPERTIES RefusedOnlyWhenAllDown
