CONSTANTS
  Masks = {m1}
  Durations = {2}
  Ahead = 1
  Ulined = FALSE
  Crossing = TRUE
  MaxTime = 2
  MaxWire = 2
  NULL = NULL
SPECIFICATION Spec
INVARIANT SameChange
