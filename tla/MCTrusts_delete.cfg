CONSTANTS
  n1 = n1
  n2 = n2
  n3 = n3
  Address <- MCAddress
  Masks <- MCMasks
  AddressBits = 2
  Group = {g1, g2}
  NONE = NONE
  FREED = FREED
  DeletesCovered = TRUE
  EarlyChanges = FALSE
SPECIFICATION Spec
INVARIANT CoveredAlready
