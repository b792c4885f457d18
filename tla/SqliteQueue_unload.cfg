CONSTANTS
  Query = {q1, q2, q3}
  Modules = {m1, m2}
  NULL = NULL
  NOBODY = NOBODY
  ANON = ANON
  BareNamed = FALSE
  Unnamed = TRUE
SPECIFICATION Spec
INVARIANT CleanedUp
CHECK_DEADLOCK FALSE
