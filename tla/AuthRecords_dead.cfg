CONSTANTS
  Users = {1, 2}
  Nicks = {n1, n2}
  Regusers = {r1, r2, r3}
  Authedusers = {a1, a2}
  NULL = NULL
SPECIFICATION Spec
INVARIANT DeadAreFreed
