CONSTANTS
  source = q
  Users = {u1}
  Bans = {b1}
  UserModes = {"o"}
  Keys = {1, 2}
  Limits = {1, 2}
  Simple = {"s", "p"}
  NONE = NONE
  FREED = FREED
  MAXMODEARGS = 3
  LineArgs = 2
  TakesBack = TRUE
SPECIFICATION Spec
INVARIANT NoLimitComesBack
