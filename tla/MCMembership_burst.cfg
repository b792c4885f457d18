CONSTANTS
  n1 = n1
  n2 = n2
  c1 = c1
  c2 = c2
  u1 = u1
  u2 = u2
  NULL = NULL
  Names = {n1, n2}
  Chans = {c1, c2}
  Nicks = {u1, u2, q}
  Services = {q}
  KickHooks = {"newnick", "newchannel", "join"}
  KillHooks = {"join"}
  BurstKicks = TRUE
  JoinHooks = {"newchannel"}
  MaxDepth = 4
  MaxPending = 2
SPECIFICATION Spec
SYMMETRY MembershipSymmetry
PROPERTY HookChannelAlive
