CONSTANTS
  n1 = n1
  n2 = n2
  n3 = n3
  q = q
  x1 = x1
  x2 = x2
  u1 = u1
  u2 = u2
  NULL = NULL
  Names = {n1, n2}
  Chans = {x1, x2}
  Nicks = {u1, u2, q}
  Services = {q}
  KickHooks = {"newnick", "newchannel", "join"}
  KillHooks = {"join"}
  BurstKicks = FALSE
  JoinHooks = {"newchannel"}
  MaxDepth = 4
  MaxPending = 2
  NONE = NONE
  FREED = FREED
  Bans = {b1}
  Simple = {"s", "p"}
  MAXMODEARGS = 3
  LineArgs = 2
  Keys = {1, 2}
  Limits = {1}
  UserIDs = {1, 2, 3}
  AuthNicks = {x1, x2}
  Regusers = {r1, r2, r3}
  Authedusers = {x1, x2}
  MaxBits = 3
  Lengths = {0, 1, 2, 3}
  MaxHeld = 4
SPECIFICATION MCSpec
SYMMETRY Symmetry
INVARIANTS
  MirrorExact
  ChannelsAlive
  
  FlushTells
  TreeExact
  CountsExact
  RecordsExact
PROPERTIES
  HookChannelAlive
