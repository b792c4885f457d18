CONSTANTS
  NULL = NULL
  NONE = NONE
  FREED = FREED
  nouser = nouser
  HashNumerics = {0, 2, 4, 6, 12}
  CUHASH_DEPTH = 2
  MaxGrowth = 6
  Keys = {1, 2}
  Limits = {1}
  ChannelUsers = {1, 2, 3}
  SimpleModes = {"s"}
  ModeTimes = {1, 3}
  MAGIC_REMOTE_JOIN_TS = 2
  Items = {e1, e2, e3, e4, e5, e6}
  HeapTimes = {0, 1, 2}
  Handlers = {f, g}
  MaxCommands = 4
  TreeServers = {0, 1, 2, 3}
  mynumeric = 0
  MaxWire = 3
  MaxEvents = 4
  n1 = n1
  n2 = n2
  n3 = n3
  Group = {g1, g2}
  GlineMasks = {"*@host"}
  Durations = {2, 3}
  Ahead = 1
  Ulined = TRUE
  LastSecond = 4
  MaxLines = 2
  Node = {a1, a2}
  thescans <- OneScan
  maxscans = 2
  PassDelay = 1
  CleanInterval = 0
  DirtyInterval = 1
  Again = 1
  MaxClock = 2
  MaxForced = 1
  Servers = {s1, s2}
  MyServer = s1
  Clients = {0, 1, 2}
  maxusernum = 1
  Names = {m1, m2}
  Idents = {"i"}
  Hosts = {x1, x2}
  Auths = {"a"}
  Times = {1, 2}
  Nicks = {u1, u2, q}
  AccountModes = FALSE
SPECIFICATION MCSpec
SYMMETRY Symmetry
INVARIANTS
  TablesExact
  SharedExact
  LoserIsTheSame
  HashExact
  ValuesExact
  
  HeapExact
  LookupExact
  TrustsExact
  Mirror
  Rooted
  NeedsMet
  BansAgree
  ScansExact
