CONSTANTS
  h1 = h1
  eoq = eoq
  HookNums = {h1, eoq}
  ENDOFHOOKSQUEUE = eoq
  Callbacks = {c1, c2}
  Priorities = {0, 1}
  Nodes = {n1, n2, n3, n4}
  MaxDepth = 3
  Nicks = {p1, p2, p3}
  MaxPending = 3
  NULL = NULL
SPECIFICATION MCSpec
SYMMETRY Symmetry
INVARIANTS
  NoDanglingNode
  AllCalled
  NicksAlive
PROPERTIES
  OrderKept
