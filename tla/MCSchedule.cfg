CONSTANTS
  r1 = r1
  r2 = r2
  r3 = r3
  s1 = s1
  s2 = s2
  c1 = c1
  c2 = c2
  a1 = a1
  NULL = NULL
  Requests = {r1, r2}
  Slots = {s1, s2}
  Callbacks = {c1, c2}
  Args = {a1}
  Times = {0, 1}
  Intervals = {1}
  Counts = {0, 1, 2, 3}
  MaxTime = 2
  StalePointers = FALSE
SPECIFICATION FairSpec
INVARIANTS
  FireBudget
  NoTimerLost
  FinishedIsFreed
PROPERTIES
  DueTimerRuns
  QuietAfterDelete
  ImplementsTimers
