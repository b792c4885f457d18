CONSTANTS
  hubcount = 4
  Behaviour <- BehaviourAll
  MaxFaults = 3
  MaxRehashes = 1
  MaxLines = 3
  Query = {q1, q2, q3, q4}
  Statements = {q1, q2, q3}
  Modules = {m1, m2}
  NULL = NULL
  NOBODY = NOBODY
  ANON = ANON
  FIRED = FIRED
SPECIFICATION MCSpec
INVARIANTS
  AlwaysReconnecting
  HubIffConnected
  
PROPERTIES
  MovesOn
  LinkedInTheEnd
  PqImplementsQueries
  SqliteImplementsQueries
  NoneForgotten
