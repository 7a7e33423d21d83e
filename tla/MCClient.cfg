CONSTANTS
  Connects = {c1, c2}
  Invokes = {i1}
  Disconnects = {d1}
  NoSession = NoSession
SPECIFICATION FairSpec
CHECK_DEADLOCK FALSE
INVARIANTS
  TypeOK
  UsableWhenVisible
  NoLeakedSession
PROPERTIES
  LiveSessionStays
  DeadSessionCleared
  DisconnectedSessionEnds
