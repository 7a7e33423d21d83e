CONSTANTS
  Sessions = {s1, s2}
  NoSession = NoSession
  Addrs = {a1, a2}
  NoAddr = NoAddr
  Ids = {id1}
  NoId = NoId
  Everyone = Everyone
SPECIFICATION Spec
CHECK_DEADLOCK FALSE
INVARIANT TokenNotReused
