CONSTANTS
  Cost = 3
  Refill = 2
  Requests = {r1, r2, r3}
  NoRequest = NoRequest
  Methods = {m1, m2}
  NoMethod = NoMethod
  Threads = {t1, t2}
  Stamps = {0}
  Capacities = {0, 2, 3, 4}
  MaxTime = 3
SPECIFICATION Spec
CHECK_DEADLOCK FALSE
SYMMETRY Symmetry
INVARIANTS
  TypeOK
  ApprovedForThisRequest
  RateBound
  PrefixSeesOwnContext
PROPERTY BackOffHelps
