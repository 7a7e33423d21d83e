CONSTANTS
  ip1 = ip1
  ip2 = ip2
  MaxConns = 4
  IPs <- MCIPs
  Origins <- MCOrigins
  NoIP = NoIP
  Vanishing = {2, 3}
  Limits <- MCLimits
  Threads = 1
  Cost = 2
  MaxTime = 2
SPECIFICATION FairSpec
CHECK_DEADLOCK FALSE
INVARIANTS
  TypeOK
  SeatsMatch
  OvershootBound
  AcceptRateBound
PROPERTY ArrivalsSettle
