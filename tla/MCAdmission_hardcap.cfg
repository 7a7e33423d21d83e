CONSTANTS
  ip1 = ip1
  ip2 = ip2
  MaxConns = 4
  IPs <- MCIPs
  Origins <- MCOrigins
  NoIP = NoIP
  Vanishing = {2, 3}
  Limits <- HardCapLimits
  Threads = 1
  Cost = 2
  MaxTime = 1
SPECIFICATION Spec
CHECK_DEADLOCK FALSE
INVARIANT HardCap
