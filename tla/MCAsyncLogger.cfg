CONSTANTS
  Entries = {e1, e2, e3}
  NoEntry = NoEntry
SPECIFICATION FairSpec
CHECK_DEADLOCK FALSE
INVARIANTS
  TypeOK
  KeptOnce
PROPERTIES
  InPushOrder
  LiveWorkerDelivers
  StopEndsWorker
