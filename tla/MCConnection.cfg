CONSTANTS
  MaxRequests = 2
  MaxNotes = 2
  WriteCap = 1
  PipeCap = 1
SPECIFICATION FairSpec
CHECK_DEADLOCK FALSE
INVARIANTS
  TypeOK
  FramingSync
  OneAnswer
  NotificationOrder
PROPERTY AnsweredOrClosed
