CONSTANTS
  Entries = {e1, e2}
  NoEntry = NoEntry
SPECIFICATION FairSpec
CHECK_DEADLOCK FALSE
PROPERTY PendingGetsFlushed
