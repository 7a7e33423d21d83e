CONSTANTS
  Calls = {c1}
  NoCall = NoCall
  WriteCap = 1
  Notifies = FALSE
  Serves = FALSE
  CallerOnStrand = FALSE
SPECIFICATION FairSpec
CHECK_DEADLOCK FALSE
PROPERTY ArmedCallReturns
