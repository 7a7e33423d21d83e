CONSTANTS
  Calls = {c1}
  NoCall = NoCall
  WriteCap = 1
  Notifies = TRUE
  Serves = TRUE
  CallerOnStrand = TRUE
SPECIFICATION FairSpec
CHECK_DEADLOCK FALSE
PROPERTIES
  ArmedCallReturns
  TeardownRests
