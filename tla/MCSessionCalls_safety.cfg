CONSTANTS
  Calls = {c1, c2}
  NoCall = NoCall
  WriteCap = 1
  Notifies = TRUE
  Serves = TRUE
  CallerOnStrand = FALSE
SYMMETRY CallSymmetry
SPECIFICATION Spec
CHECK_DEADLOCK FALSE
INVARIANTS
  TypeOK
  OwnAnswer
  CompletionNeverBlocks
  OnlyParkedCallsOrphaned
  LeftoverEntries
PROPERTY CallPromise
