\* Pages of up to three of five rows; three rows come or go during the walk.
CONSTANTS
  None = None
  Ids <- FiveIds
  Limits <- WithinMax
  ServerMaxPageLimit = 3
  MaxChanges = 3
SPECIFICATION Spec
INVARIANTS
  TypeOK
  CompleteWalk
  NothingTwice
  CompleteBelowCeiling
PROPERTIES
  WalkEnds
CHECK_DEADLOCK FALSE
