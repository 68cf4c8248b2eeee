\* A Limit one above what the server accepts.
CONSTANTS
  None = None
  Ids <- FiveIds
  Limits <- AboveMax
  ServerMaxPageLimit = 3
  MaxChanges = 0
SPECIFICATION Spec
INVARIANTS
  CompleteWalk
CHECK_DEADLOCK FALSE
