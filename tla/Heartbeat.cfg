\* Windows of zero to four seconds and the fallback of six; a ping takes up to
\* two intervals and more; three ticks in a row go unserved.
CONSTANTS
  None = None
  Durations <- ShortDurations
  Fallback = 6
  Asked <- DefaultAndTooShort
  PingTime = 7
  MaxMissed = 3
  MaxAge = 24
SPECIFICATION Spec
INVARIANTS
  TypeOK
  StaysAlive
  FewTicksAfterCancel
PROPERTIES
  RunReturns
  DeadIsRevived
CHECK_DEADLOCK FALSE
