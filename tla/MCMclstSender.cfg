CONSTANTS
  Limits <- MCLimits
  MaxSent = 5
SPECIFICATION Spec
INVARIANTS
  TypeOK
  LimitExact
  StopsAtOnce
PROPERTY StopEndsRun
CHECK_DEADLOCK FALSE
