CONSTANTS
  Limits <- MCLimits
  MaxSent = 5
SPECIFICATION Spec
INVARIANT ReportsWhatItSent
CHECK_DEADLOCK FALSE
