CONSTANTS
  a = a
  b = b
  Updates <- MCUpdates
  Inverse <- MCInverse
  HelloPeriod = 2
  HelloHold = 12
  JPPeriod = 3
  JPHold = 12
  SleepTime = 1
  MaxLoop = 2
  MaxLoss = 1
  MaxBack = 1
  MaxAhead = 1
  Horizon = 12
SPECIFICATION Spec
INVARIANTS
  TypeOK
  NeighborKeepsState
  LeavesNothingBehind
PROPERTIES
  ImplementsSession
  StopEndsRun
  EventuallyJoined
CHECK_DEADLOCK FALSE
