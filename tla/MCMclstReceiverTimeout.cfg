CONSTANTS
  f1 = f1
  f2 = f2
  Flows <- MCFlows
  Others <- MCOthers
  Limits <- MCLimits
  Timeout = 2
  NanosMod = 1024
  RcvBuf = 2
  MaxPackets = 3
  MaxLag = 0
  MaxBack = 0
  Horizon = 6
SPECIFICATION Spec
INVARIANT TimeoutReported
CHECK_DEADLOCK FALSE
