CONSTANTS
  f1 = f1
  f2 = f2
  Flows <- MCFlows
  Others <- MCOthers
  Limits <- MCLimits
  Timeout = 1
  NanosMod = 1024
  RcvBuf = 2
  MaxPackets = 3
  MaxLag = 1
  MaxBack = 1
  Horizon = 7
SPECIFICATION Spec
INVARIANTS
  TypeOK
  SilenceReported
  StatsExact
  LimitExact
  StopsAtOnce
PROPERTY StopEndsRun
CHECK_DEADLOCK FALSE
