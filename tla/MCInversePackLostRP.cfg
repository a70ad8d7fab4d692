CONSTANTS
  JPCapacity = 1466
  GrpHdrSize = 12
  SrcASize = 8
  SizeMod = 65536
  MaxPruneSGrptLen = 180
  Configs <- RealConfigs
SPECIFICATION Spec
INVARIANT RPPruned
CHECK_DEADLOCK FALSE
