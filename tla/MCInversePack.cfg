CONSTANTS
  JPCapacity = 14
  GrpHdrSize = 3
  SrcASize = 2
  SizeMod = 65536
  MaxPruneSGrptLen = 4
  Configs <- MCConfigs
SPECIFICATION Spec
INVARIANTS
  TypeOK
  CapacityRespected
  WellPacked
  SptLossless
  RPLostOnlyInOneSlot
  InverseVerifyExact
PROPERTY Termination
CHECK_DEADLOCK FALSE
