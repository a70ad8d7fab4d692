CONSTANTS
  NoArg = "no argument"
  OptionWord = "-option"
  ConfigFile = "config.yml"
  AddressOf <- MCAddressOf
  ClassOf <- MCClassOf
  NumberOf <- MCNumberOf
  Halves <- MCHalves
  IntfTable <- MCIntfTable
  LevelOf <- MCLevelOf
  Directories = {"/var/log"}
  MaxPruneSGrptLen = 1
  Files <- MCFiles
  PimcLines <- MCPimcLines
  MclstLines <- MCMclstLines
  YamlNodes <- MCYamlNodes
SPECIFICATION MCSpec
INVARIANT HelpAlwaysShown
CHECK_DEADLOCK FALSE
