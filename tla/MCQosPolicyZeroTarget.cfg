CONSTANTS
  a = a
  b = b
  Ids <- MCIds
  Classes <- MCClasses
  DefaultThresholds <- MCDefaults
  Configs <- MCZeroConfigs
  LatValues = {0, 8}
  JitValues = {3}
  LossValues = {1}
  MaxCands = 2
  MaxCalls = 1
SPECIFICATION Spec
CHECK_DEADLOCK FALSE
INVARIANT CompliantScoresHighest
