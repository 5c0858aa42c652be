CONSTANTS
  a = a
  b = b
  Ids <- MCIds
  Classes <- MCClasses
  DefaultThresholds <- MCDefaults
  Configs <- MCConfigs
  LatValues <- MCLatValues
  JitValues <- MCJitValues
  LossValues <- MCLossValues
  MaxCands = 2
  MaxCalls = 1
SPECIFICATION Spec
CHECK_DEADLOCK FALSE
INVARIANT TypeOK
INVARIANT ChooseBestMatchesSpec
INVARIANT CompliantScoresHighest
