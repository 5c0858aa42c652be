CONSTANTS
  MaxCands = 3
  RttBits = 2
  IdxBits = 2
  TieMargin = 1
  ExplorePpms = {0}
  MaxCalls = 6
  CallReads <- AllHealthyReads
  Hashes <- SmallHashes
SPECIFICATION Spec
CHECK_DEADLOCK FALSE
PROPERTY RoundRobinRotates
