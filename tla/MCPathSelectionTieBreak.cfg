CONSTANTS
  MaxCands = 3
  RttBits = 2
  IdxBits = 2
  TieMargin = 2
  Hashes <- SmallHashes
  ExplorePpms = {0}
  MaxCalls = 1
SPECIFICATION Spec
\* A worker makes MaxCalls calls and stops.
CHECK_DEADLOCK FALSE
INVARIANT LatencyTieBreakBounded
