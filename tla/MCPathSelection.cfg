CONSTANTS
  MaxCands = 3
  RttBits = 2
  IdxBits = 2
  TieMargin = 1
  Hashes <- ExploreHashes
  ExplorePpms = {0, 500000}
  MaxCalls = 1
SPECIFICATION Spec
\* A worker makes MaxCalls calls and stops.
CHECK_DEADLOCK FALSE
INVARIANT TypeOK
INVARIANT RoundRobinMatchesSpec
INVARIANT FlowHashMatchesSpec
INVARIANT LatencyPrefersHealthy
INVARIANT LatencyFallbackMinRtt
PROPERTY ExplorationDeviates
