CONSTANTS
  Capacity = 4
  MaxItems = 7
  NoValue = NoValue
  TriviallyCopyable = FALSE
SPECIFICATION Spec
INVARIANT TypeOK
INVARIANT NoLossNoDup
PROPERTY EveryItemDelivered
PROPERTY FifoRefinement
