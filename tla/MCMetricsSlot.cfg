CONSTANTS
  r1 = r1
  Readers <- MCReaders
  NumFields = 2
  MaxUpdates = 3
  SeqBits = 4
SPECIFICATION Spec
INVARIANT TypeOK
INVARIANT ReadReturnsCommitted
INVARIANT NoSpuriousFailure
PROPERTY ReadTerminates
