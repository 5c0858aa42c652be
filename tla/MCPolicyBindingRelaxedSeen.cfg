CONSTANTS
  A = A
  B = B
  r1 = r1
  Null = Null
  Policies <- MCPolicies
  Readers <- MCReaders
  MaxOps = 2
  SeqBits = 4
SPECIFICATION Spec
CHECK_DEADLOCK FALSE
INVARIANT SelectSeesPublished
