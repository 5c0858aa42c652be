CONSTANTS
  A = A
  B = B
  r1 = r1
  Null = Null
  Policies <- MCPolicies
  Readers <- MCReaders
  MaxOps = 3
  SeqBits = 4
SPECIFICATION Spec
INVARIANT NeverNoPathWhileBound
