CONSTANTS
  w1 = w1  w2 = w2  r1 = r1  s1 = s1  s2 = s2  sBad = sBad
  Absent = Absent
  Writers <- OneWriter
  Readers <- OneReader
  ServiceIds <- MCServiceIds
  ValidIds <- MCValidIds
  PopLists <- MCPopLists
  ValidLists <- MCValidLists
  MaxServices = 1
  MaxCalls = 3
SPECIFICATION Spec
SYMMETRY Symmetry
\* The registry only changes on calls: once callers stop, it stays put.
CHECK_DEADLOCK FALSE
INVARIANT TypeOK
INVARIANT RemoveUndoesAdd
INVARIANT CountersMatchCalls
INVARIANT PublishedListsWellFormed
