CONSTANTS
  w1 = w1  w2 = w2  r1 = r1  s1 = s1  s2 = s2  sBad = sBad
  Absent = Absent
  Writers <- OneWriter
  Readers <- NoReaders
  MaxServices = 2
  ServiceIds <- MCServiceIds
  ValidIds <- MCValidIds
  PopLists <- MCPopLists
  ValidLists <- MCValidLists
  MaxCalls = 4
SPECIFICATION Spec
SYMMETRY Symmetry
\* The registry only changes on calls: once callers stop, it stays put.
CHECK_DEADLOCK FALSE
INVARIANT UpsertInstallsList
