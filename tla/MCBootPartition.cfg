SPECIFICATION Spec
CONSTANTS
  BpSize = 2
  Images = {old, new}
  Buffers = {m1, m2}
  Reqs = {r1}
  ReadIds = {i1}
  DwModulus = 4
  DwValues <- MCDwValues
  HostRules <- MCPolite
INVARIANTS
  TypeOK
  ReadingMeansOutstanding
PROPERTIES
  CommitStoresImage
  ReadReturnsPartition
  ReadEnds
