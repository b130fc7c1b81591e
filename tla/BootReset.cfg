SPECIFICATION Spec
CONSTANTS
  BpSize = 2
  Images = {old, new}
  Buffers = {m1}
  Reqs = {r1}
  ReadIds = {i1, i2}
  DwModulus = 4
  DwValues <- MCDwValues
  HostRules <- MCNoQuiesce
INVARIANT SuccessMeansRead
