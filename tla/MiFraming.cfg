SPECIFICATION Spec
CONSTANTS
  Requests <- MCRequests
  CountExtra = 5
  HostUnit = 4
  DefaultUnit = 8
  Units <- MCUnits
  ReadSizes <- MCReadSizes
  AckSize = 4
  CrcBytes <- MCCrcBytes
  BufSize = 41
  MayAbort <- MCMayAbort
  Pattern <- MCPattern
INVARIANT RequestArrives
