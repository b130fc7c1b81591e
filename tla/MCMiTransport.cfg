SPECIFICATION Spec
CONSTANTS
  Requests <- MCRequests
  CountExtra = 4
  HostUnit = 4
  DefaultUnit = 8
  Units <- MCUnits
  ReadSizes <- MCReadSizes
  AckSize = 4
  CrcBytes <- MCCrcBytes
  BufSize = 41
  MayAbort <- MCMayAbort
  Pattern <- MCPattern
INVARIANTS
  TypeOK
  RequestArrives
  SlaveHoldsWholeAnswer
  ReadsAnswer
PROPERTIES
  ImplementsService
  EveryAnswerIsRead
