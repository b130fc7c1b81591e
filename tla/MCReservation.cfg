SPECIFICATION Spec
CONSTANTS
  Controllers <- MCControllers
  Nsids <- MCNsids
  HostIds <- MCHostIds
  Keys <- MCKeys
  RsvTypes <- MCRsvTypes
  ExtendedHosts <- MCExtendedHosts
  MaxControllers = 2
  GenModulus = 3
INVARIANTS
  TypeOK
  HolderIsRegistrant
  FreeRecordHasNoKey
  WriteImpliesRead
PROPERTIES
  GenTracksRegistrants
  OnlyRegistrantsEvict
  PreemptOutcome
  NoticeReachesRegistrants
