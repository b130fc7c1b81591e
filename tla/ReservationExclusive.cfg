SPECIFICATION Spec
CONSTANTS
  Controllers <- MCControllers
  Nsids <- MCNsids
  HostIds <- MCHostIds
  Keys <- MCKeys
  RsvTypes <- MCExclusiveTypes
  ExtendedHosts <- MCExtendedHosts
  MaxControllers = 2
  GenModulus = 3
INVARIANT ExclusiveHasOneHolder
