SPECIFICATION Spec
CONSTANTS
  Namespaces <- MCNamespaces
  IdentifySize = 200
  Numbers <- MCNumbers
  MaxOptions = 2
  Stacks <- MCStacks
  Junk <- MCJunk
  MaxOpenRetry = 2
INVARIANTS
  TypeOK
  SoundOptionsArrive
  FirstPacketInOrder
PROPERTIES
  ImplementsService
  
