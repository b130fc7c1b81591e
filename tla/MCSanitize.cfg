SPECIFICATION Spec
CONSTANTS
  Reqs = {r1, r2}
  Attached = {n1, n2}
  OwPasses <- MCOwPasses
  DefaultPasses = 2
INVARIANTS
  TypeOK
  CompletesAfterLastWrite
  ClosedOnlyWhileOverwritten
  ProgressMeansActive
PROPERTIES
  OpenedByLastWrite
  EverySanitizeEnds
CHECK_DEADLOCK FALSE
