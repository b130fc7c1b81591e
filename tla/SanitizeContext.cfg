SPECIFICATION Spec
CONSTANTS
  Reqs = {r1}
  Attached = {n1, n2}
  OwPasses <- MCOwPasses
  DefaultPasses = 2
INVARIANT ContextFreedOnce
CHECK_DEADLOCK FALSE
