SPECIFICATION Spec
CONSTANTS
  c1 = c1
  c2 = c2
  Controllers <- MCControllers
  ParamChoices <- MCParamChoices
  SelfTestCodes = {0, 1, 15}
  MaxEntries = 2
  Namespaces <- MCNamespaces
  MaxHours = 1
  NumBlocks = 2
  Contents = {0, 1}
  Requests = {r1, r2}
  CopyRanges <- MCCopyRanges
  PermWrProtect = FALSE
  Careful = TRUE
SYMMETRY MCSymmetry
INVARIANTS
  TypeOK
  ReadsAreRegular
  LogIsNewestFirst
  GatedLeaveNoTrace
PROPERTIES
  ProtectionStands
