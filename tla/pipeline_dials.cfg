CONSTANTS
  tobi = tobi
  TOBI = TOBI
  None = None
  LocalTools <- MCLocalTools
  Specs <- MCSpecs
  Edited <- MCEdited
  Library <- MCLibrary
  NameOrder <- MCNameOrder
  Environments <- MCEnvironments
  Normal <- MCNormal
  MaxEdits = 0
  MaxBuilds = 1
SPECIFICATION Spec
CHECK_DEADLOCK FALSE
INVARIANT ServedReachesItsModels
