CONSTANTS
  tobi = tobi
  TOBI = TOBI
  None = None
  LocalTools <- MCLocalTools
  Specs <- MCSpecs
  Edited <- MCEdited
  Library <- MCLibrary
  NameOrder <- MCNameOrder
  Environments <- MCEnvironments
  Normal <- MCNormal
  MaxEdits = 1
  MaxBuilds = 2
SPECIFICATION Spec
CHECK_DEADLOCK FALSE
INVARIANT ImageIsOneSpec
INVARIANT BootFailsByEnvironmentOnly
INVARIANT ServesItsSpec
INVARIANT BudgetIsEnforceable
INVARIANT OnlyPortlessOllamaIsDenied
INVARIANT OnlyDatelessSchedulesNeverFire
