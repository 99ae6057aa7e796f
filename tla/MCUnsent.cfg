CONSTANTS
  Parts = 0
  Configs <- MCConfigs
SPECIFICATION Spec
INVARIANTS UnsentIsNotAwaited
CHECK_DEADLOCK FALSE
