CONSTANTS
  MaxDepth = 3
  Values <- MCValues
  Inputs <- MCInputs
SPECIFICATION Spec
INVARIANTS StackFits
CHECK_DEADLOCK FALSE
