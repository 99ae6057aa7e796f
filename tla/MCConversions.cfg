CONSTANTS
  MaxDepth = 3
  Values <- MCValues
  Inputs <- MCInputs
SPECIFICATION Spec
INVARIANTS TypeOK TreeIsMeant ValueComesBack DocumentIsMeant DocumentComesBack
CHECK_DEADLOCK FALSE
