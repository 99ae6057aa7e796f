CONSTANTS
  Sheets <- MCSheets
SPECIFICATION Spec
INVARIANTS NothingHeldAfterHeaders
CHECK_DEADLOCK FALSE
