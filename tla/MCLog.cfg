CONSTANTS
  Elem <- MCElem
  Sheets <- MCSheets
SPECIFICATION Spec
INVARIANT LogTextStaysOut
CHECK_DEADLOCK FALSE
