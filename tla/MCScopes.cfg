CONSTANTS
  Elem <- MCElem
  Names <- MCNames
  Sheets <- ScopeSheets
SPECIFICATION Spec
INVARIANT FailsOnlyOverText
