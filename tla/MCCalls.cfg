CONSTANTS
  Elem <- MCElem
  Names <- MCNames
  Sheets <- MCSheets
SPECIFICATION FairSpec
INVARIANTS NothingDangles ArgumentsFirst FailsOnlyOverText ResponseIsMeant
PROPERTY EndsEventually
