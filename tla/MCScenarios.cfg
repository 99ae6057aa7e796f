CONSTANTS
  Elem <- MCElem
  Sheets <- MCSheets
SPECIFICATION FairSpec
INVARIANTS TypeOK SentInOrder DoneIsComplete ValuesAreWhole
  NothingDangles FailsOnlyOutOfScope
PROPERTY EndsEventually
CHECK_DEADLOCK FALSE
