CONSTANTS
  Sheets <- MCSheets
SPECIFICATION FairSpec
INVARIANTS TypeOK HeadersInTime ResponseIsComplete
PROPERTIES EndsEventually
CHECK_DEADLOCK FALSE
