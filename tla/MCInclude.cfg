CONSTANTS
  Parts = 2
  Configs <- MCConfigs
SPECIFICATION FairSpec
INVARIANTS TypeOK DoneIsComplete
PROPERTIES IsAnExchange EndsEventually
CHECK_DEADLOCK FALSE
