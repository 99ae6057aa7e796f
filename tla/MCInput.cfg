CONSTANTS
  Parts = 2
  Configs <- MCConfigs
SPECIFICATION FairSpec
INVARIANTS TypeOK ParsedAsMeant DecodedOnce ReadersSeeTheResult
  DoneIsComplete
PROPERTIES InputsAreStreams EndsEventually
CHECK_DEADLOCK FALSE
