SPECIFICATION MCSpec
CONSTANTS
  DQ = 2
  DELAY_MAX = 5
  DQS_IN_MAX = 5
  WRITE_MAX = 3
  Eyes <- MCEyes
  Answers <- MCAnswers
  WriteWindows <- MCWriteWindows
INVARIANTS
  TypesOK
  FailureRestores
  MarginsAreReal
  Centred
  FailsForCause
  LongestRun
CHECK_DEADLOCK FALSE
