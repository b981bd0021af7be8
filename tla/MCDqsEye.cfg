SPECIFICATION Spec
CONSTANTS
  VFIFO_SIZE = 16
  PHASE_MAX = 7
  DELAY_MAX = 31
  OPA_TAP = 416
  DCHAIN_TAP = 25
  EyeWidths = {1664, 2500, 3328, 3600}
  Narrow = 350
  Jitter = 45
  EyeStep = 104
  EyePlace = 15
  Eyes <- MCEyes
  Answers <- EyeAnswers
INVARIANTS
  TypeOK
  PhaseZeroNeverSet
  CountsFollowSetting
  NearMiddle
  TracksOnePhase
PROPERTY Succeeds
CHECK_DEADLOCK FALSE
