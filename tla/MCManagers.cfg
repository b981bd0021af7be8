SPECIFICATION MCSpec
CONSTANTS
  DELAY_MAX = 2
  PHASE_MAX = 1
  IN_RESERVE = 1
  OUT_RESERVE = 1
  RANKS = 3
  Skipped <- MCSkipped
  Mirrored <- MCMirrored
  VG = 3
  WIDTH = 2
  TRIES = 3
  AFI_CLK_FREQ = 301
  TINIT <- MCTInit
  TRESET <- MCTReset
INVARIANTS
  NothingLeftBehind
  TerminationFollowsDqs
  CheckIsExact
  NoTestIsSkipped
PROPERTIES
  NothingInherited
  TestsReturn
  TimesAreKept
CHECK_DEADLOCK FALSE
