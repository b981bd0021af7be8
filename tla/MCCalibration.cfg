SPECIFICATION Spec
CONSTANTS
  GROUPS = 2
  DQ = 2
  PTAP = 4
  DQS_IN_MAX = 3
  IN_RESERVE = 1
  OUT_RESERVE = 1
  READ_LAT = 0
  LAT_WIDTH = 2
INVARIANTS
  TypeOK
  OutputsRestored
  SearchesUpwards
  LatencyHasSpare
  FailureIsReported
  TrackingStopped
PROPERTIES
  KeepsPromise
  Returns
