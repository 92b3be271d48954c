SPECIFICATION Spec
CONSTANTS
  a = a
  b = b
  End <- BothEnds
  MaxRetry = 3
  RlfDuringActivation = TRUE
  Load <- OnlyRlfs
INVARIANT LayersMatchState
CHECK_DEADLOCK FALSE
