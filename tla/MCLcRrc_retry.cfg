SPECIFICATION Spec
CONSTANTS
  a = a
  b = b
  End <- BothEnds
  MaxRetry = 3
  RlfDuringActivation = FALSE
  Load <- OneLoss
INVARIANT RetriesSurviveLoss
CHECK_DEADLOCK FALSE
