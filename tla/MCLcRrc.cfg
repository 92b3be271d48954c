SPECIFICATION FairSpec
CONSTANTS
  a = a
  b = b
  End <- BothEnds
  MaxRetry = 3
  RlfDuringActivation = FALSE
  Load <- Loads
INVARIANTS TypeOK LayersMatchState EstablishedTogether
PROPERTY ExchangeEnds
CHECK_DEADLOCK FALSE
