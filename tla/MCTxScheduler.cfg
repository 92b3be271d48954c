SPECIFICATION FairSpec
CONSTANTS
  MaxLcid = 2
  FrameData = 8
  HeaderSize = 1
  AckSize = 1
  UnitSize <- Units
  RetxSize <- Resent
  Load <- Loads
INVARIANTS TypeOK UnpackedAsPacked OneDataPduPerSlot NoStarvation
PROPERTY TickEnds
CHECK_DEADLOCK FALSE
