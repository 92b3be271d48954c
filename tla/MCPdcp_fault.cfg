SPECIFICATION Spec
CONSTANTS
  FrameSize <- Mixed
  MaxFrame = 7
  SnMod = 8
  RingSize = 4
  HeaderSize = 1
  AllocSize = {2, 3, 5}
  StartSn = {0, 6}
  Setting <- Interrupted
INVARIANT WholeFrames
CHECK_DEADLOCK FALSE
