SPECIFICATION FairSpec
CONSTANTS
  FrameSize <- Mixed
  MaxFrame = 7
  SnMod = 8
  RingSize = 4
  HeaderSize = 1
  AllocSize = {2, 3, 5}
  StartSn = {0, 6}
  Setting <- Sound
INVARIANTS TypeOK Intact NothingStranded RlfOnlyOnGap PendingWithinDistance
PROPERTIES EmittedInOrder EventuallyEmitted
CHECK_DEADLOCK FALSE
