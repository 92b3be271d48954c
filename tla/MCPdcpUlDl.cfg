SPECIFICATION FairSpec
CONSTANTS
  FrameSize <- Alternating
  MaxFrame = 6
  SnMod = 4
  HeaderSize = 1
  BufferSize = {2, 3, 5}
  Setting <- Sound
INVARIANTS TypeOK BytesExact Intact NothingStranded
PROPERTIES ImplementsFrameChannel EventuallyEmitted
