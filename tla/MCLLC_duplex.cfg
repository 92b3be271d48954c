SPECIFICATION FairSpec
CONSTANTS
  a = a
  b = b
  End <- BothEnds
  MaxPdu <- PdusToSend
  PdusOfA = 2
  PdusOfB = 1
  SnMod = 2
  ArqWindow = 1
  TxRingSize = 2
  MaxRetx = 1
  AllowRlf <- OnlyB
  AutoInitOnRx <- OnlyB
  AckRoom = 1
  MaxRoundTrip = 0
INVARIANT GiveUpOnlyAfterMaxRetx
PROPERTY EventuallySettled
