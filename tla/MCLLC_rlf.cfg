SPECIFICATION Spec
CONSTANTS
  a = a
  b = b
  End <- BothEnds
  MaxPdu <- PdusToSend
  PdusOfA = 3
  PdusOfB = 0
  SnMod = 4
  ArqWindow = 2
  TxRingSize = 3
  MaxRetx = 1
  AllowRlf <- Always
  AutoInitOnRx <- Always
  AckRoom = 1
  MaxRoundTrip = 1
VIEW IdlePeerView
INVARIANTS TypeOK AckedWasReceived NoSilentLoss GiveUpOnlyAfterMaxRetx
PROPERTY ImplementsAmLink
