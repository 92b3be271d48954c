SPECIFICATION Spec
CONSTANTS
  a = a
  b = b
  End <- BothEnds
  MaxPdu <- PdusToSend
  PdusOfA = 5
  PdusOfB = 0
  SnMod = 4
  ArqWindow = 3
  TxRingSize = 8
  MaxRetx = 1
  AllowRlf <- Always
  AutoInitOnRx <- Always
  AckRoom = 1
  MaxRoundTrip = 2
VIEW IdlePeerView
INVARIANT AckedWasReceived
