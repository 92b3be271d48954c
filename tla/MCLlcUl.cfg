SPECIFICATION FairSpec
CONSTANTS
  TxSize = 3
  SnMod = 3
  MinRecheck = 1
  MaxRecheck = 3
  MaxRetx = 1
INVARIANTS TypeOK Consistent CountersExact NoInternalError
PROPERTIES NotCheckedEarly SnFreedAgain
