SPECIFICATION FairSpec
CONSTANTS
  QueueSize = 1
  MaxEvents = 3
  Setting <- Settings
INVARIANTS TypeOK NoConnectionHangs OwnSession
PROPERTIES CloseNoticed StopCompletes
CHECK_DEADLOCK FALSE
