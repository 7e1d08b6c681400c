CONSTANTS
  MaxQueued = 2
  MaxPushed = 5
  MaxModules = 3
  MaxLives = 3
SPECIFICATION FairSpec
INVARIANTS
  StreamOutlivesWriter
  ServerIsClean
  OnlyOverflowLoses
PROPERTIES
  FramesMove
CHECK_DEADLOCK FALSE
