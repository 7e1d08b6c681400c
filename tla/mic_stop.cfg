CONSTANTS
  MaxQueued = 2
  MaxPushed = 2
  MaxModules = 3
  MaxLives = 1
SPECIFICATION FairSpec
PROPERTY StopReturns
CHECK_DEADLOCK FALSE
