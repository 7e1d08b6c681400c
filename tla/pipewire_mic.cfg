CONSTANTS
  RingSize = 7
  MaxBuffered = 4
  Cushion = 3
  Quantum = 2
  MaxAhead = 3
  MaxPushed = 12
  MaxLives = 2
SPECIFICATION FairSpec
INVARIANT SamplesAreTrue
PROPERTIES
  HeardInOrder
  SamplesFlow
CHECK_DEADLOCK FALSE
