CONSTANTS
  Capacity = 3
  Chunk = 2
  Backlog = 2
  MaxCaptured = 6
SPECIFICATION FairSpec
INVARIANTS
  NoRace
  NoSampleVanishes
PROPERTIES
  QueueIsFifo
  SamplesMove
  StopReturns
CHECK_DEADLOCK FALSE
