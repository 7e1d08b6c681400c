CONSTANTS
  MaxSeq = 8
  Dtx = {3}
  MinDepth = 1
  MaxDepth = 3
  InitialDepth = 2
  Slack = 1
  MaxPerTick = 2
  MaxLate = 3
  MaxAhead = 2
SPECIFICATION FairSpec
INVARIANTS
  BufferIsWhatIsDue
  ClockIsPaid
PROPERTIES
  SlotsAreTrue
  LatencyIsBounded
  PlayoutProceeds
