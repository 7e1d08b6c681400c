CONSTANT MaxClients = 3
SPECIFICATION FairSpec
INVARIANTS
  HangUpIsFinal
  CallIsReal
PROPERTIES
  HangUpReturns
  LossIsNoticed
CHECK_DEADLOCK FALSE
