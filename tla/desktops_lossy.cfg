CONSTANTS
  a = a
  b = b
  p = p
  q = q
  NoDevice = NoDevice
  Hosts = {a, b}
  Phones = {}
  MaxConns = 2
  Remember = {a, b}
  AutoConnect = {a}
  OldProtocol = {}
  AudioMayFail = {b}
  ReconnectTicks = 1
  MayDrop = TRUE
  MayQuit = {a}
SPECIFICATION FairSpec
INVARIANTS
  SocketsHeld
  WaitingStatesEnd
  ReceiverHasCaller
PROPERTIES
  TrustHasConsent
  CallsAreGranted
  ReconnectEnds
CHECK_DEADLOCK FALSE
