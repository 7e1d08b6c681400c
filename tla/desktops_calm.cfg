CONSTANTS
  a = a
  b = b
  p = p
  q = q
  NoDevice = NoDevice
  Hosts = {a, b}
  Phones = {}
  MaxConns = 3
  Remember = {a, b}
  AutoConnect = {}
  OldProtocol = {}
  AudioMayFail = {}
  ReconnectTicks = 1
  MayDrop = FALSE
  MayQuit = {}
SPECIFICATION FairSpec
INVARIANT ActiveHasChannel
PROPERTIES
  RequestEnds
  HangUpIsHeard
CHECK_DEADLOCK FALSE
