CONSTANTS
  a = a
  b = b
  p = p
  q = q
  NoDevice = NoDevice
  Hosts = {a}
  Phones = {p, q}
  MaxConns = 3
  Remember = {a}
  AutoConnect = {a}
  OldProtocol = {q}
  AudioMayFail = {a}
  ReconnectTicks = 1
  MayDrop = FALSE
  MayQuit = {}
SPECIFICATION Spec
INVARIANTS
  PhoneIsHeard
  StateIsTrue
CHECK_DEADLOCK FALSE
