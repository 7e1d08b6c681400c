CONSTANTS
  Desktops = {d}
  Phones = {p}
  Old = {}
  Muffled = {p}
  OfflineAfter = 1
  RemoveAfter = 2
SPECIFICATION Spec
INVARIANTS
  BoundOrRetrying
  TableIsTrue
PROPERTIES
  PeerFound
  GoneForgotten
CHECK_DEADLOCK FALSE
