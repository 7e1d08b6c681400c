SPECIFICATION Spec
CONSTANTS
  Lans = {w}
  Vpn = v
  Default = none
  MaxModels = 2
INVARIANTS OnTheRightNetwork NotInSecret
