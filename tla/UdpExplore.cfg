SPECIFICATION Spec
CONSTANTS
  Hosts = {h1, h2, h3}
  Number = 2
  MaxTtl = 2
  MaxNoise = 1
INVARIANTS ResponsesFit NothingReadIsDropped
PROPERTY Terminates
CHECK_DEADLOCK FALSE
