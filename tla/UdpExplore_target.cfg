SPECIFICATION Spec
CONSTANTS
  Hosts = {h1, h2}
  Number = 2
  MaxTtl = 2
  MaxNoise = 0
SYMMETRY Routers
INVARIANT ResponseIsForTarget
CHECK_DEADLOCK FALSE
