SPECIFICATION Spec
CONSTANTS
  Count = 2
  NLines = 1
  ErrorFile = TRUE
  Outcomes = {"ok", "killed"}
  Pids = {11, 12}
INVARIANT ThreadsEndBeforePool
