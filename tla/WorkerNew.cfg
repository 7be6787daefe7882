SPECIFICATION FairSpec
CONSTANTS
  Count = 2
  NLines = 3
  ErrorFile = TRUE
  Outcomes = {"ok", "killed"}
  Pids = {11, 12}
INVARIANTS TypeOK NoItemIsCancelled
PROPERTIES ImplementsJobRunner Terminates
