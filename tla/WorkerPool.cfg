SPECIFICATION FairSpec
CONSTANTS
  Count = 2
  NLines = 3
  ErrorFile = TRUE
  Outcomes = {"failed", "killed"}
INVARIANTS RunAtMostOnce SerialMatchesLine ErrorFileIsExact FinishedMeansDone
PROPERTIES StepsAreSafe ImplementsJobRunner Terminates
