CONSTANTS
  MaxUnrolledNodes = 16
  Configs <- MCConfigs
  Fragile <- Followed
  Watched <- Followed
  NameOrder <- Names
SPECIFICATION ViewSpec
INVARIANTS
  KeepsLoopMeaning
  AcceptedRuns
  RaisedCapKeeps
  FailureSurfaces
  RollupMeans
  ProgressAgrees
CHECK_DEADLOCK FALSE
