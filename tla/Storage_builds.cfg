SPECIFICATION FairSpec
CONSTANTS
  Values = {v0, v1, v2}
  Default = v0
  NCHUNKS = 2
  LOAD_ATTEMPTS = 2
  Builds <- MCBuilds
  MaxUpdates = 2
  MaxFailures = 2
  MaxNoise = 1
INVARIANTS SurvivesPowerFailure LoadIsAllOrNothing
PROPERTIES OverwriteInhibited UpdatesReachStorage
CHECK_DEADLOCK FALSE
