SPECIFICATION PgFairSpec
CONSTANTS
  Examples = {1}
  Repetitions = 3
  Keys <- MCKeys
  EvalNames = {}
  Clients = {c1}
  Locks = {TRUE}
  Limit = 5
  MaxOutputs = 4
  None = None
  MaxInProgress = 2
  MaxPosted = 1
CHECK_DEADLOCK FALSE
INVARIANT CleanupReleases
