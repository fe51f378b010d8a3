CONSTANTS
  Listings = {"id", "time", "root"}
  MaxId = 5
  MaxTime = 1
  Limit = 2
  Batch = 2
  Retries = 2
  MaxShown = 5
  MaxRowChanges = 2
SPECIFICATION WalkSpec
INVARIANTS ShownInOrder NothingSkipped
