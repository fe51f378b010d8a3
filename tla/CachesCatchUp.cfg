SPECIFICATION FairSpec
CONSTANTS
  Projects = {1, 2}
  Traces = {2, 3}
  MaxChanges = 2
INVARIANTS
  StaleIsTold
PROPERTY
  CachesCatchUp
CHECK_DEADLOCK FALSE
