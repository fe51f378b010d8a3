CONSTANTS
  b1 = b1  b2 = b2  p1 = p1  p2 = p2  t1 = t1  t2 = t2
  Nothing = Nothing
  Bases = {b1, b2}
  Names = {p1, p2}
  Traces = {t1, t2}
  ProjectsAt <- TwoBackends
  HomeOf <- MCHome
  Tasks = {1, 2}
  MaxClicks = 8
  NetworkFails = TRUE
SPECIFICATION FairSpec
INVARIANTS
  SettledShowsSelection
  PageHasProject
PROPERTIES
  LoadsSettle
