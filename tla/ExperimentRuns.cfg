SPECIFICATION ExpSpec
CONSTANTS
  Examples = {1, 2, 3}
  Repetitions = 2
  Keys <- MCKeys
  EvalNames = {n1}
  Clients = {c1, c2}
  Locks = {TRUE, FALSE}
  Limit = 1
  MaxOutputs = 4
  None = None
SYMMETRY Symmetry
INVARIANTS
  EvaluatesWhatIsStored
  ListIsExact
  WalkShowsAll
PROPERTY
  SuccessStands
CHECK_DEADLOCK FALSE
