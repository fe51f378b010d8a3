SPECIFICATION Spec
CONSTANTS
  Names = {d1, d2}
  Splits = {s1}
  Experiments = {x1}
  Clients = {c1}
  Inserter = inserter
  None = None
  Uploads <- MCUploads
  Locks = {TRUE, FALSE}
  MaxVersion = 3
  MaxExample = 2
  MaxRevision = 3
  MaxQueue = 1
SYMMETRY Symmetry
INVARIANTS
  RowsFit
  ReadersAgree
  SnapshotHolds
PROPERTY
  VersionFixed
CHECK_DEADLOCK FALSE
