CONSTANTS
  r1 = r1  r2 = r2  r3 = r3  r4 = r4  t1 = t1  t2 = t2  p1 = p1  p2 = p2  x = x  y = y
  NoSession = NoSession  NoRow = NoRow  NoOne = NoOne
  Requests = {r1, r2, r3, r4}
  Readers = {1}
  Traces = {t1, t2}
  Projects = {p1, p2}
  SessionIds = {x, y}
  Spans <- MCSpans
  SpanIds <- MCSpanIds
  Batch <- FaultBatches
  Malformed = {r4}
  Undecodable <- BadSpans
  MaxSends = 1
  MaxInFlight = 3
  MaxCrashes = 1
SPECIFICATION Spec
INVARIANTS
  TypeOK AckedIsStored ReadsAreWhole WholeBatches
PROPERTIES
  StoreSpec
