CONSTANTS
  bad = bad  s1 = s1  s2 = s2  s3 = s3  s4 = s4  e1 = e1  e3 = e3
  Spans = {bad, s1, s2, s3, s4}
  Evals = {e1, e3}
  SpanOf <- Subjects
  Batches <- Requests
  Uploads <- CreateRequests
  Undecodable = {bad}
  LongestBatch = 2
  Handlers = {1, 2}
  MaxOps = 2
  MaxQueue = 1
  Faults = {"database", "annotations", "stop"}
SPECIFICATION FairSpec
INVARIANTS SpansAccounted QueueBounded EvalsFindSpans
PROPERTIES EverythingDecided
