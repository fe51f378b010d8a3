CONSTANTS
  a1 = a1  a2 = a2  a3 = a3  k1 = k1  k2 = k2  s1 = s1  s2 = s2
  Annos = {a1, a2, a3}
  Keys = {k1, k2}
  Spans = {s1, s2}
  KeyOf <- MCKeyOf
  SpanOf <- MCSpanOf
  NoSuchDocument = {k2}
  None = None
  Allowance = 2
  MaxClock = 3
  MaxFailures = 1
  Faults = {"transaction"}
SPECIFICATION FairSpec
INVARIANTS SpanGetsItsTime
PROPERTIES  EveryAnnotationSettles
