CONSTANTS
  dflt = dflt  other = other  t1 = t1  t2 = t2  u1 = u1  u2 = u2
  s1 = s1  s2 = s2  s3 = s3  s4 = s4  s5 = s5  s6 = s6
  None = None
  Projects = {dflt, other}
  Default = dflt
  Traces = {t1, t2}
  Sessions = {u1, u2}
  SpanIds = {s1, s2, s3, s4, s5, s6}
  Times = {1, 2, 3}
  Payload <- Family
  Ops = {"span", "trace", "traces", "transfer", "clear", "sessions", "project"}
SPECIFICATION Spec
INVARIANTS TypeOK CountsAddUp TracesHoldSpans
PROPERTIES DeleteTracesSparesOthers ChangesAreAnnounced
