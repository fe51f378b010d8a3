----------------------------- MODULE IngestRace -----------------------------
(***************************************************************************)
(* AnveshaIngest with a history of whether handlers ran one at a time.     *)
(***************************************************************************)
EXTENDS AnveshaIngest

VARIABLE overlapped   \* history: two handlers have run at once

RaceVars == <<vars, overlapped>>
RaceInit == Init /\ overlapped = FALSE
RaceNext == Next /\ overlapped' = (overlapped \/ Cardinality(InFlight') > 1)
RaceSpec ==
  /\ RaceInit /\ [][RaceNext]_RaceVars
  /\ \A r \in Requests : WF_vars(Step(r))

\* As long as handlers run one at a time, retries and crashes included, trace and
\* session rows cover their spans and a trace has spans of one session.
SerialRowsCover ==
  ~overlapped => TraceCoversSpans /\ SessionCoversSpans /\ OneSessionPerTrace
=============================================================================
