-------------------------- MODULE MCAnveshaIngest --------------------------
(* Small instances of AnveshaIngest. *)
EXTENDS AnveshaIngest, TLC

CONSTANTS r1, r2, r3, r4, t1, t2, p1, p2, x, y

MCSpan(t, i, p, s, from, to) ==
  [trace |-> t, id |-> i, project |-> p, session |-> s, start |-> from, end |-> to]

\* Four spans of one trace, from two projects and two sessions, nested in time
\* so that each pair widens the trace in a different way; one of another trace.
A == MCSpan(t1, 1, p1, x, 4, 5)
B == MCSpan(t1, 2, p1, NoSession, 2, 7)
C == MCSpan(t1, 3, p2, y, 0, 8)
D == MCSpan(t1, 4, p1, x, 1, 6)
F == MCSpan(t2, 1, p1, x, 0, 5)
MCSpans == {A, B, C, D, F}
MCSpanIds == 1 .. 4

\* Once r1 is in, r2 and r3 both find t1 with no session, widen it, and bring
\* different session ids.
RaceBatches == r1 :> <<B>> @@ r2 :> <<D, F>> @@ r3 :> <<C>>
\* r2 is the client's retry of r1, sent while r1 may still be running; the last
\* span of r3 does not decode; r4 does not parse.
FaultBatches == r1 :> <<A, B>> @@ r2 :> <<A, B>> @@ r3 :> <<D, C>> @@ r4 :> <<>>
BadSpans == {C}
NoSpans == {}
=============================================================================
