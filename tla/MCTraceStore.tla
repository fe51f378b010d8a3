---------------------------- MODULE MCTraceStore ----------------------------
(* Two projects, two sessions, a trace whose spans branch and one whose spans *)
(* bring both sessions; no counter is bounded, the state space is finite.    *)
EXTENDS TraceStore

CONSTANTS dflt, other, t1, t2, u1, u2, s1, s2, s3, s4, s5, s6

Sent(id, trace, parent, session, start, end, count) ==
  [id |-> id, trace |-> trace, parent |-> parent, session |-> session,
   start |-> start, end |-> end, count |-> count]

\* Under s1 a chain s2 <- s3 and a second child s4, whose times reach both ways
\* out of their parents'; only s2 brings a session.  The other trace gets its
\* session from whichever of s5 and s6 comes first.
Family == {Sent(s1, t1, None, None, 2, 2, 1), Sent(s2, t1, s1, u1, 1, 2, 2),
           Sent(s3, t1, s2, None, 2, 3, 4), Sent(s4, t1, s1, None, 2, 2, 8),
           Sent(s5, t2, None, u1, 2, 3, 1), Sent(s6, t2, s5, u2, 2, 2, 1)}
=============================================================================
