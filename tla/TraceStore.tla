----------------------------- MODULE TraceStore -----------------------------
(***************************************************************************)
(* The tables of extracted-core (projects, sessions, traces, spans) and    *)
(* every operation that writes them.  With SQLite all transactions take    *)
(* one asyncio lock (server/app.py, DbSessionFactory), so each operation   *)
(* is one step; what can go wrong is a sequence of operations.             *)
(*                                                                         *)
(* One counter stands for the three that a span accumulates (errors,       *)
(* prompt and completion tokens): the code treats them alike.  A row's id  *)
(* is its name.                                                            *)
(***************************************************************************)
EXTENDS Integers, FiniteSets, FiniteSetsExt

CONSTANTS
  Projects, Traces, Sessions, SpanIds,
  None,        \* NULL, and the absence of a row
  Default,     \* the project that init migration creates
  Times,
  Payload,     \* the spans that exporters send
  Ops          \* the deleting operations in use

SpanRecords ==
  [id: SpanIds, trace: Traces, parent: SpanIds \cup {None},
   session: Sessions \cup {None}, start: Times, end: Times, count: Nat]

TraceRows == [project: Projects, session: Sessions \cup {None}, start: Times, end: Times]
SessionRows == [project: Projects, start: Times, end: Times]
SpanRows == [trace: Traces, parent: SpanIds \cup {None}, start: Times, end: Times,
             own: Nat, sum: Int]

ASSUME PayloadAssumption ==
  Payload \subseteq SpanRecords /\ \A p \in Payload : p.start <= p.end
ASSUME TimesAssumption == Times \subseteq Nat
ASSUME DefaultAssumption == Default \in Projects
ASSUME NoneAssumption ==
  /\ None \notin Projects \cup Traces \cup Sessions \cup SpanIds \cup Times
  /\ None \notin TraceRows /\ None \notin SessionRows /\ None \notin SpanRows
ASSUME IdsAssumption == IsFiniteSet(SpanIds)
\* Exporters give each span an id of its own and a parent in its own trace, and
\* no span is above itself: ids can be numbered so that parents come first.
ASSUME FamilyAssumption ==
  /\ \A p, q \in Payload : p.id = q.id => p = q
  /\ \A p, q \in Payload : p.parent = q.id => p.trace = q.trace
  /\ \E rank \in [SpanIds -> 1..Cardinality(SpanIds)] :
       \A p \in Payload : p.parent # None => rank[p.parent] < rank[p.id]

VARIABLES
  projects,    \* names of the stored projects
  traces, sessions, spans,   \* a row or None
  event        \* projects named by the DML event of the last operation

vars == <<projects, traces, sessions, spans, event>>

Init ==
  /\ projects = {Default}
  /\ traces = [t \in Traces |-> None]
  /\ sessions = [u \in Sessions |-> None]
  /\ spans = [s \in SpanIds |-> None]
  /\ event = {}

-----------------------------------------------------------------------------
(* Looking up *)

Stored(table) == {k \in DOMAIN table : table[k] # None}
TracesIn(p) == {t \in Stored(traces) : traces[t].project = p}
SessionsOf(T) == {traces[t].session : t \in T} \ {None}
SpansOf(t) == {s \in Stored(spans) : spans[s].trace = t}
ChildrenOf(s) == {c \in Stored(spans) : spans[c].parent = s}

UpwardClosed(table, U) ==
  \A x \in U : table[x].parent \in Stored(table) => table[x].parent \in U

\* The recursive CTE: the stored spans on the way up from span s, s included.
Ancestors(table, s) ==
  {a \in Stored(table) :
     \A U \in SUBSET Stored(table) :
       (s \in Stored(table) => s \in U) /\ UpwardClosed(table, U) => a \in U}

AddToAncestors(table, s, n) ==
  [x \in SpanIds |-> IF x \in Ancestors(table, s) THEN [table[x] EXCEPT !.sum = @ + n]
                                                  ELSE table[x]]

\* What the spans of S have summed up together.
Total(table, S) == MapThenSumSet(LAMBDA c : table[c].sum, S)

Wider(row, start, end) ==
  [row EXCEPT !.start = IF start < @ THEN start ELSE @,
              !.end = IF @ < end THEN end ELSE @]

-----------------------------------------------------------------------------
(* insert_span: trace, session and span in one savepoint *)

\* Fault: the trace moves to the project that the span was sent to.
TraceForHere(p, project) ==
  IF traces[p.trace] = None
  THEN [project |-> project, session |-> p.session, start |-> p.start, end |-> p.end]
  ELSE [Wider(traces[p.trace], p.start, p.end) EXCEPT !.project = project]

\* The trace row with the span's times, in the project it is already in.
TraceFor(p, project) ==
  IF traces[p.trace] = None
  THEN [project |-> project, session |-> p.session, start |-> p.start, end |-> p.end]
  ELSE [Wider(traces[p.trace], p.start, p.end) EXCEPT
          !.session = IF @ = None THEN p.session ELSE @]

\* Fault: the session takes the span's times, not the trace's.
SessionForSpan(row, p) ==
  IF sessions[row.session] = None
  THEN [project |-> row.project, start |-> p.start, end |-> p.end]
  ELSE sessions[row.session]

SessionFor(row, p) ==
  IF sessions[row.session] = None
  THEN [project |-> row.project, start |-> row.start, end |-> row.end]
  ELSE Wider(sessions[row.session], row.start, row.end)

\* The span's own count and what its children, here before it, have summed up.
SumFor(p) == p.count + Total(spans, ChildrenOf(p.id))

\* ON CONFLICT DO NOTHING: a span id that is stored stays as it is, but the
\* trace and session rows have been widened by then.
InsertSpan(p, project) ==
  LET row == TraceFor(p, project) IN
  /\ projects' = IF traces[p.trace] = None THEN projects \cup {project} ELSE projects
  /\ traces' = [traces EXCEPT ![p.trace] = row]
  /\ sessions' = IF row.session = None THEN sessions
                 ELSE [sessions EXCEPT ![row.session] = SessionFor(row, p)]
  /\ IF spans[p.id] # None
     THEN spans' = spans /\ event' = {}
     ELSE /\ spans' = AddToAncestors(
                        [spans EXCEPT ![p.id] =
                           [trace |-> p.trace, parent |-> p.parent, start |-> p.start,
                            end |-> p.end, own |-> p.count, sum |-> SumFor(p)]],
                        p.parent, SumFor(p))
          /\ event' = {row.project}

CreateProject(p) ==
  /\ p \notin projects
  /\ projects' = projects \cup {p} /\ event' = {p}
  /\ UNCHANGED <<traces, sessions, spans>>

-----------------------------------------------------------------------------
(* Deletions.  Foreign keys cascade: session -> traces -> spans *)

RemoveRows(T, U) ==
  LET lost == T \cup {t \in Stored(traces) : traces[t].session \in U} IN
  /\ traces' = [t \in Traces |-> IF t \in lost THEN None ELSE traces[t]]
  /\ sessions' = [u \in Sessions |-> IF u \in U THEN None ELSE sessions[u]]
  /\ spans' = [s \in SpanIds |->
       IF spans[s] # None /\ spans[s].trace \in lost THEN None ELSE spans[s]]

\* Fault: the ancestors keep the deleted span's count.
DeleteSpanOnly(s) ==
  /\ spans[s] # None
  /\ spans' = [spans EXCEPT ![s] = None]
  /\ traces' = IF SpansOf(spans[s].trace) = {s}
               THEN [traces EXCEPT ![spans[s].trace] = None] ELSE traces
  /\ event' = {} /\ UNCHANGED <<projects, sessions>>

\* Its event carries the row id of the trace where a project's is expected:
\* which project it names, if any, is chance.
DeleteSpan(s) ==
  /\ spans[s] # None
  /\ LET last == SpansOf(spans[s].trace) = {s} IN
     /\ spans' = IF last THEN [spans EXCEPT ![s] = None]
                 ELSE AddToAncestors([spans EXCEPT ![s] = None],
                                     spans[s].parent, - spans[s].sum)
     /\ traces' = IF last THEN [traces EXCEPT ![spans[s].trace] = None] ELSE traces
  /\ event' \in {{}} \cup {{p} : p \in projects}
  /\ UNCHANGED <<projects, sessions>>

\* Fault: the event names no project.
DeleteTraceSilently(t) ==
  /\ traces[t] # None
  /\ RemoveRows({t}, {})
  /\ event' = {} /\ UNCHANGED projects

\* DELETE /traces/{id}: the session row stays, also with no trace left.
DeleteTrace(t) ==
  /\ traces[t] # None
  /\ RemoveRows({t}, {})
  /\ event' = {traces[t].project} /\ UNCHANGED projects

\* Traces of one project, as deleteTraces and transferTraces require.
OneProject(T) == T # {} /\ Cardinality({traces[t].project : t \in T}) = 1

\* Fault: sessions that other traces still use go too.
DeleteTracesAndSessions(T) ==
  /\ OneProject(T)
  /\ RemoveRows(T, SessionsOf(T))
  /\ event' = {traces[t].project : t \in T} /\ UNCHANGED projects

\* The deleteTraces mutation: with the sessions that are left without a trace.
DeleteTraces(T) ==
  /\ OneProject(T)
  /\ RemoveRows(T, SessionsOf(T) \ SessionsOf(Stored(traces) \ T))
  /\ event' = {traces[t].project : t \in T} /\ UNCHANGED projects

\* The transferTracesToProject mutation writes the trace rows only.
TransferTraces(T, dest) ==
  /\ OneProject(T) /\ dest \in projects
  /\ traces' = [t \in Traces |->
       IF t \in T THEN [traces[t] EXCEPT !.project = dest] ELSE traces[t]]
  /\ event' = {} /\ UNCHANGED <<projects, sessions, spans>>

\* The clearProject mutation: traces that started before a time, if given, and
\* their sessions.
ClearProject(p, before) ==
  LET T == {t \in TracesIn(p) : before = None \/ traces[t].start < before} IN
  /\ p \in projects
  /\ RemoveRows(T, SessionsOf(T))
  /\ event' = {p} /\ UNCHANGED projects

DeleteSessions(U) ==
  /\ U # {}
  /\ RemoveRows({}, U)
  /\ event' = {sessions[u].project : u \in U} /\ UNCHANGED projects

\* The REST endpoint puts no event, the mutation puts a ProjectDeleteEvent.
DeleteProject(p) ==
  /\ p \in projects \ {Default}
  /\ projects' = projects \ {p}
  /\ RemoveRows(TracesIn(p), {u \in Stored(sessions) : sessions[u].project = p})
  /\ event' \in {{}, {p}}

Next ==
  \/ \E p \in Payload, project \in Projects : InsertSpan(p, project)
  \/ \E p \in Projects : CreateProject(p)
  \/ "span" \in Ops /\ \E s \in SpanIds : DeleteSpan(s)
  \/ "trace" \in Ops /\ \E t \in Traces : DeleteTrace(t)
  \/ "traces" \in Ops /\ \E T \in SUBSET Stored(traces) : DeleteTraces(T)
  \/ "transfer" \in Ops /\
       \E T \in SUBSET Stored(traces), dest \in Projects : TransferTraces(T, dest)
  \/ "clear" \in Ops /\ \E p \in Projects, before \in Times \cup {None} : ClearProject(p, before)
  \/ "sessions" \in Ops /\ \E U \in SUBSET Stored(sessions) : DeleteSessions(U)
  \/ "project" \in Ops /\ \E p \in Projects : DeleteProject(p)

Spec == Init /\ [][Next]_vars

-----------------------------------------------------------------------------
(* Properties *)

\* Rows keep their types and every reference has its row.
TypeOK ==
  /\ projects \subseteq Projects /\ event \subseteq Projects
  /\ traces \in [Traces -> TraceRows \cup {None}]
  /\ sessions \in [Sessions -> SessionRows \cup {None}]
  /\ spans \in [SpanIds -> SpanRows \cup {None}]
  /\ \A t \in Stored(traces) :
       traces[t].project \in projects
       /\ (traces[t].session # None => sessions[traces[t].session] # None)
  /\ \A u \in Stored(sessions) : sessions[u].project \in projects
  /\ \A s \in Stored(spans) : traces[spans[s].trace] # None

\* A span's accumulated count is its own plus its stored children's, in
\* whatever order the spans of a trace arrive and are deleted (insert_span's
\* two halves and delete_span's subtraction).
CountsAddUp ==
  \A s \in Stored(spans) :
    spans[s].sum = spans[s].own + Total(spans, ChildrenOf(s))

\* No trace row is without a span, if span ids are unique (delete_span's last step;
\* the inserts).  A trace's interval covers its spans' (insert_span's widening) and
\* a session's its traces', also when a trace grows after it joined the session, or
\* the session is deleted and comes back.
TracesHoldSpans ==
  /\ \A t \in Stored(traces) : SpansOf(t) # {}
  /\ \A s \in Stored(spans) :
       /\ traces[spans[s].trace].start <= spans[s].start
       /\ spans[s].end <= traces[spans[s].trace].end
  /\ \A t \in Stored(traces) : traces[t].session # None =>
       /\ sessions[traces[t].session].start <= traces[t].start
       /\ traces[t].end <= sessions[traces[t].session].end

\* deleteTraces removes the traces it names and no other, though it deletes
\* sessions and those take their traces along.
DeleteTracesSparesOthers ==
  [][\A T \in SUBSET Stored(traces) :
       DeleteTraces(T) => Stored(traces') = Stored(traces) \ T]_vars

SpansIn(p) == {s \in Stored(spans) : traces[spans[s].trace].project = p}

\* While every trace is in its session's project, whoever adds spans to a
\* project or takes some away names it in the event that invalidates what is
\* cached about it, cascades included.  But for three: a transfer puts no event,
\* delete_span puts a trace's id, and a deleted project has nothing cached.
ChangesAreAnnounced ==
  [][(\A t \in Stored(traces) : traces[t].session # None =>
        sessions[traces[t].session].project = traces[t].project) =>
     \A p \in projects \cap projects' : SpansIn(p)' # SpansIn(p) =>
       \/ p \in event'
       \/ \E s \in SpanIds : DeleteSpan(s)
       \/ \E T \in SUBSET Stored(traces), dest \in Projects : TransferTraces(T, dest)]_vars
=============================================================================
