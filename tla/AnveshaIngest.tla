--------------------------- MODULE AnveshaIngest ---------------------------
(***************************************************************************)
(* POST /v1/traces and GET /v1/traces/{id} of anvesha-server: concurrent   *)
(* handlers, each with a database session of its own, over one SQLite file.*)
(*                                                                         *)
(* A handler reads without a transaction until its first INSERT or UPDATE, *)
(* which takes the file's single write lock; it keeps the lock, and its    *)
(* uncommitted image of the tables, until it commits or rolls back.  What  *)
(* it read before is used after: that window is what the module is about.  *)
(*                                                                         *)
(* Rows are named by their unique keys (project name, trace id, project    *)
(* and session id, trace and span id); the server never deletes a row.     *)
(***************************************************************************)
EXTENDS Integers, Sequences, FiniteSets

CONSTANTS
  Requests,      \* export requests, each with a fixed batch of spans
  Readers,       \* get_trace requests
  Spans,         \* decoded spans, as records; identified by trace and id
  Traces, Projects, SessionIds, SpanIds,
  NoSession,     \* "the span carries no session id" / NULL column
  NoRow,         \* "no such row"
  NoOne,         \* nobody holds the write lock
  Batch,         \* Requests -> Seq(Spans), flattened in the loops' order
  Malformed,     \* requests refused before the database is touched
  Undecodable,   \* spans decode_otlp_span raises ValueError on
  MaxSends,      \* bound: how often a client sends the same batch
  MaxInFlight,   \* how many handlers may be running at once
  MaxCrashes     \* bound: how often the server process dies

SpanRecords ==
  [trace: Traces, id: SpanIds, project: Projects,
   session: SessionIds \cup {NoSession}, start: Nat, end: Nat]

Interval == [start: Nat, end: Nat]
TraceRow == [project: Projects, start: Nat, end: Nat,
             session: SessionIds \cup {NoSession}]
SessionKeys == Projects \X SessionIds
OrmRows == [base: TraceRow \cup {NoRow}, row: TraceRow \cup {NoRow},
            sbase: Interval \cup {NoRow}, srow: Interval \cup {NoRow}]

Tables ==
  [projects: SUBSET Projects,
   trace:    [Traces -> TraceRow \cup {NoRow}],
   session:  [SessionKeys -> Interval \cup {NoRow}],
   spans:    SUBSET Spans]

ASSUME SpansAssumption == Spans \subseteq SpanRecords
ASSUME KeyAssumption ==
  \A s, u \in Spans : s.trace = u.trace /\ s.id = u.id => s = u
ASSUME BatchAssumption == Batch \in [Requests -> Seq(Spans)]
ASSUME NoneAssumption ==
  /\ NoRow \notin TraceRow \cup Interval
  /\ NoSession \notin SessionIds
  /\ NoOne \notin Requests
ASSUME BoundsAssumption ==
  MaxSends \in Nat /\ MaxInFlight \in Nat /\ MaxCrashes \in Nat

VARIABLES
  db,       \* the committed tables
  writer,   \* who holds the write lock
  work,     \* the tables as the lock holder sees them
  pc,       \* where each request is
  at,       \* index of the span being inserted
  mem,      \* the ORM rows in each request's session: as loaded and as changed
  sends, crashes,
  reading   \* the get_trace requests

ingest == <<pc, at, mem>>
tables == <<db, writer, work>>
vars == <<db, writer, work, pc, at, mem, sends, crashes, reading>>

Statements == {"find_span", "find_trace", "find_project", "new_project",
               "new_trace", "find_session", "new_session", "add_span"}
Running  == Statements \cup {"received", "commit", "reply"}
Finished == {"ok", "rejected", "failed", "lost"}
PCs == {"idle"} \cup Running \cup Finished

Clean == [base |-> NoRow, row |-> NoRow, sbase |-> NoRow, srow |-> NoRow]
EmptyTables ==
  [projects |-> {}, trace |-> [t \in Traces |-> NoRow],
   session |-> [k \in SessionKeys |-> NoRow], spans |-> {}]
NotReading == [pc |-> "idle", trace |-> NoRow, row |-> NoRow, spans |-> {}]

Init ==
  /\ db = EmptyTables /\ work = EmptyTables /\ writer = NoOne
  /\ pc = [r \in Requests |-> "idle"]
  /\ at = [r \in Requests |-> 1]
  /\ mem = [r \in Requests |-> Clean]
  /\ sends = [r \in Requests |-> 0] /\ crashes = 0
  /\ reading = [q \in Readers |-> NotReading]

-----------------------------------------------------------------------------
(* The database as a request sees it *)

View(r) == IF writer = r THEN work ELSE db
CanWrite(r) == writer \in {NoOne, r}

\* A statement of r leaves the tables as d, uncommitted, and r with the lock.
Hold(r, d) == /\ CanWrite(r)
              /\ writer' = r /\ work' = d /\ db' = db

\* Fault: the handler's exit commits instead of rolling back.
EndCommits(r, outcome) ==
  /\ pc' = [pc EXCEPT ![r] = outcome]
  /\ mem' = [mem EXCEPT ![r] = Clean]
  /\ db' = View(r)
  /\ writer' = IF writer = r THEN NoOne ELSE writer
  /\ UNCHANGED <<work, at>>

\* The handler ends; leaving `async with SessionLocal()` rolls back.
End(r, outcome) ==
  /\ pc' = [pc EXCEPT ![r] = outcome]
  /\ mem' = [mem EXCEPT ![r] = Clean]
  /\ writer' = IF writer = r THEN NoOne ELSE writer
  /\ work' = IF writer = r THEN db ELSE work
  /\ UNCHANGED <<db, at>>

Goto(r, label) == pc' = [pc EXCEPT ![r] = label] /\ UNCHANGED at

\* Fault: the last span of a batch is never looked at.
LoopStopsEarly(r, k) ==
  /\ at' = [at EXCEPT ![r] = k]
  /\ pc' = [pc EXCEPT ![r] = IF k >= Len(Batch[r]) THEN "commit" ELSE "find_span"]
  /\ mem' = [mem EXCEPT ![r] = Clean]

\* The for loops of post_traces: the k-th span next, or the commit.
Loop(r, k) ==
  /\ at' = [at EXCEPT ![r] = k]
  /\ pc' = [pc EXCEPT ![r] = IF k > Len(Batch[r]) THEN "commit" ELSE "find_span"]
  /\ mem' = [mem EXCEPT ![r] = Clean]

Span(r) == Batch[r][at[r]]

\* The unique key of the session row a span's trace belongs to, and the test
\* for a trace that already has another session.
SessionKeyFromSpan(r) == <<Span(r).project, Span(r).session>>   \* Fault
SessionKey(r) == <<mem[r].row.project, Span(r).session>>
SessionClash(r) == mem[r].row.session \notin {NoSession, Span(r).session}

\* Fault: the end is stretched to the wrong time.
WidenCrossed(row, by) ==
  [row EXCEPT !.start = IF by.start < @ THEN by.start ELSE @,
              !.end   = IF @ < by.end THEN by.start ELSE @]

\* Stretch an interval so that it covers another one.
Widen(row, by) ==
  [row EXCEPT !.start = IF by.start < @ THEN by.start ELSE @,
              !.end   = IF @ < by.end THEN by.end ELSE @]

\* UPDATE writes only the columns that differ from the row as loaded.
WriteBounds(row, base, new) ==
  [row EXCEPT !.start = IF new.start # base.start THEN new.start ELSE @,
              !.end   = IF new.end # base.end THEN new.end ELSE @]
WriteTrace(row, base, new) ==
  [WriteBounds(row, base, new) EXCEPT
     !.session = IF new.session # base.session THEN new.session ELSE @]

-----------------------------------------------------------------------------
(* Clients and the request's way in *)

InFlight == {r \in Requests : pc[r] \in Running}

\* A client sends its batch, or sends it again when it got no 200 or 422.
Send(r) ==
  /\ pc[r] \in {"idle", "failed", "lost"}
  /\ sends[r] < MaxSends
  /\ Cardinality(InFlight) < MaxInFlight
  /\ sends' = [sends EXCEPT ![r] = @ + 1]
  /\ pc' = [pc EXCEPT ![r] = "received"]
  /\ UNCHANGED <<tables, at, mem, crashes, reading>>

\* 415 for the content type or encoding, 422 for a body that does not parse.
Refuse(r) ==
  /\ pc[r] = "received" /\ r \in Malformed
  /\ End(r, "rejected")
  /\ UNCHANGED <<sends, crashes, reading>>

Parse(r) ==
  /\ pc[r] = "received" /\ r \notin Malformed
  /\ Loop(r, 1)
  /\ UNCHANGED <<tables, sends, crashes, reading>>

-----------------------------------------------------------------------------
(* insert_span *)

FindSpan(r) ==
  /\ pc[r] = "find_span"
  /\ \/ /\ Span(r) \in Undecodable
        /\ End(r, "rejected")
     \/ /\ Span(r) \notin Undecodable
        /\ IF Span(r) \in View(r).spans
           THEN Loop(r, at[r] + 1)
           ELSE Goto(r, "find_trace") /\ UNCHANGED mem
        /\ UNCHANGED tables
  /\ UNCHANGED <<sends, crashes, reading>>

\* The trace row is in hand: widen it in memory and go for the session.
HaveTrace(r, row) ==
  /\ mem' = [mem EXCEPT ![r] = [base |-> row, row |-> Widen(row, Span(r)),
                                sbase |-> NoRow, srow |-> NoRow]]
  /\ Goto(r, IF Span(r).session = NoSession THEN "add_span" ELSE "find_session")

FindTrace(r) ==
  LET row == View(r).trace[Span(r).trace]
  IN /\ pc[r] = "find_trace"
     /\ IF row # NoRow THEN HaveTrace(r, row)
                       ELSE Goto(r, "find_project") /\ UNCHANGED mem
     /\ UNCHANGED <<tables, sends, crashes, reading>>

FindProject(r) ==
  /\ pc[r] = "find_project"
  /\ Goto(r, IF Span(r).project \in View(r).projects THEN "new_trace"
                                                     ELSE "new_project")
  /\ UNCHANGED <<tables, mem, sends, crashes, reading>>

\* A unique key is already taken: the IntegrityError is caught at the
\* savepoint, or it is raised while begin_nested flushes and ends in a 500.
NewProject(r) ==
  LET d == View(r)
      p == Span(r).project
  IN /\ pc[r] = "new_project" /\ CanWrite(r)
     /\ \/ /\ Hold(r, [d EXCEPT !.projects = @ \cup {p}])
           /\ Goto(r, "new_trace") /\ UNCHANGED mem
        \/ p \in d.projects /\ End(r, "failed")
     /\ UNCHANGED <<sends, crashes, reading>>

\* Fault: the insert replaces a row that another request put there.
NewTraceReplaces(r) ==
  LET s == Span(r)
      new == [project |-> s.project, start |-> s.start, end |-> s.end,
              session |-> NoSession]
  IN /\ pc[r] = "new_trace"
     /\ Hold(r, [View(r) EXCEPT !.trace[s.trace] = new])
     /\ HaveTrace(r, new)
     /\ UNCHANGED <<sends, crashes, reading>>

NewTrace(r) ==
  LET d == View(r)
      s == Span(r)
      new == [project |-> s.project, start |-> s.start, end |-> s.end,
              session |-> NoSession]
  IN /\ pc[r] = "new_trace" /\ CanWrite(r)
     /\ \/ /\ d.trace[s.trace] = NoRow
           /\ Hold(r, [d EXCEPT !.trace[s.trace] = new])
           /\ HaveTrace(r, new)
        \/ /\ d.trace[s.trace] # NoRow
           /\ \/ Hold(r, d) /\ HaveTrace(r, d.trace[s.trace])
              \/ End(r, "failed")
     /\ UNCHANGED <<sends, crashes, reading>>

\* Fault: an existing session is not stretched over the trace.
HaveSessionAsIs(r, row) ==
  LET t == mem[r].row
  IN /\ mem' = [mem EXCEPT ![r] =
          [base  |-> t, row |-> [t EXCEPT !.session = Span(r).session],
           sbase |-> row, srow |-> row]]
     /\ Goto(r, "add_span")

\* Fault: the trace's column gets the session row, not its id.
HaveSessionByRow(r, row) ==
  LET t == mem[r].row
  IN /\ mem' = [mem EXCEPT ![r] =
          [base  |-> t, row |-> [t EXCEPT !.session = row],
           sbase |-> row, srow |-> Widen(row, t)]]
     /\ Goto(r, "add_span")

\* The session row is in hand: widen it and make it the trace's session.
HaveSession(r, row) ==
  LET t == mem[r].row
  IN /\ mem' = [mem EXCEPT ![r] =
          [base  |-> t, row |-> [t EXCEPT !.session = Span(r).session],
           sbase |-> row, srow |-> Widen(row, t)]]
     /\ Goto(r, "add_span")

\* Looking the session up first autoflushes the widened trace row.
FindSession(r) ==
  LET m == mem[r]
      d == [View(r) EXCEPT !.trace[Span(r).trace] = WriteTrace(@, m.base, m.row)]
      row == View(r).session[SessionKey(r)]
  IN /\ pc[r] = "find_session"
     /\ IF SessionClash(r)
        THEN (m.row # m.base => CanWrite(r)) /\ End(r, "rejected")
        ELSE /\ IF m.row # m.base THEN Hold(r, d) ELSE UNCHANGED tables
             /\ IF row # NoRow
                THEN HaveSession(r, row)
                ELSE /\ mem' = [mem EXCEPT ![r].base = m.row]
                     /\ Goto(r, "new_session")
     /\ UNCHANGED <<sends, crashes, reading>>

NewSession(r) ==
  LET d == View(r)
      k == SessionKey(r)
      new == [start |-> mem[r].row.start, end |-> mem[r].row.end]
  IN /\ pc[r] = "new_session" /\ CanWrite(r)
     /\ \/ /\ d.session[k] = NoRow
           /\ Hold(r, [d EXCEPT !.session[k] = new])
           /\ HaveSession(r, new)
        \/ /\ d.session[k] # NoRow
           /\ \/ Hold(r, d) /\ HaveSession(r, d.session[k])
              \/ End(r, "failed")
     /\ UNCHANGED <<sends, crashes, reading>>

\* The flush of the span row writes the changed trace and session rows too;
\* a duplicate key rolls all of it back to the savepoint.
AddSpan(r) ==
  LET d == View(r)
      s == Span(r)
      m == mem[r]
      sessions == IF s.session = NoSession THEN d.session
                  ELSE [d.session EXCEPT ![SessionKey(r)] =
                          WriteBounds(@, m.sbase, m.srow)]
  IN /\ pc[r] = "add_span" /\ CanWrite(r)
     /\ \/ /\ s \notin d.spans
           /\ Hold(r, [d EXCEPT !.trace[s.trace] = WriteTrace(@, m.base, m.row),
                                !.session = sessions,
                                !.spans = @ \cup {s}])
           /\ Loop(r, at[r] + 1)
        \/ /\ s \in d.spans
           /\ \/ Hold(r, d) /\ Loop(r, at[r] + 1)
              \/ End(r, "failed")
     /\ UNCHANGED <<sends, crashes, reading>>

-----------------------------------------------------------------------------
(* The end of post_traces *)

\* Fault: the connection goes back to the pool with its transaction open.
CommitKeepsLock(r) ==
  /\ pc[r] = "commit"
  /\ db' = View(r)
  /\ Goto(r, "reply")
  /\ UNCHANGED <<writer, work, mem, sends, crashes, reading>>

Commit(r) ==
  /\ pc[r] = "commit"
  /\ db' = View(r)
  /\ writer' = IF writer = r THEN NoOne ELSE writer
  /\ Goto(r, "reply")
  /\ UNCHANGED <<work, mem, sends, crashes, reading>>

\* The 200 goes out; the network may lose it.
Reply(r) ==
  /\ pc[r] = "reply"
  /\ \E outcome \in {"ok", "lost"} : Goto(r, outcome)
  /\ UNCHANGED <<tables, mem, sends, crashes, reading>>

\* "database is locked": a write waited longer than the driver's timeout.
LockTimeout(r) ==
  /\ \/ pc[r] \in {"new_project", "new_trace", "new_session", "add_span"}
     \/ pc[r] = "find_session" /\ mem[r].row # mem[r].base
  /\ ~CanWrite(r)
  /\ End(r, "failed")
  /\ UNCHANGED <<sends, crashes, reading>>

\* The process dies and starts again on the same file.
Crash ==
  /\ crashes < MaxCrashes
  /\ crashes' = crashes + 1
  /\ pc' = [r \in Requests |-> IF pc[r] \in Running THEN "lost" ELSE pc[r]]
  /\ mem' = [r \in Requests |-> Clean]
  /\ writer' = NoOne /\ work' = db
  /\ reading' = [q \in Readers |-> IF reading[q].pc = "spans" THEN NotReading
                                                              ELSE reading[q]]
  /\ UNCHANGED <<db, at, sends>>

-----------------------------------------------------------------------------
(* get_trace: two SELECTs, each on what is committed at that moment *)

ReadTrace(q) ==
  /\ reading[q].pc = "idle"
  /\ \E t \in Traces :
       reading' = [reading EXCEPT ![q] =
         [pc |-> IF db.trace[t] = NoRow THEN "missing" ELSE "spans",
          trace |-> t, row |-> db.trace[t], spans |-> {}]]
  /\ UNCHANGED <<tables, ingest, sends, crashes>>

\* Fault: the read shares the writer's connection.
ReadSpansDirty(q) ==
  /\ reading[q].pc = "spans"
  /\ reading' = [reading EXCEPT
       ![q].pc = "answered",
       ![q].spans = {s \in work.spans : s.trace = reading[q].trace}]
  /\ UNCHANGED <<tables, ingest, sends, crashes>>

ReadSpans(q) ==
  /\ reading[q].pc = "spans"
  /\ reading' = [reading EXCEPT
       ![q].pc = "answered",
       ![q].spans = {s \in db.spans : s.trace = reading[q].trace}]
  /\ UNCHANGED <<tables, ingest, sends, crashes>>

\* Every request that was sent has ended and every read is answered.
Quiet == /\ \A r \in Requests : pc[r] \notin Running
         /\ \A q \in Readers : reading[q].pc # "spans"
         /\ UNCHANGED vars

Step(r) == \/ Refuse(r) \/ Parse(r)
           \/ FindSpan(r) \/ FindTrace(r) \/ FindProject(r) \/ NewProject(r)
           \/ NewTrace(r) \/ FindSession(r) \/ NewSession(r) \/ AddSpan(r)
           \/ Commit(r) \/ Reply(r)

Next == \/ \E r \in Requests : Send(r) \/ Step(r) \/ LockTimeout(r)
        \/ \E q \in Readers : ReadTrace(q) \/ ReadSpans(q)
        \/ Crash
        \/ Quiet

Spec == Init /\ [][Next]_vars
FairSpec == Spec /\ \A r \in Requests : WF_vars(Step(r))

-----------------------------------------------------------------------------
(* Properties *)

\* Every variable keeps its type (all of insert_span.py and post_traces).
TypeOK ==
  /\ db \in Tables /\ work \in Tables
  /\ writer \in Requests \cup {NoOne}
  /\ pc \in [Requests -> PCs]
  /\ at \in [Requests -> Nat]
  /\ \A r \in Requests : at[r] \in 1 .. Len(Batch[r]) + 1
  /\ mem \in [Requests -> OrmRows]
  /\ sends \in [Requests -> 0 .. MaxSends] /\ crashes \in 0 .. MaxCrashes
  /\ reading \in [Readers ->
       [pc: {"idle", "missing", "spans", "answered"}, trace: Traces \cup {NoRow},
        row: TraceRow \cup {NoRow}, spans: SUBSET Spans]]

Items(r) == {Batch[r][i] : i \in DOMAIN Batch[r]}

\* A 200 from post_traces means every span of the batch is committed, however
\* the handler was interleaved with others, with retries and with crashes.
AckedIsStored ==
  \A r \in Requests : pc[r] \in {"reply", "ok"} => Items(r) \subseteq db.spans

\* What is committed is always a union of whole batches: a handler that ends
\* in 422 or 500 half way through its loops leaves none of its spans.
WholeBatches ==
  \E R \in SUBSET Requests : db.spans = UNION {Items(r) : r \in R}

\* The bounds of a committed trace row are times of committed spans of that
\* trace, whatever stale row a handler wrote back; so no trace row is without
\* spans (insert_span, lines 144-151, and its rollback on error).
BoundsAreReal ==
  \A t \in Traces : db.trace[t] # NoRow =>
    /\ \E s \in db.spans : s.trace = t /\ s.start = db.trace[t].start
    /\ \E s \in db.spans : s.trace = t /\ s.end = db.trace[t].end

\* A committed trace names a committed project, and a committed session of
\* that same project, even when the batch came in for another project.
ReferencesHold ==
  \A t \in Traces : LET row == db.trace[t] IN row # NoRow =>
    /\ row.project \in db.projects
    /\ row.session # NoSession => db.session[<<row.project, row.session>>] # NoRow

\* get_trace reads the trace row and its spans in two transactions: the answer
\* is never empty, and holds of every batch all of its spans in that trace or
\* none that it alone would have brought.
ReadsAreWhole ==
  \A q \in Readers : reading[q].pc = "answered" =>
    /\ reading[q].spans # {}
    /\ \E R \in SUBSET Requests :
         reading[q].spans =
           {s \in UNION {Items(r) : r \in R} : s.trace = reading[q].trace}

\* A commit only adds: no step takes back a project, trace, session or span,
\* moves a trace to another project, or forgets that a trace has a session.
NothingForgotten ==
  [][/\ db.projects \subseteq db'.projects
     /\ db.spans \subseteq db'.spans
     /\ \A k \in SessionKeys : db.session[k] # NoRow => db'.session[k] # NoRow
     /\ \A t \in Traces : db.trace[t] # NoRow =>
          /\ db'.trace[t] # NoRow
          /\ db'.trace[t].project = db.trace[t].project
          /\ db.trace[t].session # NoSession => db'.trace[t].session # NoSession]_vars

\* A trace row covers each of its spans.  True of handlers that run one at a
\* time; two that overlap may lose one another's UPDATE.
TraceCoversSpans ==
  \A s \in db.spans : LET row == db.trace[s.trace] IN
    row # NoRow /\ row.start <= s.start /\ s.end <= row.end

\* A session row covers the spans that brought its id.  True one at a time.
SessionCoversSpans ==
  \A s \in db.spans : s.session # NoSession =>
    LET row == db.session[<<db.trace[s.trace].project, s.session>>] IN
    row # NoRow /\ row.start <= s.start /\ s.end <= row.end

\* The spans of one trace never carry two session ids: what the ValueError
\* "spans contain conflicting session ids" of insert_span.py is there to stop.
OneSessionPerTrace ==
  \A s, u \in db.spans :
    s.trace = u.trace /\ NoSession \notin {s.session, u.session}
      => s.session = u.session

\* Every request that reached the server is answered, or the server died on it.
EveryRequestEnds ==
  \A r \in Requests : pc[r] = "received" ~> pc[r] \in Finished

\* What is committed and how each request stands refine SpanStore.
AbstractStatus ==
  [r \in Requests |-> IF pc[r] \in Running \ {"reply"} THEN "busy"
                      ELSE IF pc[r] = "reply" THEN "stored" ELSE pc[r]]
Store == INSTANCE SpanStore WITH
  BatchItems <- [r \in Requests |-> Items(r)],
  stored <- db.spans, status <- AbstractStatus
StoreSpec == Store!Spec

=============================================================================
