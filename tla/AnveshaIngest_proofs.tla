------------------------ MODULE AnveshaIngest_proofs ------------------------
(***************************************************************************)
(* Proofs about AnveshaIngest: its variables keep their types; a batch is  *)
(* stored whole before its 200 and not at all otherwise, so that the       *)
(* handlers implement SpanStore; the tables hold bounds that some span     *)
(* has and references that point to rows, and forget nothing; reads are    *)
(* whole; and rows cover their spans while handlers run one at a time.     *)
(***************************************************************************)
EXTENDS IngestRace, FiniteSetTheorems, TLAPS

-----------------------------------------------------------------------------
(* What the operators on rows return *)

LEMMA WidenTrace ==
  ASSUME NEW row \in TraceRow, NEW by, by.start \in Nat, by.end \in Nat
  PROVE  /\ Widen(row, by) \in TraceRow
         /\ Widen(row, by).project = row.project
         /\ Widen(row, by).session = row.session
BY DEF Widen, TraceRow

LEMMA WidenSession ==
  ASSUME NEW row \in Interval, NEW by, by.start \in Nat, by.end \in Nat
  PROVE  Widen(row, by) \in Interval
BY DEF Widen, Interval

LEMMA WriteTraceType ==
  ASSUME NEW row \in TraceRow, NEW base \in TraceRow, NEW new \in TraceRow
  PROVE  WriteTrace(row, base, new) \in TraceRow
BY DEF WriteTrace, WriteBounds, TraceRow

LEMMA WriteSessionType ==
  ASSUME NEW row \in Interval, NEW base \in Interval, NEW new \in Interval
  PROVE  WriteBounds(row, base, new) \in Interval
BY DEF WriteBounds, Interval

-----------------------------------------------------------------------------
(* The strengthening of TypeOK *)

\* The lock holder's image has every row that is committed.
Grows == /\ db.spans \subseteq work.spans
         /\ \A t \in Traces : db.trace[t] # NoRow => work.trace[t] # NoRow
         /\ \A k \in SessionKeys : db.session[k] # NoRow => work.session[k] # NoRow

WithTrace == {"find_session", "new_session", "add_span"}

\* A handler that has read a row still finds one under that key.
RowsInHand(r) ==
  /\ pc[r] \in Statements => at[r] <= Len(Batch[r])
  /\ pc[r] \in WithTrace =>
       /\ mem[r].row \in TraceRow /\ mem[r].base \in TraceRow
       /\ View(r).trace[Span(r).trace] # NoRow
  /\ pc[r] \in {"find_session", "new_session"} => Span(r).session # NoSession
  /\ pc[r] = "add_span" /\ Span(r).session # NoSession =>
       /\ mem[r].srow \in Interval /\ mem[r].sbase \in Interval
       /\ View(r).session[SessionKey(r)] # NoRow

TInv == TypeOK /\ Grows /\ \A r \in Requests : RowsInHand(r)

\* What q sees has lost no row.
ViewGrows(q) ==
  /\ \A t \in Traces : View(q).trace[t] # NoRow => View(q)'.trace[t] # NoRow
  /\ \A k \in SessionKeys : View(q).session[k] # NoRow => View(q)'.session[k] # NoRow

LEMMA ViewType ==
  ASSUME TypeOK, NEW r \in Requests
  PROVE  View(r) \in Tables
BY DEF TypeOK, View

LEMMA SpanType ==
  ASSUME TypeOK, NEW r \in Requests, at[r] <= Len(Batch[r])
  PROVE  /\ Span(r) \in Spans
         /\ Span(r).trace \in Traces /\ Span(r).project \in Projects
         /\ Span(r).session \in SessionIds \cup {NoSession}
         /\ Span(r).start \in Nat /\ Span(r).end \in Nat
<1>1. Batch[r] \in Seq(Spans)
  BY BatchAssumption
<1>2. at[r] \in 1 .. Len(Batch[r])
  BY <1>1 DEF TypeOK
<1>3. Span(r) \in Spans
  BY <1>1, <1>2 DEF Span
<1>. QED
  BY <1>3, SpansAssumption DEF SpanRecords

LEMMA KeyType ==
  ASSUME TypeOK, NEW r \in Requests, at[r] <= Len(Batch[r]),
         mem[r].row \in TraceRow, Span(r).session # NoSession
  PROVE  SessionKey(r) \in SessionKeys
BY SpanType DEF SessionKey, SessionKeys, TraceRow

\* A request that does not move keeps its rows while what it sees grows.
LEMMA Frame ==
  ASSUME TypeOK, NEW q \in Requests, RowsInHand(q), ViewGrows(q),
         pc'[q] = pc[q], mem'[q] = mem[q], at'[q] = at[q]
  PROVE  RowsInHand(q)'
<1>1. Span(q)' = Span(q) /\ SessionKey(q)' = SessionKey(q)
  BY DEF Span, SessionKey
<1>2. pc[q] \in Statements => Span(q).trace \in Traces
  BY SpanType DEF RowsInHand
<1>3. pc[q] = "add_span" /\ Span(q).session # NoSession
        => SessionKey(q) \in SessionKeys
  BY KeyType DEF RowsInHand, Statements, WithTrace
<1>. QED
  BY <1>1, <1>2, <1>3 DEF RowsInHand, ViewGrows, Statements, WithTrace

LEMMA HoldFrame ==
  ASSUME TypeOK, NEW r \in Requests, NEW d, Hold(r, d)
  PROVE  /\ View(r)' = d
         /\ \A q \in Requests \ {r} : View(q)' = View(q)
BY NoneAssumption DEF Hold, CanWrite, View

LEMMA EndFrame ==
  ASSUME TypeOK, NEW r \in Requests, NEW o, End(r, o)
  PROVE  \A q \in Requests \ {r} : View(q)' = View(q)
BY NoneAssumption DEF End, View

\* A step that leaves the tables alone and moves r only.
LEMMA LocalFrame ==
  ASSUME TInv, NEW r \in Requests, UNCHANGED tables,
         \A q \in Requests \ {r} :
           pc'[q] = pc[q] /\ mem'[q] = mem[q] /\ at'[q] = at[q]
  PROVE  /\ Grows' /\ View(r)' = View(r)
         /\ \A q \in Requests \ {r} : RowsInHand(q)'
<1>1. Grows'
  BY DEF TInv, Grows, tables
<1>2. \A q \in Requests : View(q)' = View(q)
  BY DEF View, tables
<1>3. \A q \in Requests : ViewGrows(q)
  BY <1>2 DEF ViewGrows
<1>. QED
  BY <1>1, <1>2, <1>3, Frame DEF TInv

\* A statement of r that writes d, where d has every row r saw.
LEMMA WriteFrame ==
  ASSUME TInv, NEW r \in Requests, NEW d \in Tables, Hold(r, d),
         View(r).spans \subseteq d.spans,
         \A t \in Traces : View(r).trace[t] # NoRow => d.trace[t] # NoRow,
         \A k \in SessionKeys : View(r).session[k] # NoRow => d.session[k] # NoRow,
         \A q \in Requests \ {r} :
           pc'[q] = pc[q] /\ mem'[q] = mem[q] /\ at'[q] = at[q]
  PROVE  /\ db' \in Tables /\ work' \in Tables /\ writer' \in Requests \cup {NoOne}
         /\ Grows' /\ View(r)' = d
         /\ \A q \in Requests \ {r} : RowsInHand(q)'
<1>1. db' \in Tables /\ work' \in Tables /\ writer' \in Requests \cup {NoOne}
  BY DEF TInv, TypeOK, Hold
<1>2. Grows'
  BY DEF TInv, Grows, Hold, View
<1>3. View(r)' = d /\ \A q \in Requests \ {r} : ViewGrows(q)
  BY HoldFrame DEF TInv, ViewGrows
<1>. QED
  BY <1>1, <1>2, <1>3, Frame DEF TInv

\* The handler of r ends in o.
LEMMA EndKeeps ==
  ASSUME TInv, NEW r \in Requests, NEW o \in Finished, End(r, o),
         UNCHANGED <<sends, crashes, reading>>
  PROVE  TInv'
<1>1. TypeOK'
  <2>1. db' \in Tables /\ work' \in Tables /\ writer' \in Requests \cup {NoOne}
    BY DEF TInv, TypeOK, End
  <2>2. pc' \in [Requests -> PCs] /\ at' = at
    BY DEF TInv, TypeOK, End, PCs
  <2>3. mem' \in [Requests -> OrmRows]
    BY DEF TInv, TypeOK, End, Clean, OrmRows
  <2>. QED
    BY <2>1, <2>2, <2>3 DEF TInv, TypeOK
<1>2. Grows'
  BY DEF TInv, Grows, End
<1>3. \A q \in Requests \ {r} : RowsInHand(q)'
  <2>1. \A q \in Requests \ {r} : ViewGrows(q)
    BY EndFrame DEF TInv, ViewGrows
  <2>. QED
    BY <2>1, Frame DEF TInv, TypeOK, End
<1>4. RowsInHand(r)'
  <2>1. pc'[r] = o
    BY DEF TInv, TypeOK, End
  <2>. QED
    BY <2>1 DEF RowsInHand, Statements, Finished, WithTrace
<1>. QED
  BY <1>1, <1>2, <1>3, <1>4 DEF TInv

\* The next span, or the commit.
LEMMA LoopKeeps ==
  ASSUME TypeOK, NEW r \in Requests, NEW k \in 1 .. Len(Batch[r]) + 1, Loop(r, k)
  PROVE  /\ pc' \in [Requests -> PCs] /\ at' \in [Requests -> Nat]
         /\ \A q \in Requests : at'[q] \in 1 .. Len(Batch[q]) + 1
         /\ mem' \in [Requests -> OrmRows]
         /\ RowsInHand(r)'
         /\ \A q \in Requests \ {r} :
              pc'[q] = pc[q] /\ mem'[q] = mem[q] /\ at'[q] = at[q]
<1>1. Len(Batch[r]) \in Nat
  BY BatchAssumption
<1>2. pc' \in [Requests -> PCs]
  BY DEF TypeOK, Loop, PCs, Running, Statements
<1>3. at' \in [Requests -> Nat] /\ \A q \in Requests : at'[q] \in 1 .. Len(Batch[q]) + 1
  BY <1>1 DEF TypeOK, Loop
<1>4. mem' \in [Requests -> OrmRows]
  BY DEF TypeOK, Loop, Clean, OrmRows
<1>5. RowsInHand(r)'
  <2>1. at'[r] = k /\ pc'[r] = IF k > Len(Batch[r]) THEN "commit" ELSE "find_span"
    BY DEF TypeOK, Loop
  <2>. QED
    BY <1>1, <2>1 DEF RowsInHand, Statements, WithTrace
<1>6. \A q \in Requests \ {r} :
              pc'[q] = pc[q] /\ mem'[q] = mem[q] /\ at'[q] = at[q]
  BY DEF TypeOK, Loop
<1>. QED
  BY <1>2, <1>3, <1>4, <1>5, <1>6

\* What HaveTrace and HaveSession leave behind for r.
LEMMA HaveTraceKeeps ==
  ASSUME TypeOK, NEW r \in Requests, at[r] <= Len(Batch[r]), NEW row \in TraceRow,
         View(r)'.trace[Span(r).trace] # NoRow, HaveTrace(r, row)
  PROVE  /\ pc' \in [Requests -> PCs] /\ at' = at /\ mem' \in [Requests -> OrmRows]
         /\ RowsInHand(r)'
         /\ \A q \in Requests \ {r} : pc'[q] = pc[q] /\ mem'[q] = mem[q]
<1>1. pc' \in [Requests -> PCs] /\ at' = at
  BY DEF TypeOK, HaveTrace, Goto, PCs, Running, Statements
<1>2. Widen(row, Span(r)) \in TraceRow
  BY SpanType, WidenTrace
<1>3. mem'[r] = [base |-> row, row |-> Widen(row, Span(r)),
                 sbase |-> NoRow, srow |-> NoRow]
  BY DEF TypeOK, HaveTrace
<1>4. mem' \in [Requests -> OrmRows]
  BY <1>2 DEF TypeOK, HaveTrace, OrmRows
<1>5. RowsInHand(r)'
  <2>1. pc'[r] = IF Span(r).session = NoSession THEN "add_span" ELSE "find_session"
    BY DEF TypeOK, HaveTrace, Goto
  <2>2. Span(r)' = Span(r)
    BY <1>1 DEF Span
  <2>. QED
    BY <1>1, <1>2, <1>3, <2>1, <2>2 DEF RowsInHand, Statements, WithTrace
<1>6. \A q \in Requests \ {r} : pc'[q] = pc[q] /\ mem'[q] = mem[q]
  BY DEF TypeOK, HaveTrace, Goto
<1>. QED
  BY <1>1, <1>4, <1>5, <1>6

LEMMA HaveSessionKeeps ==
  ASSUME TypeOK, NEW r \in Requests, at[r] <= Len(Batch[r]), NEW row \in Interval,
         mem[r].row \in TraceRow, Span(r).session # NoSession,
         View(r)'.trace[Span(r).trace] # NoRow,
         View(r)'.session[SessionKey(r)] # NoRow, HaveSession(r, row)
  PROVE  /\ pc' \in [Requests -> PCs] /\ at' = at /\ mem' \in [Requests -> OrmRows]
         /\ RowsInHand(r)'
         /\ \A q \in Requests \ {r} : pc'[q] = pc[q] /\ mem'[q] = mem[q]
<1>1. pc' \in [Requests -> PCs] /\ at' = at
  BY DEF TypeOK, HaveSession, Goto, PCs, Running, Statements
<1>2. Widen(row, mem[r].row) \in Interval
  BY WidenSession DEF TraceRow
<1>. DEFINE new == [mem[r].row EXCEPT !.session = Span(r).session]
<1>3. new \in TraceRow /\ new.project = mem[r].row.project
  BY SpanType DEF TraceRow
<1>4. mem'[r] = [base |-> mem[r].row, row |-> new,
                 sbase |-> row, srow |-> Widen(row, mem[r].row)]
  BY DEF TypeOK, HaveSession
<1>5. mem' \in [Requests -> OrmRows]
  BY <1>2, <1>3 DEF TypeOK, HaveSession, OrmRows
<1>. HIDE DEF new
<1>6. Span(r)' = Span(r) /\ SessionKey(r)' = SessionKey(r)
  <2>1. Span(r)' = Span(r)
    BY <1>1 DEF Span
  <2>2. mem'[r].row.project = mem[r].row.project
    BY <1>3, <1>4
  <2>. QED
    BY <2>1, <2>2 DEF SessionKey
<1>7. RowsInHand(r)'
  <2>1. pc'[r] = "add_span"
    BY DEF TypeOK, HaveSession, Goto
  <2>. QED
    BY <1>1, <1>2, <1>3, <1>4, <1>6, <2>1 DEF RowsInHand, Statements, WithTrace
<1>8. \A q \in Requests \ {r} : pc'[q] = pc[q] /\ mem'[q] = mem[q]
  BY DEF TypeOK, HaveSession, Goto
<1>. QED
  BY <1>1, <1>5, <1>7, <1>8

-----------------------------------------------------------------------------
(* Every step keeps TInv *)

LEMMA StepKeeps ==
  ASSUME TInv, NEW r \in Requests, Step(r)
  PROVE  TInv'
<1>. DEFINE s == Span(r)
<1>. USE DEF TInv
<1>a. pc[r] \in Statements =>
        /\ at[r] \in Nat /\ at[r] <= Len(Batch[r]) /\ at[r] + 1 \in 1 .. Len(Batch[r]) + 1
        /\ s \in Spans /\ s.trace \in Traces /\ s.project \in Projects
        /\ s.session \in SessionIds \cup {NoSession}
        /\ s.start \in Nat /\ s.end \in Nat
  <2>1. Len(Batch[r]) \in Nat
    BY BatchAssumption
  <2>. QED
    BY <2>1, SpanType DEF RowsInHand, TypeOK
<1>b. View(r) \in Tables
  BY ViewType
<1>1. CASE Refuse(r)
  BY <1>1, EndKeeps DEF Refuse, Finished
<1>2. CASE Parse(r)
  <2>1. 1 \in 1 .. Len(Batch[r]) + 1
    BY BatchAssumption
  <2>2. Loop(r, 1) /\ UNCHANGED <<tables, sends, crashes, reading>>
    BY <1>2 DEF Parse
  <2>. QED
    BY <2>1, <2>2, LoopKeeps, LocalFrame DEF TypeOK, tables
<1>3. CASE FindSpan(r)
  <2>1. CASE s \in Undecodable
    BY <1>3, <2>1, EndKeeps DEF FindSpan, Finished
  <2>2. CASE s \notin Undecodable /\ s \in View(r).spans
    <3>1. Loop(r, at[r] + 1) /\ UNCHANGED <<tables, sends, crashes, reading>>
      BY <1>3, <2>2 DEF FindSpan
    <3>2. at[r] + 1 \in 1 .. Len(Batch[r]) + 1
      BY <1>3, <1>a DEF FindSpan, Statements
    <3>. QED
      BY <3>1, <3>2, LoopKeeps, LocalFrame DEF TypeOK, tables
  <2>3. CASE s \notin Undecodable /\ s \notin View(r).spans
    <3>1. /\ pc' = [pc EXCEPT ![r] = "find_trace"]
          /\ UNCHANGED <<at, mem, tables, sends, crashes, reading>>
      BY <1>3, <2>3 DEF FindSpan, Goto
    <3>2. RowsInHand(r)'
      BY <1>3, <1>a, <3>1 DEF FindSpan, RowsInHand, Statements, WithTrace, TypeOK
    <3>. QED
      BY <3>1, <3>2, LocalFrame DEF TypeOK, tables, PCs, Running, Statements
  <2>. QED
    BY <2>1, <2>2, <2>3
<1>4. CASE FindTrace(r)
  <2>1. CASE View(r).trace[s.trace] # NoRow
    <3>1. /\ HaveTrace(r, View(r).trace[s.trace])
          /\ UNCHANGED <<tables, sends, crashes, reading>>
      BY <1>4, <2>1 DEF FindTrace
    <3>2. View(r)' = View(r)
      BY <3>1 DEF View, tables
    <3>3. View(r).trace[s.trace] \in TraceRow /\ at[r] <= Len(Batch[r])
      BY <1>4, <1>a, <1>b, <2>1 DEF FindTrace, Statements, Tables
    <3>4. View(r)'.trace[s.trace] # NoRow
      BY <2>1, <3>2
    <3>. QED
      BY <3>1, <3>3, <3>4, HaveTraceKeeps, LocalFrame DEF TypeOK, tables
  <2>2. CASE View(r).trace[s.trace] = NoRow
    <3>1. /\ pc' = [pc EXCEPT ![r] = "find_project"]
          /\ UNCHANGED <<at, mem, tables, sends, crashes, reading>>
      BY <1>4, <2>2 DEF FindTrace, Goto
    <3>2. RowsInHand(r)'
      BY <1>4, <1>a, <3>1 DEF FindTrace, RowsInHand, Statements, WithTrace, TypeOK
    <3>. QED
      BY <3>1, <3>2, LocalFrame DEF TypeOK, tables, PCs, Running, Statements
  <2>. QED
    BY <2>1, <2>2
<1>5. CASE FindProject(r)
  <2>1. PICK label \in {"new_trace", "new_project"} :
          /\ pc' = [pc EXCEPT ![r] = label]
          /\ UNCHANGED <<at, mem, tables, sends, crashes, reading>>
    BY <1>5 DEF FindProject, Goto
  <2>2. RowsInHand(r)'
    BY <1>5, <1>a, <2>1 DEF FindProject, RowsInHand, Statements, WithTrace, TypeOK
  <2>. QED
    BY <2>1, <2>2, LocalFrame DEF TypeOK, tables, PCs, Running, Statements
<1>6. CASE NewProject(r)
  <2>. DEFINE d == [View(r) EXCEPT !.projects = @ \cup {s.project}]
  <2>1. CASE /\ Hold(r, d) /\ pc' = [pc EXCEPT ![r] = "new_trace"]
             /\ UNCHANGED <<at, mem, sends, crashes, reading>>
    <3>1. /\ d \in Tables /\ d.spans = View(r).spans
          /\ d.trace = View(r).trace /\ d.session = View(r).session
      BY <1>6, <1>a, <1>b DEF NewProject, Statements, Tables
    <3>2. RowsInHand(r)'
      BY <1>6, <1>a, <2>1 DEF NewProject, RowsInHand, Statements, WithTrace, TypeOK
    <3>3. \A q \in Requests \ {r} : pc'[q] = pc[q] /\ mem'[q] = mem[q] /\ at'[q] = at[q]
      BY <2>1 DEF TypeOK
    <3>4. Hold(r, d)
      BY <2>1
    <3>. HIDE DEF d
    <3>5. /\ db' \in Tables /\ work' \in Tables /\ writer' \in Requests \cup {NoOne}
          /\ Grows' /\ \A q \in Requests \ {r} : RowsInHand(q)'
      BY <3>1, <3>3, <3>4, WriteFrame
    <3>. QED
      BY <2>1, <3>2, <3>5 DEF TypeOK, PCs, Running, Statements
  <2>2. CASE End(r, "failed") /\ UNCHANGED <<sends, crashes, reading>>
    BY <2>2, EndKeeps DEF Finished
  <2>. QED
    BY <1>6, <2>1, <2>2 DEF NewProject, Goto
<1>7. CASE NewTrace(r)
  <2>. DEFINE new == [project |-> s.project, start |-> s.start, end |-> s.end,
                      session |-> NoSession]
              d == [View(r) EXCEPT !.trace[s.trace] = new]
  <2>0. pc[r] = "new_trace" /\ pc[r] \in Statements
    BY <1>7 DEF NewTrace, Statements
  <2>1. CASE Hold(r, d) /\ HaveTrace(r, new) /\ UNCHANGED <<sends, crashes, reading>>
    <3>1. new \in TraceRow
      BY <1>a, <2>0 DEF TraceRow
    <3>2. new # NoRow
      BY <3>1, NoneAssumption
    <3>. HIDE DEF new
    <3>3. /\ d \in Tables /\ d.spans = View(r).spans /\ d.session = View(r).session
          /\ d.trace = [View(r).trace EXCEPT ![s.trace] = new]
      BY <1>a, <1>b, <2>0, <3>1 DEF Tables
    <3>4. d.trace[s.trace] = new /\ \A t \in Traces : View(r).trace[t] # NoRow => d.trace[t] # NoRow
      BY <1>a, <1>b, <2>0, <3>2, <3>3 DEF Tables
    <3>5. Hold(r, d)
      BY <2>1
    <3>. HIDE DEF d
    <3>6. View(r)' = d
      BY <3>5, HoldFrame
    <3>7. View(r)'.trace[s.trace] # NoRow
      BY <3>2, <3>4, <3>6
    <3>8. /\ pc' \in [Requests -> PCs] /\ at' = at /\ mem' \in [Requests -> OrmRows]
          /\ RowsInHand(r)'
          /\ \A q \in Requests \ {r} : pc'[q] = pc[q] /\ mem'[q] = mem[q]
      BY <1>a, <2>0, <2>1, <3>1, <3>7, HaveTraceKeeps
    <3>9. /\ db' \in Tables /\ work' \in Tables /\ writer' \in Requests \cup {NoOne}
          /\ Grows' /\ \A q \in Requests \ {r} : RowsInHand(q)'
      BY <3>3, <3>4, <3>5, <3>8, WriteFrame, ZenonT(30)
    <3>. QED
      BY <2>1, <3>8, <3>9 DEF TypeOK
  <2>2. CASE /\ View(r).trace[s.trace] # NoRow
             /\ Hold(r, View(r)) /\ HaveTrace(r, View(r).trace[s.trace])
             /\ UNCHANGED <<sends, crashes, reading>>
    <3>1. View(r).trace[s.trace] \in TraceRow
      BY <1>a, <1>b, <2>0, <2>2 DEF Tables
    <3>2. View(r)' = View(r)
      BY <2>2, HoldFrame
    <3>3. View(r)'.trace[s.trace] # NoRow
      BY <2>2, <3>2
    <3>4. /\ pc' \in [Requests -> PCs] /\ at' = at /\ mem' \in [Requests -> OrmRows]
          /\ RowsInHand(r)'
          /\ \A q \in Requests \ {r} : pc'[q] = pc[q] /\ mem'[q] = mem[q]
      BY <1>a, <2>0, <2>2, <3>1, <3>3, HaveTraceKeeps
    <3>5. /\ db' \in Tables /\ work' \in Tables /\ writer' \in Requests \cup {NoOne}
          /\ Grows' /\ \A q \in Requests \ {r} : RowsInHand(q)'
      BY <1>b, <2>2, <3>4, WriteFrame
    <3>. QED
      BY <2>2, <3>4, <3>5 DEF TypeOK
  <2>3. CASE End(r, "failed") /\ UNCHANGED <<sends, crashes, reading>>
    BY <2>3, EndKeeps DEF Finished
  <2>. QED
    BY <1>7, <2>1, <2>2, <2>3 DEF NewTrace
<1>8. CASE FindSession(r)
  <2>. DEFINE m == mem[r]
              d == [View(r) EXCEPT !.trace[s.trace] = WriteTrace(@, m.base, m.row)]
              row == View(r).session[SessionKey(r)]
  <2>0. /\ pc[r] \in Statements /\ s.session # NoSession
        /\ m.row \in TraceRow /\ m.base \in TraceRow
        /\ View(r).trace[s.trace] # NoRow
    BY <1>8 DEF FindSession, Statements, WithTrace, RowsInHand
  <2>1. CASE End(r, "rejected") /\ UNCHANGED <<sends, crashes, reading>>
    BY <2>1, EndKeeps DEF Finished
  <2>2. ASSUME ~SessionClash(r)
        PROVE  TInv'
    <3>1. PICK e \in Tables :
            /\ \/ Hold(r, e)
               \/ e = View(r) /\ UNCHANGED tables
            /\ e.spans = View(r).spans /\ e.session = View(r).session
            /\ \A t \in Traces : View(r).trace[t] # NoRow => e.trace[t] # NoRow
      <4>1. WriteTrace(View(r).trace[s.trace], m.base, m.row) \in TraceRow
        BY <1>a, <1>b, <2>0, WriteTraceType DEF Tables
      <4>2. d \in Tables /\ d.spans = View(r).spans /\ d.session = View(r).session
            /\ d.trace = [View(r).trace EXCEPT ![s.trace] =
                            WriteTrace(View(r).trace[s.trace], m.base, m.row)]
        BY <1>a, <1>b, <2>0, <4>1 DEF Tables
      <4>3. \A t \in Traces : View(r).trace[t] # NoRow => d.trace[t] # NoRow
        BY <1>a, <1>b, <2>0, <4>1, <4>2, NoneAssumption DEF Tables
      <4>. HIDE DEF d
      <4>4. CASE m.row # m.base
        <5>1. Hold(r, d)
          BY <1>8, <2>2, <4>4 DEF FindSession, d
        <5>. QED
          BY <4>2, <4>3, <5>1
      <4>5. CASE m.row = m.base
        <5>1. UNCHANGED tables
          BY <1>8, <2>2, <4>5 DEF FindSession
        <5>. QED
          BY <1>b, <5>1
      <4>. QED
        BY <4>4, <4>5
    <3>2. View(r)' = e
      BY <3>1, HoldFrame DEF View, tables
    <3>3. View(r)'.trace[s.trace] # NoRow
      BY <1>a, <2>0, <3>1, <3>2
    <3>4. SessionKey(r) \in SessionKeys
      BY <1>a, <2>0, KeyType
    <3>5. /\ pc' \in [Requests -> PCs] /\ at' = at /\ mem' \in [Requests -> OrmRows]
          /\ RowsInHand(r)'
          /\ \A q \in Requests \ {r} : pc'[q] = pc[q] /\ mem'[q] = mem[q]
      <4>1. CASE row # NoRow
        <5>1. HaveSession(r, row)
          BY <1>8, <2>2, <4>1 DEF FindSession
        <5>2. row \in Interval
          BY <1>b, <3>4, <4>1 DEF Tables
        <5>3. View(r)'.session[SessionKey(r)] # NoRow
          BY <3>1, <3>2, <4>1
        <5>. QED
          BY <1>a, <2>0, <3>3, <5>1, <5>2, <5>3, HaveSessionKeeps
      <4>2. CASE row = NoRow
        <5>1. /\ mem' = [mem EXCEPT ![r].base = m.row]
              /\ pc' = [pc EXCEPT ![r] = "new_session"] /\ at' = at
          BY <1>8, <2>2, <4>2 DEF FindSession, Goto
        <5>2. mem' \in [Requests -> OrmRows] /\ mem'[r].row = m.row /\ mem'[r].base = m.row
          BY <2>0, <5>1 DEF TypeOK, OrmRows
        <5>3. Span(r)' = Span(r)
          BY <5>1 DEF Span
        <5>4. RowsInHand(r)'
          BY <1>a, <2>0, <3>3, <5>1, <5>2, <5>3
          DEF RowsInHand, Statements, WithTrace, TypeOK
        <5>. QED
          BY <5>1, <5>2, <5>4 DEF TypeOK, PCs, Running, Statements
      <4>. QED
        BY <4>1, <4>2
    <3>6. /\ db' \in Tables /\ work' \in Tables /\ writer' \in Requests \cup {NoOne}
          /\ Grows' /\ \A q \in Requests \ {r} : RowsInHand(q)'
      <4>1. CASE Hold(r, e)
        BY <3>1, <3>5, <4>1, WriteFrame
      <4>2. CASE UNCHANGED tables
        BY <3>5, <4>2, LocalFrame DEF TypeOK, tables
      <4>. QED
        BY <3>1, <4>1, <4>2
    <3>7. UNCHANGED <<sends, crashes, reading>>
      BY <1>8 DEF FindSession
    <3>. QED
      BY <3>5, <3>6, <3>7 DEF TypeOK
  <2>. QED
    BY <1>8, <2>1, <2>2 DEF FindSession
<1>9. CASE NewSession(r)
  <2>. DEFINE k == SessionKey(r)
              new == [start |-> mem[r].row.start, end |-> mem[r].row.end]
              d == [View(r) EXCEPT !.session[k] = new]
  <2>0. /\ pc[r] \in Statements /\ s.session # NoSession
        /\ mem[r].row \in TraceRow /\ View(r).trace[s.trace] # NoRow
    BY <1>9 DEF NewSession, Statements, WithTrace, RowsInHand
  <2>k. k \in SessionKeys
    BY <1>a, <2>0, KeyType
  <2>. HIDE DEF k
  <2>1. CASE Hold(r, d) /\ HaveSession(r, new) /\ UNCHANGED <<sends, crashes, reading>>
    <3>1. new \in Interval /\ new # NoRow
      BY <2>0, NoneAssumption DEF TraceRow, Interval
    <3>. HIDE DEF new
    <3>2. /\ d \in Tables /\ d.spans = View(r).spans /\ d.trace = View(r).trace
          /\ d.session = [View(r).session EXCEPT ![k] = new]
      BY <1>b, <2>k, <3>1 DEF Tables
    <3>3. /\ d.session[k] = new
          /\ \A j \in SessionKeys : View(r).session[j] # NoRow => d.session[j] # NoRow
      BY <1>b, <2>k, <3>1, <3>2 DEF Tables
    <3>4. Hold(r, d)
      BY <2>1
    <3>. HIDE DEF d
    <3>5. View(r)' = d
      BY <3>4, HoldFrame
    <3>6. View(r)'.trace[s.trace] # NoRow /\ View(r)'.session[SessionKey(r)] # NoRow
      BY <2>0, <3>1, <3>2, <3>3, <3>5 DEF k
    <3>7. /\ pc' \in [Requests -> PCs] /\ at' = at /\ mem' \in [Requests -> OrmRows]
          /\ RowsInHand(r)'
          /\ \A q \in Requests \ {r} : pc'[q] = pc[q] /\ mem'[q] = mem[q]
      BY <1>a, <2>0, <2>1, <3>1, <3>6, HaveSessionKeeps
    <3>8. /\ db' \in Tables /\ work' \in Tables /\ writer' \in Requests \cup {NoOne}
          /\ Grows' /\ \A q \in Requests \ {r} : RowsInHand(q)'
      BY <3>2, <3>3, <3>4, <3>7, WriteFrame, ZenonT(30)
    <3>. QED
      BY <2>1, <3>7, <3>8 DEF TypeOK
  <2>2. CASE /\ View(r).session[k] # NoRow
             /\ Hold(r, View(r)) /\ HaveSession(r, View(r).session[k])
             /\ UNCHANGED <<sends, crashes, reading>>
    <3>1. View(r).session[k] \in Interval
      BY <1>b, <2>k, <2>2 DEF Tables
    <3>2. View(r)' = View(r)
      BY <2>2, HoldFrame
    <3>3. View(r)'.trace[s.trace] # NoRow /\ View(r)'.session[SessionKey(r)] # NoRow
      BY <2>0, <2>2, <3>2 DEF k
    <3>4. /\ pc' \in [Requests -> PCs] /\ at' = at /\ mem' \in [Requests -> OrmRows]
          /\ RowsInHand(r)'
          /\ \A q \in Requests \ {r} : pc'[q] = pc[q] /\ mem'[q] = mem[q]
      BY <1>a, <2>0, <2>2, <3>1, <3>3, HaveSessionKeeps
    <3>5. /\ db' \in Tables /\ work' \in Tables /\ writer' \in Requests \cup {NoOne}
          /\ Grows' /\ \A q \in Requests \ {r} : RowsInHand(q)'
      BY <1>b, <2>2, <3>4, WriteFrame
    <3>. QED
      BY <2>2, <3>4, <3>5 DEF TypeOK
  <2>3. CASE End(r, "failed") /\ UNCHANGED <<sends, crashes, reading>>
    BY <2>3, EndKeeps DEF Finished
  <2>. QED
    BY <1>9, <2>1, <2>2, <2>3 DEF NewSession, k
<1>10. CASE AddSpan(r)
  <2>. DEFINE m == mem[r]
              k == SessionKey(r)
              sessions == IF s.session = NoSession THEN View(r).session
                          ELSE [View(r).session EXCEPT ![k] = WriteBounds(@, m.sbase, m.srow)]
              d == [View(r) EXCEPT !.trace[s.trace] = WriteTrace(@, m.base, m.row),
                                   !.session = sessions,
                                   !.spans = @ \cup {s}]
  <2>0. /\ pc[r] \in Statements /\ m.row \in TraceRow /\ m.base \in TraceRow
        /\ View(r).trace[s.trace] # NoRow
        /\ s.session # NoSession => /\ m.srow \in Interval /\ m.sbase \in Interval
                                    /\ View(r).session[k] # NoRow
    BY <1>10 DEF AddSpan, Statements, WithTrace, RowsInHand
  <2>n. at[r] + 1 \in 1 .. Len(Batch[r]) + 1
    BY <1>a, <2>0
  <2>1. CASE Hold(r, d) /\ Loop(r, at[r] + 1) /\ UNCHANGED <<sends, crashes, reading>>
    <3>1. WriteTrace(View(r).trace[s.trace], m.base, m.row) \in TraceRow
      BY <1>a, <1>b, <2>0, WriteTraceType DEF Tables
    <3>2. /\ sessions \in [SessionKeys -> Interval \cup {NoRow}]
          /\ \A j \in SessionKeys : View(r).session[j] # NoRow => sessions[j] # NoRow
      <4>1. CASE s.session = NoSession
        BY <1>b, <4>1 DEF Tables
      <4>2. CASE s.session # NoSession
        <5>1. k \in SessionKeys
          BY <1>a, <2>0, <4>2, KeyType
        <5>2. WriteBounds(View(r).session[k], m.sbase, m.srow) \in Interval
          BY <1>b, <2>0, <4>2, <5>1, WriteSessionType DEF Tables
        <5>. HIDE DEF k
        <5>. QED
          BY <1>b, <4>2, <5>1, <5>2, NoneAssumption DEF Tables
      <4>. QED
        BY <4>1, <4>2
    <3>. HIDE DEF sessions
    <3>3. /\ d \in Tables /\ d.spans = View(r).spans \cup {s} /\ d.session = sessions
          /\ d.trace = [View(r).trace EXCEPT ![s.trace] =
                          WriteTrace(View(r).trace[s.trace], m.base, m.row)]
      BY <1>a, <1>b, <2>0, <3>1, <3>2 DEF Tables
    <3>4. \A t \in Traces : View(r).trace[t] # NoRow => d.trace[t] # NoRow
      BY <1>a, <1>b, <2>0, <3>1, <3>3, NoneAssumption DEF Tables
    <3>5. Hold(r, d)
      BY <2>1
    <3>. HIDE DEF d
    <3>6. /\ pc' \in [Requests -> PCs] /\ at' \in [Requests -> Nat]
          /\ \A q \in Requests : at'[q] \in 1 .. Len(Batch[q]) + 1
          /\ mem' \in [Requests -> OrmRows] /\ RowsInHand(r)'
          /\ \A q \in Requests \ {r} :
               pc'[q] = pc[q] /\ mem'[q] = mem[q] /\ at'[q] = at[q]
      BY <2>n, <2>1, LoopKeeps
    <3>7. /\ db' \in Tables /\ work' \in Tables /\ writer' \in Requests \cup {NoOne}
          /\ Grows' /\ \A q \in Requests \ {r} : RowsInHand(q)'
      BY <3>2, <3>3, <3>4, <3>5, <3>6, WriteFrame, ZenonT(30)
    <3>. QED
      BY <2>1, <3>6, <3>7 DEF TypeOK
  <2>2. CASE Hold(r, View(r)) /\ Loop(r, at[r] + 1) /\ UNCHANGED <<sends, crashes, reading>>
    <3>1. /\ pc' \in [Requests -> PCs] /\ at' \in [Requests -> Nat]
          /\ \A q \in Requests : at'[q] \in 1 .. Len(Batch[q]) + 1
          /\ mem' \in [Requests -> OrmRows] /\ RowsInHand(r)'
          /\ \A q \in Requests \ {r} :
               pc'[q] = pc[q] /\ mem'[q] = mem[q] /\ at'[q] = at[q]
      BY <2>n, <2>2, LoopKeeps
    <3>2. /\ db' \in Tables /\ work' \in Tables /\ writer' \in Requests \cup {NoOne}
          /\ Grows' /\ \A q \in Requests \ {r} : RowsInHand(q)'
      BY <1>b, <2>2, <3>1, WriteFrame
    <3>. QED
      BY <2>2, <3>1, <3>2 DEF TypeOK
  <2>3. CASE End(r, "failed") /\ UNCHANGED <<sends, crashes, reading>>
    BY <2>3, EndKeeps DEF Finished
  <2>. QED
    BY <1>10, <2>1, <2>2, <2>3 DEF AddSpan
<1>11. CASE Commit(r)
  <2>1. /\ pc' = [pc EXCEPT ![r] = "reply"] /\ UNCHANGED <<at, mem, work, sends, crashes, reading>>
        /\ db' = View(r) /\ writer' = IF writer = r THEN NoOne ELSE writer
    BY <1>11 DEF Commit, Goto
  <2>2. TypeOK'
    BY <1>b, <2>1 DEF TypeOK, PCs, Running
  <2>3. Grows'
    BY <2>1 DEF Grows, View
  <2>4. \A q \in Requests \ {r} : ViewGrows(q)
    BY <2>1, NoneAssumption DEF View, Grows, ViewGrows
  <2>5. \A q \in Requests \ {r} : RowsInHand(q)'
    BY <2>1, <2>4, Frame DEF TypeOK
  <2>6. RowsInHand(r)'
    BY <2>1 DEF RowsInHand, Statements, WithTrace, TypeOK
  <2>. QED
    BY <2>2, <2>3, <2>5, <2>6
<1>12. CASE Reply(r)
  <2>1. PICK o \in {"ok", "lost"} :
          /\ pc' = [pc EXCEPT ![r] = o]
          /\ UNCHANGED <<at, mem, tables, sends, crashes, reading>>
    BY <1>12 DEF Reply, Goto
  <2>2. RowsInHand(r)'
    BY <2>1 DEF RowsInHand, Statements, WithTrace, TypeOK
  <2>. QED
    BY <2>1, <2>2, LocalFrame DEF TypeOK, tables, PCs, Finished
<1>. QED
  BY <1>1, <1>2, <1>3, <1>4, <1>5, <1>6, <1>7, <1>8, <1>9, <1>10, <1>11, <1>12 DEF Step

\* A client sends, the server crashes, a reader reads.
LEMMA OtherStepsKeep ==
  ASSUME TInv,
         \/ \E r \in Requests : Send(r) \/ LockTimeout(r)
         \/ \E q \in Readers : ReadTrace(q) \/ ReadSpans(q)
         \/ Crash \/ Quiet \/ UNCHANGED vars
  PROVE  TInv'
<1>. USE DEF TInv
<1>1. ASSUME NEW r \in Requests, Send(r) PROVE TInv'
  <2>1. /\ pc' = [pc EXCEPT ![r] = "received"] /\ sends' = [sends EXCEPT ![r] = @ + 1]
        /\ UNCHANGED <<tables, at, mem, crashes, reading>> /\ sends[r] < MaxSends
    BY <1>1 DEF Send
  <2>2. RowsInHand(r)'
    BY <2>1 DEF RowsInHand, Statements, WithTrace, TypeOK
  <2>3. Grows' /\ \A q \in Requests \ {r} : RowsInHand(q)'
    BY <2>1, LocalFrame DEF TypeOK, tables
  <2>4. sends' \in [Requests -> 0 .. MaxSends]
    BY <2>1, BoundsAssumption DEF TypeOK
  <2>. QED
    BY <2>1, <2>2, <2>3, <2>4 DEF TypeOK, tables, PCs, Running
<1>2. ASSUME NEW r \in Requests, LockTimeout(r) PROVE TInv'
  BY <1>2, EndKeeps DEF LockTimeout, Finished
<1>3. ASSUME UNCHANGED <<tables, ingest>> PROVE Grows' /\ \A r \in Requests : RowsInHand(r)'
  <2>1. Grows' /\ \A r \in Requests : ViewGrows(r)
    BY <1>3 DEF tables, Grows, ViewGrows, View
  <2>. QED
    BY <1>3, <2>1, Frame DEF ingest
<1>4. ASSUME NEW q \in Readers, ReadTrace(q) PROVE TInv'
  <2>1. PICK t \in Traces :
          reading' = [reading EXCEPT ![q] =
            [pc |-> IF db.trace[t] = NoRow THEN "missing" ELSE "spans",
             trace |-> t, row |-> db.trace[t], spans |-> {}]]
    BY <1>4 DEF ReadTrace
  <2>2. db.trace[t] \in TraceRow \cup {NoRow}
    BY DEF TypeOK, Tables
  <2>3. UNCHANGED <<tables, ingest, sends, crashes>>
    BY <1>4 DEF ReadTrace
  <2>4. TypeOK'
    BY <2>1, <2>2, <2>3 DEF TypeOK, tables, ingest
  <2>. QED
    BY <1>3, <2>3, <2>4
<1>5. ASSUME NEW q \in Readers, ReadSpans(q) PROVE TInv'
  <2>1. UNCHANGED <<tables, ingest, sends, crashes>>
    BY <1>5 DEF ReadSpans
  <2>2. {s \in db.spans : s.trace = reading[q].trace} \in SUBSET Spans
    BY DEF TypeOK, Tables
  <2>3. TypeOK'
    BY <1>5, <2>1, <2>2, ZenonT(30) DEF ReadSpans, TypeOK, tables, ingest
  <2>. QED
    BY <1>3, <2>1, <2>3
<1>6. CASE Crash
  <2>1. pc' \in [Requests -> PCs] /\ \A r \in Requests : pc'[r] \notin Statements
    BY <1>6 DEF Crash, TypeOK, PCs, Running, Finished, Statements
  <2>2. mem' \in [Requests -> OrmRows]
    BY <1>6 DEF Crash, Clean, OrmRows
  <2>3. crashes' \in 0 .. MaxCrashes
    BY <1>6, BoundsAssumption DEF Crash, TypeOK
  <2>4. /\ reading' = [q \in Readers |-> IF reading[q].pc = "spans" THEN NotReading
                                                                   ELSE reading[q]]
        /\ db' = db /\ work' = db /\ writer' = NoOne /\ at' = at /\ sends' = sends
    BY <1>6 DEF Crash
  <2>5. NotReading \in [pc: {"idle", "missing", "spans", "answered"},
                        trace: Traces \cup {NoRow}, row: TraceRow \cup {NoRow},
                        spans: SUBSET Spans]
    BY DEF NotReading
  <2>6. TypeOK'
    BY <2>1, <2>2, <2>3, <2>4, <2>5 DEF TypeOK
  <2>7. Grows'
    BY <2>4 DEF Grows
  <2>8. \A r \in Requests : RowsInHand(r)'
    BY <2>1 DEF RowsInHand, Statements, WithTrace
  <2>. QED
    BY <2>6, <2>7, <2>8
<1>7. CASE Quiet \/ UNCHANGED vars
  <2>1. UNCHANGED <<tables, ingest, sends, crashes, reading>>
    BY <1>7 DEF Quiet, vars, tables, ingest
  <2>2. TypeOK'
    BY <2>1 DEF TypeOK, tables, ingest
  <2>. QED
    BY <1>3, <2>1, <2>2
<1>. QED
  BY <1>1, <1>2, <1>4, <1>5, <1>6, <1>7

LEMMA InitTInv == Init => TInv
<1>. SUFFICES ASSUME Init PROVE TInv
  OBVIOUS
<1>. USE DEF Init
<1>1. EmptyTables \in Tables
  BY DEF EmptyTables, Tables
<1>2. \A r \in Requests : Len(Batch[r]) \in Nat
  BY BatchAssumption
<1>3. TypeOK
  BY <1>1, <1>2, BoundsAssumption
  DEF TypeOK, PCs, Clean, OrmRows, NotReading
<1>. QED
  BY <1>3 DEF TInv, Grows, RowsInHand, Statements, WithTrace

LEMMA NextTInv == TInv /\ [Next]_vars => TInv'
BY StepKeeps, OtherStepsKeep DEF Next

LEMMA AlwaysTInv == Spec => []TInv
BY InitTInv, NextTInv, PTL DEF Spec

\* Type correctness of the ingest handlers, for any requests, spans and batches.
THEOREM TypeCorrect == Spec => []TypeOK
<1>1. TInv => TypeOK
  BY DEF TInv
<1>. QED
  BY <1>1, AlwaysTInv, PTL

-----------------------------------------------------------------------------
(* The six kinds of step a handler takes, seen from the spans table *)

\* r adds the spans X to what it sees, and takes the lock if it writes.
Adds(r, X) == /\ db' = db
              /\ View(r)'.spans = View(r).spans \cup X
              /\ \/ writer' = writer /\ work' = work
                 \/ CanWrite(r) /\ writer' = r

StaysInSpan(r) == /\ pc[r] \in Statements /\ at' = at
                  /\ \E label \in Statements : pc' = [pc EXCEPT ![r] = label]
                  /\ Adds(r, {})
NextSpan(r) == pc[r] \in Statements /\ Loop(r, at[r] + 1) /\ Adds(r, {Span(r)})
GivesUp(r) == /\ pc[r] \in Statements \cup {"received"}
              /\ \E o \in {"rejected", "failed"} : End(r, o)
Starts(r) == pc[r] = "received" /\ Loop(r, 1) /\ UNCHANGED tables

LEMMA HoldAdds ==
  ASSUME TInv, NEW r \in Requests, NEW d, NEW X, Hold(r, d),
         d.spans = View(r).spans \cup X
  PROVE  Adds(r, X)
BY HoldFrame DEF TInv, Adds, Hold

LEMMA IdleAdds ==
  ASSUME NEW r \in Requests, UNCHANGED tables, NEW X, X \subseteq View(r).spans
  PROVE  Adds(r, X)
BY DEF Adds, View, tables

LEMMA StepKinds ==
  ASSUME TInv, NEW r \in Requests, Step(r)
  PROVE  \/ StaysInSpan(r) \/ NextSpan(r) \/ GivesUp(r) \/ Starts(r)
         \/ Commit(r) \/ Reply(r)
<1>b. View(r) \in Tables
  BY ViewType DEF TInv
<1>1. CASE Refuse(r)
  BY <1>1 DEF Refuse, GivesUp
<1>2. CASE Parse(r)
  BY <1>2 DEF Parse, Starts
<1>3. CASE FindSpan(r)
  <2>1. CASE Span(r) \in Undecodable
    BY <1>3, <2>1 DEF FindSpan, GivesUp, Statements
  <2>2. CASE Span(r) \notin Undecodable /\ Span(r) \in View(r).spans
    <3>1. Loop(r, at[r] + 1) /\ UNCHANGED tables
      BY <1>3, <2>2 DEF FindSpan
    <3>2. Adds(r, {Span(r)})
      BY <2>2, <3>1, IdleAdds
    <3>. QED
      BY <1>3, <3>1, <3>2 DEF FindSpan, NextSpan, Statements
  <2>3. CASE Span(r) \notin Undecodable /\ Span(r) \notin View(r).spans
    <3>1. pc' = [pc EXCEPT ![r] = "find_trace"] /\ at' = at /\ UNCHANGED tables
      BY <1>3, <2>3 DEF FindSpan, Goto
    <3>. QED
      BY <1>3, <3>1, IdleAdds DEF FindSpan, StaysInSpan, Statements
  <2>. QED
    BY <2>1, <2>2, <2>3
<1>4. CASE FindTrace(r)
  <2>1. /\ at' = at /\ UNCHANGED tables
        /\ \E label \in Statements : pc' = [pc EXCEPT ![r] = label]
    BY <1>4 DEF FindTrace, HaveTrace, Goto, Statements
  <2>2. pc[r] \in Statements
    BY <1>4 DEF FindTrace, Statements
  <2>3. Adds(r, {})
    BY <2>1, IdleAdds
  <2>. QED
    BY <2>1, <2>2, <2>3 DEF StaysInSpan
<1>5. CASE FindProject(r)
  <2>1. /\ at' = at /\ UNCHANGED tables
        /\ \E label \in Statements : pc' = [pc EXCEPT ![r] = label]
    BY <1>5 DEF FindProject, Goto, Statements
  <2>2. pc[r] \in Statements
    BY <1>5 DEF FindProject, Statements
  <2>3. Adds(r, {})
    BY <2>1, IdleAdds
  <2>. QED
    BY <2>1, <2>2, <2>3 DEF StaysInSpan
<1>6. CASE NewProject(r)
  <2>1. CASE Hold(r, [View(r) EXCEPT !.projects = @ \cup {Span(r).project}]) /\ Goto(r, "new_trace")
    <3>1. [View(r) EXCEPT !.projects = @ \cup {Span(r).project}].spans = View(r).spans \cup {}
      BY <1>b DEF Tables
    <3>2. Adds(r, {})
      BY <2>1, <3>1, HoldAdds
    <3>. QED
      BY <1>6, <2>1, <3>2 DEF NewProject, Goto, StaysInSpan, Statements
  <2>2. CASE End(r, "failed")
    BY <1>6, <2>2 DEF NewProject, GivesUp, Statements
  <2>. QED
    BY <1>6, <2>1, <2>2 DEF NewProject
<1>7. CASE NewTrace(r)
  <2>1. ASSUME NEW d, d.spans = View(r).spans, NEW row, Hold(r, d), HaveTrace(r, row)
        PROVE  StaysInSpan(r)
    <3>1. Adds(r, {})
      BY <2>1, HoldAdds
    <3>. QED
      BY <1>7, <2>1, <3>1 DEF NewTrace, HaveTrace, Goto, StaysInSpan, Statements
  <2>2. CASE End(r, "failed")
    BY <1>7, <2>2 DEF NewTrace, GivesUp, Statements
  <2>3. \A t, row : [View(r) EXCEPT !.trace[t] = row].spans = View(r).spans
    BY <1>b DEF Tables
  <2>. QED
    BY <1>7, <2>1, <2>2, <2>3 DEF NewTrace
<1>8. CASE FindSession(r)
  <2>1. CASE End(r, "rejected")
    BY <1>8, <2>1 DEF FindSession, GivesUp, Statements
  <2>2. ASSUME ~SessionClash(r) PROVE StaysInSpan(r)
    <3>1. \A t, row : [View(r) EXCEPT !.trace[t] = row].spans = View(r).spans
      BY <1>b DEF Tables
    <3>2. UNCHANGED tables \/ \E d : Hold(r, d) /\ d.spans = View(r).spans
      BY <1>8, <2>2, <3>1, ZenonT(30) DEF FindSession
    <3>3. Adds(r, {})
      BY <3>2, HoldAdds, IdleAdds
    <3>4. /\ at' = at
          /\ \E label \in {"add_span", "new_session"} : pc' = [pc EXCEPT ![r] = label]
      BY <1>8, <2>2 DEF FindSession, HaveSession, Goto
    <3>. QED
      BY <1>8, <3>3, <3>4 DEF FindSession, StaysInSpan, Statements
  <2>. QED
    BY <1>8, <2>1, <2>2 DEF FindSession
<1>9. CASE NewSession(r)
  <2>1. ASSUME NEW d, d.spans = View(r).spans, NEW row, Hold(r, d), HaveSession(r, row)
        PROVE  StaysInSpan(r)
    <3>1. Adds(r, {})
      BY <2>1, HoldAdds
    <3>. QED
      BY <1>9, <2>1, <3>1 DEF NewSession, HaveSession, Goto, StaysInSpan, Statements
  <2>2. CASE End(r, "failed")
    BY <1>9, <2>2 DEF NewSession, GivesUp, Statements
  <2>3. \A k, row : [View(r) EXCEPT !.session[k] = row].spans = View(r).spans
    BY <1>b DEF Tables
  <2>. QED
    BY <1>9, <2>1, <2>2, <2>3 DEF NewSession
<1>10. CASE AddSpan(r)
  <2>1. ASSUME NEW d, Hold(r, d), d.spans = View(r).spans \cup {Span(r)}, Loop(r, at[r] + 1)
        PROVE  NextSpan(r)
    BY <1>10, <2>1, HoldAdds DEF AddSpan, NextSpan, Statements
  <2>2. CASE End(r, "failed")
    BY <1>10, <2>2 DEF AddSpan, GivesUp, Statements
  <2>3. CASE /\ Hold(r, View(r)) /\ Loop(r, at[r] + 1)
             /\ Span(r) \in View(r).spans
    BY <2>1, <2>3
  <2>. DEFINE m == mem[r]
              s == Span(r)
              sessions == IF s.session = NoSession THEN View(r).session
                          ELSE [View(r).session EXCEPT ![SessionKey(r)] =
                                  WriteBounds(@, m.sbase, m.srow)]
              d == [View(r) EXCEPT !.trace[s.trace] = WriteTrace(@, m.base, m.row),
                                   !.session = sessions,
                                   !.spans = @ \cup {s}]
  <2>4. CASE Hold(r, d) /\ Loop(r, at[r] + 1)
    <3>. HIDE DEF sessions
    <3>1. d.spans = View(r).spans \cup {s}
      BY <1>b DEF Tables
    <3>. HIDE DEF d
    <3>. QED
      BY <2>1, <2>4, <3>1
  <2>. QED
    BY <1>10, <2>2, <2>3, <2>4 DEF AddSpan
<1>. QED
  BY <1>1, <1>2, <1>3, <1>4, <1>5, <1>6, <1>7, <1>8, <1>9, <1>10 DEF Step

-----------------------------------------------------------------------------
(* The inductive invariant on spans *)

\* What a request has passed in its loops is in the tables it sees; what it
\* was told is stored is committed.
Passed(r) ==
  /\ pc[r] \in Statements \cup {"commit"} =>
       \A i \in 1 .. at[r] - 1 : Batch[r][i] \in View(r).spans
  /\ pc[r] = "commit" => at[r] = Len(Batch[r]) + 1
  /\ pc[r] \in {"reply", "ok"} => Items(r) \subseteq db.spans

\* The lock holder is in its loops and has added spans of its own batch only.
OwnWork ==
  writer \in Requests =>
    /\ pc[writer] \in Statements \cup {"commit"}
    /\ work.spans \subseteq db.spans \cup Items(writer)

SInv == TInv /\ OwnWork /\ \A r \in Requests : Passed(r)

LEMMA ItemsAre ==
  ASSUME NEW r \in Requests
  PROVE  Items(r) = {Batch[r][i] : i \in 1 .. Len(Batch[r])}
BY BatchAssumption DEF Items

LEMMA PassedFrame ==
  ASSUME NEW q \in Requests, Passed(q), pc'[q] = pc[q], at'[q] = at[q],
         View(q).spans \subseteq View(q)'.spans, db.spans \subseteq db'.spans
  PROVE  Passed(q)'
<1>1. Items(q)' = Items(q)
  BY DEF Items
<1>. QED
  BY <1>1 DEF Passed

\* Steps that commit nothing leave what every other request sees.
LEMMA OthersSee ==
  ASSUME TInv, NEW r \in Requests, db' = db,
         \/ writer' = writer /\ work' = work
         \/ CanWrite(r) /\ writer' = r
         \/ \E o \in Finished : End(r, o)
  PROVE  \A q \in Requests \ {r} : View(q)' = View(q)
BY NoneAssumption DEF CanWrite, View, End

\* The commit of r adds its batch and nothing else.
LEMMA CommitStoresBatch ==
  ASSUME SInv, NEW r \in Requests, Commit(r)
  PROVE  db'.spans = db.spans \cup Items(r)
<1>1. \A i \in 1 .. Len(Batch[r]) : Batch[r][i] \in View(r).spans
  <2>1. Len(Batch[r]) \in Nat
    BY BatchAssumption
  <2>2. pc[r] = "commit"
    BY DEF Commit
  <2>3. at[r] = Len(Batch[r]) + 1 /\ \A i \in 1 .. at[r] - 1 : Batch[r][i] \in View(r).spans
    BY <2>2 DEF SInv, Passed
  <2>. QED
    BY <2>1, <2>3
<1>2. Items(r) \subseteq View(r).spans
  BY <1>1, ItemsAre
<1>3. db.spans \subseteq View(r).spans /\ View(r).spans \subseteq db.spans \cup Items(r)
  BY DEF SInv, OwnWork, TInv, Grows, View
<1>. QED
  BY <1>2, <1>3 DEF Commit

LEMMA StepKeepsSpans ==
  ASSUME SInv, NEW r \in Requests, Step(r)
  PROVE  OwnWork' /\ \A q \in Requests : Passed(q)'
<1>. USE DEF SInv
<1>t. TypeOK /\ Len(Batch[r]) \in Nat /\ at[r] \in Nat
  BY BatchAssumption DEF TInv, TypeOK
<1>i. \A q \in Requests : Items(q)' = Items(q)
  BY DEF Items
<1>1. CASE StaysInSpan(r)
  <2>1. PICK label \in Statements : pc' = [pc EXCEPT ![r] = label]
    BY <1>1 DEF StaysInSpan
  <2>2. db' = db /\ at' = at /\ View(r)'.spans = View(r).spans
        /\ ((writer' = writer /\ work' = work) \/ (CanWrite(r) /\ writer' = r))
    BY <1>1 DEF StaysInSpan, Adds
  <2>3. \A q \in Requests \ {r} : Passed(q)'
    BY <2>1, <2>2, <1>t, OthersSee, PassedFrame DEF TypeOK
  <2>4. Passed(r)'
    BY <1>1, <1>t, <2>1, <2>2 DEF StaysInSpan, Passed, Statements, TypeOK
  <2>5. OwnWork'
    <3>1. CASE writer' = writer /\ work' = work
      BY <1>i, <2>1, <2>2, <3>1, <1>t DEF OwnWork, TypeOK
    <3>2. CASE CanWrite(r) /\ writer' = r
      <4>1. View(r).spans \subseteq db.spans \cup Items(r)
        BY DEF View, OwnWork
      <4>2. work'.spans = View(r)'.spans
        BY <3>2 DEF View
      <4>. QED
        BY <1>i, <1>t, <2>1, <2>2, <3>2, <4>1, <4>2 DEF OwnWork, TypeOK
    <3>. QED
      BY <2>2, <3>1, <3>2
  <2>. QED
    BY <2>3, <2>4, <2>5
<1>2. CASE NextSpan(r)
  <2>1. /\ pc[r] \in Statements /\ at' = [at EXCEPT ![r] = at[r] + 1]
        /\ pc' = [pc EXCEPT ![r] = IF at[r] + 1 > Len(Batch[r]) THEN "commit" ELSE "find_span"]
    BY <1>2 DEF NextSpan, Loop
  <2>2. db' = db /\ View(r)'.spans = View(r).spans \cup {Span(r)}
        /\ ((writer' = writer /\ work' = work) \/ (CanWrite(r) /\ writer' = r))
    BY <1>2 DEF NextSpan, Adds
  <2>3. \A q \in Requests \ {r} : Passed(q)'
    BY <2>1, <2>2, <1>t, OthersSee, PassedFrame DEF TypeOK
  <2>n. at[r] \in 1 .. Len(Batch[r])
    BY <1>t, <2>1 DEF TInv, RowsInHand, TypeOK
  <2>4. Passed(r)'
    <3>1. \A i \in 1 .. at[r] - 1 : Batch[r][i] \in View(r).spans
      BY <2>1 DEF Passed
    <3>2. \A i \in 1 .. at'[r] - 1 : Batch[r][i] \in View(r)'.spans
      <4>1. at'[r] - 1 = at[r]
        BY <1>t, <2>1 DEF TypeOK
      <4>2. \A i \in 1 .. at[r] : i = at[r] \/ i \in 1 .. at[r] - 1
        BY <1>t
      <4>. QED
        BY <2>2, <3>1, <4>1, <4>2 DEF Span
    <3>3. /\ pc'[r] \in {"commit", "find_span"} /\ at'[r] = at[r] + 1
          /\ pc'[r] = "commit" => at[r] + 1 > Len(Batch[r])
      BY <1>t, <2>1 DEF TypeOK
    <3>. QED
      BY <1>t, <2>n, <3>2, <3>3 DEF Passed
  <2>5. OwnWork'
    <3>1. pc'[r] \in Statements \cup {"commit"}
          /\ \A q \in Requests \ {r} : pc'[q] = pc[q]
      BY <1>t, <2>1 DEF TypeOK, Statements
    <3>2. CASE writer' = writer /\ work' = work
      BY <1>i, <2>2, <3>1, <3>2 DEF OwnWork
    <3>3. CASE CanWrite(r) /\ writer' = r
      <4>1. View(r).spans \subseteq db.spans \cup Items(r)
        BY DEF View, OwnWork
      <4>2. Span(r) \in Items(r)
        BY <2>n, ItemsAre DEF Span
      <4>3. work'.spans = View(r)'.spans
        BY <3>3 DEF View
      <4>. QED
        BY <1>i, <2>2, <3>1, <3>3, <4>1, <4>2, <4>3 DEF OwnWork
    <3>. QED
      BY <2>2, <3>2, <3>3
  <2>. QED
    BY <2>3, <2>4, <2>5
<1>3. CASE GivesUp(r)
  <2>1. PICK o \in {"rejected", "failed"} : End(r, o)
    BY <1>3 DEF GivesUp
  <2>2. db' = db /\ at' = at /\ pc' = [pc EXCEPT ![r] = o]
        /\ writer' = (IF writer = r THEN NoOne ELSE writer)
        /\ work' = (IF writer = r THEN db ELSE work)
    BY <2>1 DEF End
  <2>3. \A q \in Requests \ {r} : Passed(q)'
    BY <1>t, <2>1, <2>2, OthersSee, PassedFrame DEF TypeOK, Finished
  <2>4. Passed(r)'
    BY <1>t, <2>2 DEF Passed, Statements, TypeOK
  <2>5. OwnWork'
    BY <1>i, <1>t, <2>2, NoneAssumption DEF OwnWork, TypeOK
  <2>. QED
    BY <2>3, <2>4, <2>5
<1>4. CASE Starts(r)
  <2>1. /\ pc[r] = "received" /\ at' = [at EXCEPT ![r] = 1]
        /\ pc' = [pc EXCEPT ![r] = IF 1 > Len(Batch[r]) THEN "commit" ELSE "find_span"]
        /\ db' = db /\ writer' = writer /\ work' = work
    BY <1>4 DEF Starts, Loop, tables
  <2>2. \A q \in Requests \ {r} : Passed(q)'
    BY <1>t, <2>1, OthersSee, PassedFrame DEF TypeOK
  <2>3. Passed(r)'
    <3>1. /\ at'[r] = 1 /\ pc'[r] \in {"commit", "find_span"}
          /\ pc'[r] = "commit" => 1 > Len(Batch[r])
      BY <1>t, <2>1 DEF TypeOK
    <3>. QED
      BY <1>t, <3>1 DEF Passed
  <2>4. OwnWork'
    BY <1>i, <1>t, <2>1 DEF OwnWork, TypeOK, Statements
  <2>. QED
    BY <2>2, <2>3, <2>4
<1>5. CASE Commit(r)
  <2>1. /\ pc' = [pc EXCEPT ![r] = "reply"] /\ at' = at /\ work' = work
        /\ db' = View(r) /\ writer' = (IF writer = r THEN NoOne ELSE writer)
    BY <1>5 DEF Commit, Goto
  <2>2. db'.spans = db.spans \cup Items(r)
    BY <1>5, CommitStoresBatch
  <2>3. \A q \in Requests \ {r} : View(q).spans \subseteq View(q)'.spans
    BY <2>1, <2>2, NoneAssumption DEF View
  <2>4. \A q \in Requests \ {r} : Passed(q)'
    BY <1>t, <2>1, <2>2, <2>3, PassedFrame DEF TypeOK
  <2>5. Passed(r)'
    BY <1>i, <1>t, <2>1, <2>2 DEF Passed, Statements, TypeOK
  <2>6. OwnWork'
    BY <1>i, <1>t, <2>1, <2>2, NoneAssumption DEF OwnWork, TypeOK
  <2>. QED
    BY <2>4, <2>5, <2>6
<1>6. CASE Reply(r)
  <2>1. PICK o \in {"ok", "lost"} : pc' = [pc EXCEPT ![r] = o]
    BY <1>6 DEF Reply, Goto
  <2>2. pc[r] = "reply" /\ UNCHANGED <<db, writer, work, at>>
    BY <1>6 DEF Reply, Goto, tables
  <2>3. \A q \in Requests \ {r} : Passed(q)'
    BY <1>t, <2>1, <2>2, OthersSee, PassedFrame DEF TypeOK
  <2>4. Passed(r)'
    BY <1>i, <1>t, <2>1, <2>2 DEF Passed, Statements, TypeOK
  <2>5. OwnWork'
    BY <1>i, <1>t, <2>1, <2>2 DEF OwnWork, TypeOK, Statements
  <2>. QED
    BY <2>3, <2>4, <2>5
<1>. QED
  BY <1>1, <1>2, <1>3, <1>4, <1>5, <1>6, StepKinds

LEMMA OthersKeepSpans ==
  ASSUME SInv,
         \/ \E r \in Requests : Send(r) \/ LockTimeout(r)
         \/ \E q \in Readers : ReadTrace(q) \/ ReadSpans(q)
         \/ Crash \/ Quiet \/ UNCHANGED vars
  PROVE  OwnWork' /\ \A q \in Requests : Passed(q)'
<1>. USE DEF SInv
<1>t. TypeOK
  BY DEF TInv
<1>i. \A q \in Requests : Items(q)' = Items(q)
  BY DEF Items
<1>1. ASSUME NEW r \in Requests, Send(r)
      PROVE  OwnWork' /\ \A q \in Requests : Passed(q)'
  <2>1. /\ pc[r] \in {"idle", "failed", "lost"} /\ pc' = [pc EXCEPT ![r] = "received"]
        /\ db' = db /\ writer' = writer /\ work' = work /\ at' = at
    BY <1>1 DEF Send, tables
  <2>2. \A q \in Requests \ {r} : Passed(q)'
    BY <1>t, <2>1, OthersSee, PassedFrame DEF TypeOK
  <2>3. Passed(r)'
    BY <1>t, <2>1 DEF Passed, Statements, TypeOK
  <2>4. OwnWork'
    BY <1>i, <1>t, <2>1 DEF OwnWork, TypeOK, Statements
  <2>. QED
    BY <2>2, <2>3, <2>4
<1>2. ASSUME NEW r \in Requests, LockTimeout(r)
      PROVE  OwnWork' /\ \A q \in Requests : Passed(q)'
  <2>1. End(r, "failed")
    BY <1>2 DEF LockTimeout
  <2>2. db' = db /\ at' = at /\ pc' = [pc EXCEPT ![r] = "failed"]
        /\ writer' = (IF writer = r THEN NoOne ELSE writer)
        /\ work' = (IF writer = r THEN db ELSE work)
    BY <2>1 DEF End
  <2>3. \A q \in Requests \ {r} : Passed(q)'
    BY <1>t, <2>1, <2>2, OthersSee, PassedFrame DEF TypeOK, Finished
  <2>4. Passed(r)'
    BY <1>t, <2>2 DEF Passed, Statements, TypeOK
  <2>5. OwnWork'
    BY <1>i, <1>t, <2>2, NoneAssumption DEF OwnWork, TypeOK
  <2>. QED
    BY <2>3, <2>4, <2>5
<1>3. ASSUME UNCHANGED <<tables, ingest>>
      PROVE  OwnWork' /\ \A q \in Requests : Passed(q)'
  <2>1. db' = db /\ writer' = writer /\ work' = work /\ pc' = pc /\ at' = at
    BY <1>3 DEF tables, ingest
  <2>2. \A q \in Requests : View(q)' = View(q)
    BY <2>1 DEF View
  <2>. QED
    BY <1>i, <2>1, <2>2, PassedFrame DEF OwnWork
<1>4. CASE Crash
  <2>1. /\ db' = db /\ work' = db /\ writer' = NoOne /\ at' = at
        /\ pc' = [r \in Requests |-> IF pc[r] \in Running THEN "lost" ELSE pc[r]]
    BY <1>4 DEF Crash
  <2>2. \A q \in Requests : Passed(q)'
    BY <1>i, <1>t, <2>1 DEF Passed, Running, Statements, TypeOK
  <2>. QED
    BY <2>1, <2>2, NoneAssumption DEF OwnWork
<1>. QED
  BY <1>1, <1>2, <1>3, <1>4 DEF ReadTrace, ReadSpans, Quiet, vars, tables, ingest

LEMMA InitSInv == Init => SInv
<1>. SUFFICES ASSUME Init PROVE SInv
  OBVIOUS
<1>1. TInv
  BY InitTInv
<1>2. OwnWork
  BY NoneAssumption DEF Init, OwnWork
<1>3. \A r \in Requests : Passed(r)
  BY DEF Init, Passed, Statements
<1>. QED
  BY <1>1, <1>2, <1>3 DEF SInv

LEMMA NextSInv == SInv /\ [Next]_vars => SInv'
<1>. SUFFICES ASSUME SInv, [Next]_vars PROVE SInv'
  OBVIOUS
<1>1. TInv'
  BY NextTInv DEF SInv
<1>2. OwnWork' /\ \A q \in Requests : Passed(q)'
  BY StepKeepsSpans, OthersKeepSpans DEF Next
<1>. QED
  BY <1>1, <1>2 DEF SInv

LEMMA AlwaysSInv == Spec => []SInv
BY InitSInv, NextSInv, PTL DEF Spec

\* A request that was answered 200 has every span of its batch committed,
\* whatever ran at the same time and however often the server died.
THEOREM AckedAlwaysStored == Spec => []AckedIsStored
<1>1. SInv => AckedIsStored
  BY DEF SInv, Passed, AckedIsStored
<1>. QED
  BY <1>1, AlwaysSInv, PTL

\* Only commits write the file.
LEMMA OnlyCommitsWrite ==
  ASSUME SInv, [Next]_vars
  PROVE  db' = db \/ \E r \in Requests : Commit(r)
<1>1. ASSUME NEW r \in Requests, Step(r) PROVE db' = db \/ Commit(r)
  BY <1>1, StepKinds DEF SInv, StaysInSpan, NextSpan, Adds, GivesUp, End, Starts,
     tables, Reply
<1>2. ASSUME NEW r \in Requests, Send(r) \/ LockTimeout(r) PROVE db' = db
  BY <1>2 DEF Send, LockTimeout, End, tables
<1>3. ASSUME NEW q \in Readers, ReadTrace(q) \/ ReadSpans(q) PROVE db' = db
  BY <1>3 DEF ReadTrace, ReadSpans, tables
<1>. QED
  BY <1>1, <1>2, <1>3 DEF Next, Crash, Quiet, vars

\* The spans table is a union of whole batches in every reachable state.
THEOREM AlwaysWholeBatches == Spec => []WholeBatches
<1>1. Init => WholeBatches
  <2>. SUFFICES ASSUME Init PROVE WholeBatches
    OBVIOUS
  <2>1. db.spans = UNION {Items(r) : r \in {}}
    BY DEF Init, EmptyTables
  <2>. QED
    BY <2>1 DEF WholeBatches
<1>2. SInv /\ WholeBatches /\ [Next]_vars => WholeBatches'
  <2>. SUFFICES ASSUME SInv, WholeBatches, [Next]_vars PROVE WholeBatches'
    OBVIOUS
  <2>i. \A q \in Requests : Items(q)' = Items(q)
    BY DEF Items
  <2>1. PICK R \in SUBSET Requests : db.spans = UNION {Items(r) : r \in R}
    BY DEF WholeBatches
  <2>2. CASE db' = db
    <3>1. db'.spans = UNION {Items(r)' : r \in R}
      BY <2>i, <2>1, <2>2
    <3>. QED
      BY <3>1 DEF WholeBatches
  <2>3. ASSUME NEW r \in Requests, Commit(r) PROVE WholeBatches'
    <3>1. db'.spans = db.spans \cup Items(r)
      BY <2>3, CommitStoresBatch
    <3>2. db'.spans = UNION {Items(q)' : q \in R \cup {r}}
      BY <2>i, <2>1, <3>1
    <3>. QED
      BY <3>2 DEF WholeBatches
  <2>. QED
    BY <2>2, <2>3, OnlyCommitsWrite
<1>. QED
  BY <1>1, <1>2, AlwaysSInv, PTL DEF Spec

-----------------------------------------------------------------------------
(* Refinement of SpanStore *)

Abstract(label) == IF label \in Running \ {"reply"} THEN "busy"
                   ELSE IF label = "reply" THEN "stored" ELSE label

LEMMA StatusOf ==
  ASSUME NEW r \in Requests
  PROVE  AbstractStatus[r] = Abstract(pc[r])
BY DEF AbstractStatus, Abstract

\* When r alone moves, its abstract status alone moves.
LEMMA StatusMoves ==
  ASSUME TypeOK, NEW r \in Requests, NEW label, pc' = [pc EXCEPT ![r] = label]
  PROVE  AbstractStatus' = [AbstractStatus EXCEPT ![r] = Abstract(label)]
BY DEF TypeOK, AbstractStatus, Abstract

LEMMA StatusStays ==
  ASSUME TypeOK, NEW r \in Requests, NEW label, pc' = [pc EXCEPT ![r] = label],
         Abstract(label) = Abstract(pc[r])
  PROVE  AbstractStatus' = AbstractStatus
BY DEF TypeOK, AbstractStatus, Abstract

LEMMA StepRefines ==
  ASSUME SInv, [Next]_vars
  PROVE  [Store!Next]_<<db.spans, AbstractStatus>>
<1>t. TypeOK
  BY DEF SInv, TInv
<1>1. ASSUME NEW r \in Requests, Step(r)
      PROVE  [Store!Next]_<<db.spans, AbstractStatus>>
  <2>1. CASE StaysInSpan(r)
    <3>1. PICK label \in Statements : pc' = [pc EXCEPT ![r] = label]
      BY <2>1 DEF StaysInSpan
    <3>2. Abstract(label) = Abstract(pc[r])
      BY <2>1 DEF StaysInSpan, Abstract, Statements, Running
    <3>3. AbstractStatus' = AbstractStatus
      BY <1>t, <3>1, <3>2, StatusStays
    <3>. QED
      BY <2>1, <3>3 DEF StaysInSpan, Adds
  <2>2. CASE NextSpan(r) \/ Starts(r)
    <3>1. PICK label \in {"commit", "find_span"} : pc' = [pc EXCEPT ![r] = label]
      BY <2>2 DEF NextSpan, Starts, Loop
    <3>2. Abstract(label) = Abstract(pc[r])
      BY <2>2 DEF NextSpan, Starts, Abstract, Statements, Running
    <3>3. AbstractStatus' = AbstractStatus
      BY <1>t, <3>1, <3>2, StatusStays
    <3>4. db' = db
      BY <2>2 DEF NextSpan, Starts, Adds, tables
    <3>. QED
      BY <3>3, <3>4
  <2>3. CASE GivesUp(r)
    <3>1. PICK o \in {"rejected", "failed"} : pc' = [pc EXCEPT ![r] = o] /\ db' = db
      BY <2>3 DEF GivesUp, End
    <3>2. Abstract(pc[r]) = "busy" /\ Abstract(o) = o
      BY <2>3 DEF GivesUp, Abstract, Statements, Running
    <3>3. AbstractStatus[r] = "busy" /\ AbstractStatus' = [AbstractStatus EXCEPT ![r] = o]
      BY <1>t, <3>1, <3>2, StatusMoves, StatusOf, ZenonT(30)
    <3>4. Store!Decline(r)
      BY <3>1, <3>3 DEF Store!Decline, Store!Become
    <3>. QED
      BY <3>4 DEF Store!Next
  <2>4. CASE Commit(r)
    <3>1. pc[r] = "commit" /\ pc' = [pc EXCEPT ![r] = "reply"]
      BY <2>4 DEF Commit, Goto
    <3>2. Abstract(pc[r]) = "busy" /\ Abstract("reply") = "stored"
      BY <3>1 DEF Abstract, Running
    <3>3. AbstractStatus[r] = "busy" /\ AbstractStatus' = [AbstractStatus EXCEPT ![r] = "stored"]
      <4>1. AbstractStatus[r] = Abstract(pc[r])
        BY StatusOf
      <4>2. AbstractStatus' = [AbstractStatus EXCEPT ![r] = Abstract("reply")]
        BY <1>t, <3>1, StatusMoves
      <4>. QED
        BY <3>2, <4>1, <4>2
    <3>4. db'.spans = db.spans \cup [q \in Requests |-> Items(q)][r]
      BY <2>4, CommitStoresBatch
    <3>5. Store!Accept(r)
      BY <3>3, <3>4 DEF Store!Accept, Store!Become
    <3>. QED
      BY <3>5 DEF Store!Next
  <2>5. CASE Reply(r)
    <3>1. PICK o \in {"ok", "lost"} : pc' = [pc EXCEPT ![r] = o]
      BY <2>5 DEF Reply, Goto
    <3>2. pc[r] = "reply" /\ db' = db
      BY <2>5 DEF Reply, tables
    <3>3. Abstract(pc[r]) = "stored" /\ Abstract(o) = o
      BY <3>2 DEF Abstract, Running, Statements
    <3>4. AbstractStatus[r] = "stored" /\ AbstractStatus' = [AbstractStatus EXCEPT ![r] = o]
      BY <1>t, <3>1, <3>3, StatusMoves, StatusOf, ZenonT(30)
    <3>5. Store!Answer(r)
      BY <3>2, <3>4 DEF Store!Answer, Store!Become
    <3>. QED
      BY <3>5 DEF Store!Next
  <2>. QED
    BY <1>1, <2>1, <2>2, <2>3, <2>4, <2>5, StepKinds DEF SInv
<1>2. ASSUME NEW r \in Requests, Send(r)
      PROVE  [Store!Next]_<<db.spans, AbstractStatus>>
  <2>1. /\ pc[r] \in {"idle", "failed", "lost"} /\ db' = db
        /\ pc' = [pc EXCEPT ![r] = "received"]
    BY <1>2 DEF Send, tables
  <2>2. Abstract(pc[r]) \in {"idle", "failed", "lost"} /\ Abstract("received") = "busy"
    BY <2>1 DEF Abstract, Running, Statements
  <2>3. /\ AbstractStatus[r] \in {"idle", "failed", "lost"}
        /\ AbstractStatus' = [AbstractStatus EXCEPT ![r] = "busy"]
    <3>1. AbstractStatus[r] = Abstract(pc[r])
      BY StatusOf
    <3>2. AbstractStatus' = [AbstractStatus EXCEPT ![r] = Abstract("received")]
      BY <1>t, <2>1, StatusMoves
    <3>. QED
      BY <2>2, <3>1, <3>2
  <2>4. Store!Receive(r)
    BY <2>1, <2>3 DEF Store!Receive, Store!Become
  <2>. QED
    BY <2>4 DEF Store!Next
<1>3. ASSUME NEW r \in Requests, LockTimeout(r)
      PROVE  [Store!Next]_<<db.spans, AbstractStatus>>
  <2>1. pc' = [pc EXCEPT ![r] = "failed"] /\ db' = db /\ pc[r] \in Statements
    BY <1>3 DEF LockTimeout, End, Statements
  <2>2. Abstract(pc[r]) = "busy" /\ Abstract("failed") = "failed"
    BY <2>1 DEF Abstract, Statements, Running
  <2>3. AbstractStatus[r] = "busy" /\ AbstractStatus' = [AbstractStatus EXCEPT ![r] = "failed"]
    BY <1>t, <2>1, <2>2, StatusMoves, StatusOf, ZenonT(30)
  <2>4. Store!Decline(r)
    BY <2>1, <2>3 DEF Store!Decline, Store!Become
  <2>. QED
    BY <2>4 DEF Store!Next
<1>4. CASE Crash
  <2>1. /\ pc' = [r \in Requests |-> IF pc[r] \in Running THEN "lost" ELSE pc[r]]
        /\ db' = db
    BY <1>4 DEF Crash
  <2>2. \A r \in Requests :
          Abstract(pc'[r]) = IF Abstract(pc[r]) \in {"busy", "stored"} THEN "lost"
                             ELSE Abstract(pc[r])
    BY <1>t, <2>1 DEF TypeOK, Abstract, PCs, Running, Finished, Statements
  <2>3. AbstractStatus' = [r \in Requests |->
          IF AbstractStatus[r] \in {"busy", "stored"} THEN "lost" ELSE AbstractStatus[r]]
    BY <2>2 DEF AbstractStatus, Abstract
  <2>4. Store!Crash
    BY <2>1, <2>3 DEF Store!Crash
  <2>. QED
    BY <2>4 DEF Store!Next
<1>5. ASSUME db' = db, pc' = pc
      PROVE  [Store!Next]_<<db.spans, AbstractStatus>>
  BY <1>5 DEF AbstractStatus
<1>. QED
  BY <1>1, <1>2, <1>3, <1>4, <1>5
  DEF Next, ReadTrace, ReadSpans, Quiet, vars, tables, ingest

\* The ingest handlers implement SpanStore: seen from its clients, the server
\* stores a batch in one step or declines it without a trace.
THEOREM IngestImplementsStore == Spec => StoreSpec
<1>1. Init => Store!Init
  <2>. SUFFICES ASSUME Init PROVE Store!Init
    OBVIOUS
  <2>1. db.spans = {}
    BY DEF Init, EmptyTables
  <2>2. AbstractStatus = [r \in Requests |-> "idle"]
    BY DEF Init, AbstractStatus, Running, Statements
  <2>. QED
    BY <2>1, <2>2 DEF Store!Init
<1>2. SInv /\ [Next]_vars => [Store!Next]_<<db.spans, AbstractStatus>>
  BY StepRefines
<1>. QED
  BY <1>1, <1>2, AlwaysSInv, PTL DEF Spec, StoreSpec, Store!Spec

-----------------------------------------------------------------------------
(* What the tables hold beside spans *)

\* All that d holds is still in e, and each trace in its project.
Keeps(d, e) ==
  /\ d.projects \subseteq e.projects /\ d.spans \subseteq e.spans
  /\ \A k \in SessionKeys : d.session[k] # NoRow => e.session[k] # NoRow
  /\ \A t \in Traces : d.trace[t] # NoRow =>
       /\ e.trace[t] # NoRow /\ e.trace[t].project = d.trace[t].project
       /\ d.trace[t].session # NoSession => e.trace[t].session # NoSession

\* Traces of d refer to rows of d.
Refers(d) ==
  \A t \in Traces : LET row == d.trace[t] IN row # NoRow =>
    /\ row.project \in d.projects
    /\ row.session # NoSession => d.session[<<row.project, row.session>>] # NoRow

\* The bounds of the row are times of spans of S in trace t.
Real(S, t, row) ==
  /\ \E s \in S : s.trace = t /\ s.start = row.start
  /\ \E s \in S : s.trace = t /\ s.end = row.end

AllReal(d, S) == \A t \in Traces : d.trace[t] # NoRow => Real(S, t, d.trace[t])

\* The spans whose times r may have written: those it sees, and the one in hand.
Seen(r) == View(r).spans \cup (IF pc[r] \in WithTrace THEN {Span(r)} ELSE {})

\* The rows that r has in hand have real bounds and are in the project that the trace
\* is in; the session of the trace is changed only to that of the span.
InHandFits(r) ==
  /\ pc[r] = "new_trace" => Span(r).project \in View(r).projects
  /\ pc[r] \in WithTrace =>
       /\ Real(Seen(r), Span(r).trace, mem[r].base)
       /\ Real(Seen(r), Span(r).trace, mem[r].row)
       /\ mem[r].row.project = View(r).trace[Span(r).trace].project
       /\ mem[r].row.session # mem[r].base.session =>
            /\ pc[r] = "add_span" /\ Span(r).session # NoSession
            /\ mem[r].row.session = Span(r).session

RowsFit(r) == AllReal(View(r), Seen(r)) /\ InHandFits(r)

RInv ==
  /\ TInv /\ Keeps(db, work) /\ Refers(db) /\ Refers(work) /\ AllReal(db, db.spans)
  /\ \A r \in Requests : RowsFit(r)

LEMMA RealGrows ==
  ASSUME NEW S, NEW T, S \subseteq T, NEW t, NEW row, Real(S, t, row)
  PROVE  Real(T, t, row)
BY DEF Real

LEMMA WidenReal ==
  ASSUME NEW S, NEW row \in TraceRow, NEW s \in S, Real(S, s.trace, row)
  PROVE  Real(S, s.trace, Widen(row, s))
<1>1. /\ Widen(row, s).start \in {row.start, s.start}
      /\ Widen(row, s).end \in {row.end, s.end}
  BY DEF Widen, TraceRow
<1> QED
  BY <1>1 DEF Real

\* What WriteTrace makes of a row.
LEMMA WriteTraceIs ==
  ASSUME NEW row \in TraceRow, NEW base, NEW new
  PROVE  LET w == WriteTrace(row, base, new) IN
         /\ w.project = row.project
         /\ w.session = IF new.session # base.session THEN new.session ELSE row.session
         /\ w.start \in {row.start, new.start} /\ w.end \in {row.end, new.end}
BY DEF WriteTrace, WriteBounds, TraceRow

LEMMA WriteReal ==
  ASSUME NEW S, NEW t, NEW row \in TraceRow, NEW base, NEW new,
         Real(S, t, row), Real(S, t, new)
  PROVE  Real(S, t, WriteTrace(row, base, new))
BY WriteTraceIs DEF Real

LEMMA KeepsItself ==
  ASSUME NEW d
  PROVE  Keeps(d, d)
BY DEF Keeps

LEMMA KeepsOn ==
  ASSUME NEW d, NEW e, NEW f, Keeps(d, e), Keeps(e, f)
  PROVE  Keeps(d, f)
BY DEF Keeps

-----------------------------------------------------------------------------
(* Requests that do not move *)

LEMMA RowsFrame ==
  ASSUME TInv, NEW q \in Requests, RowsFit(q),
         pc'[q] = pc[q], mem'[q] = mem[q], at'[q] = at[q],
         Keeps(View(q), View(q)'),
         \/ View(q)' = View(q)
         \/ AllReal(View(q)', View(q)'.spans)
  PROVE  RowsFit(q)'
<1>1. Span(q)' = Span(q)
  BY DEF Span
<1>2. Seen(q) \subseteq Seen(q)' /\ View(q)'.spans \subseteq Seen(q)'
  BY <1>1 DEF Seen, Keeps
<1>3. AllReal(View(q)', Seen(q)')
  <2>1. CASE View(q)' = View(q)
    BY <1>2, <2>1, RealGrows DEF RowsFit, AllReal
  <2>2. CASE AllReal(View(q)', View(q)'.spans)
    BY <1>2, <2>2, RealGrows DEF AllReal
  <2> QED
    BY <2>1, <2>2
<1>4. InHandFits(q)'
  <2>1. pc[q] \in WithTrace =>
          /\ Span(q).trace \in Traces /\ View(q).trace[Span(q).trace] # NoRow
    BY SpanType DEF TInv, RowsInHand, WithTrace, Statements
  <2>2. pc[q] \in WithTrace =>
          /\ Real(Seen(q)', Span(q).trace, mem[q].base)
          /\ Real(Seen(q)', Span(q).trace, mem[q].row)
    BY <1>2, RealGrows DEF RowsFit, InHandFits
  <2>3. pc[q] \in WithTrace =>
          View(q)'.trace[Span(q).trace].project = View(q).trace[Span(q).trace].project
    BY <2>1 DEF Keeps
  <2>4. View(q).projects \subseteq View(q)'.projects
    BY DEF Keeps
  <2> QED
    BY <1>1, <2>2, <2>3, <2>4 DEF RowsFit, InHandFits
<1>5. AllReal(View(q), Seen(q))' /\ InHandFits(q)'
  BY <1>3, <1>4 DEF AllReal
<1> QED
  BY <1>5 DEF RowsFit

\* A step of r that leaves the tables alone.
LEMMA LocalRows ==
  ASSUME RInv, NEW r \in Requests, UNCHANGED tables,
         \A q \in Requests \ {r} :
           pc'[q] = pc[q] /\ mem'[q] = mem[q] /\ at'[q] = at[q]
  PROVE  /\ (Keeps(db, work) /\ Refers(db) /\ Refers(work) /\ AllReal(db, db.spans))'
         /\ View(r)' = View(r)
         /\ \A q \in Requests \ {r} : RowsFit(q)'
<1>1. (Keeps(db, work) /\ Refers(db) /\ Refers(work) /\ AllReal(db, db.spans))'
  BY DEF RInv, tables
<1>2. \A q \in Requests : View(q)' = View(q)
  BY DEF View, tables
<1>3. \A q \in Requests : Keeps(View(q), View(q)')
  BY <1>2, KeepsItself
<1> QED
  BY <1>1, <1>2, <1>3, RowsFrame DEF RInv

\* A statement of r that writes d.
LEMMA WriteRows ==
  ASSUME RInv, NEW r \in Requests, NEW d, Hold(r, d), Keeps(View(r), d), Refers(d),
         \A q \in Requests \ {r} :
           pc'[q] = pc[q] /\ mem'[q] = mem[q] /\ at'[q] = at[q]
  PROVE  /\ (Keeps(db, work) /\ Refers(db) /\ Refers(work) /\ AllReal(db, db.spans))'
         /\ View(r)' = d
         /\ \A q \in Requests \ {r} : RowsFit(q)'
<1>1. View(r)' = d /\ \A q \in Requests \ {r} : View(q)' = View(q)
  BY HoldFrame DEF RInv, TInv
<1>2. db' = db /\ work' = d
  BY DEF Hold
<1>3. Keeps(db, View(r))
  BY KeepsItself DEF RInv, View
<1>4. Keeps(db, d)
  BY <1>3, KeepsOn
<1>5. (Keeps(db, work) /\ Refers(db) /\ Refers(work) /\ AllReal(db, db.spans))'
  BY <1>2, <1>4 DEF RInv
<1>6. \A q \in Requests \ {r} : Keeps(View(q), View(q)')
  BY <1>1, KeepsItself
<1> QED
  BY <1>1, <1>5, <1>6, RowsFrame DEF RInv

\* The handler of r ends.
LEMMA EndRows ==
  ASSUME RInv, NEW r \in Requests, NEW o \in Finished, End(r, o)
  PROVE  /\ (Keeps(db, work) /\ Refers(db) /\ Refers(work) /\ AllReal(db, db.spans))'
         /\ \A q \in Requests : RowsFit(q)'
<1>t. TypeOK
  BY DEF RInv, TInv
<1>1. /\ db' = db /\ at' = at /\ pc' = [pc EXCEPT ![r] = o]
      /\ mem' = [mem EXCEPT ![r] = Clean]
      /\ writer' = (IF writer = r THEN NoOne ELSE writer)
      /\ work' = (IF writer = r THEN db ELSE work)
  BY DEF End
<1>2. Keeps(db, db) /\ Keeps(db, work) /\ Refers(db) /\ Refers(work) /\ AllReal(db, db.spans)
  BY KeepsItself DEF RInv
<1>3. (Keeps(db, work) /\ Refers(db) /\ Refers(work) /\ AllReal(db, db.spans))'
  BY <1>1, <1>2
<1>4. ASSUME NEW q \in Requests \ {r} PROVE RowsFit(q)'
  <2>1. View(q)' = View(q)
    BY <1>t, EndFrame
  <2>2. pc'[q] = pc[q] /\ mem'[q] = mem[q] /\ at'[q] = at[q]
    BY <1>t, <1>1 DEF TypeOK
  <2> QED
    BY <2>1, <2>2, KeepsItself, RowsFrame DEF RInv
<1>5. RowsFit(r)'
  <2>1. View(r)' = db /\ pc'[r] = o
    BY <1>t, <1>1, NoneAssumption DEF View, TypeOK
  <2>2. pc'[r] \notin WithTrace /\ pc'[r] # "new_trace"
    BY <2>1 DEF Finished, WithTrace
  <2>3. Seen(r)' = db.spans
    BY <2>1, <2>2 DEF Seen
  <2> QED
    BY <1>2, <2>1, <2>2, <2>3 DEF RowsFit, AllReal, InHandFits
<1> QED
  BY <1>3, <1>4, <1>5

-----------------------------------------------------------------------------
(* What the request that moves has in hand *)

\* A request that is before or between its spans has nothing in hand.
LEMMA NothingInHand ==
  ASSUME NEW r \in Requests, pc'[r] \notin WithTrace, pc'[r] # "new_trace",
         AllReal(View(r)', View(r)'.spans)
  PROVE  RowsFit(r)'
<1>1. Seen(r)' = View(r)'.spans
  BY DEF Seen
<1>2. (AllReal(View(r), Seen(r)) /\ InHandFits(r))'
  BY <1>1 DEF AllReal, InHandFits
<1> QED
  BY <1>2 DEF RowsFit

LEMMA LoopRows ==
  ASSUME TypeOK, NEW r \in Requests, NEW k, Loop(r, k),
         AllReal(View(r)', View(r)'.spans)
  PROVE  RowsFit(r)'
<1>1. pc'[r] \in {"commit", "find_span"}
  BY DEF TypeOK, Loop
<1> QED
  BY <1>1, NothingInHand DEF WithTrace

LEMMA HaveTraceRows ==
  ASSUME TypeOK, NEW r \in Requests, at[r] <= Len(Batch[r]), NEW row \in TraceRow,
         HaveTrace(r, row), AllReal(View(r)', View(r)'.spans \cup {Span(r)}),
         Real(View(r)'.spans \cup {Span(r)}, Span(r).trace, row),
         View(r)'.trace[Span(r).trace].project = row.project
  PROVE  RowsFit(r)'
<1>1. /\ pc'[r] \in {"add_span", "find_session"} /\ at' = at
      /\ mem'[r] = [base |-> row, row |-> Widen(row, Span(r)),
                    sbase |-> NoRow, srow |-> NoRow]
  BY DEF TypeOK, HaveTrace, Goto
<1>2. Span(r)' = Span(r)
  BY <1>1 DEF Span
<1>3. Seen(r)' = View(r)'.spans \cup {Span(r)}
  BY <1>1, <1>2 DEF Seen, WithTrace
<1>4. /\ Widen(row, Span(r)).project = row.project
      /\ Widen(row, Span(r)).session = row.session
  BY SpanType, WidenTrace
<1>5. Real(View(r)'.spans \cup {Span(r)}, Span(r).trace, Widen(row, Span(r)))
  BY WidenReal
<1>6. /\ mem'[r].base = row /\ mem'[r].row.project = row.project
      /\ mem'[r].row.session = mem'[r].base.session
      /\ mem'[r].row = Widen(row, Span(r))
  BY <1>1, <1>4
<1>7. InHandFits(r)'
  BY <1>1, <1>2, <1>3, <1>5, <1>6 DEF InHandFits
<1>8. AllReal(View(r), Seen(r))'
  BY <1>3 DEF AllReal
<1> QED
  BY <1>7, <1>8 DEF RowsFit

LEMMA HaveSessionRows ==
  ASSUME TypeOK, NEW r \in Requests, mem[r].row \in TraceRow,
         Span(r).session # NoSession, NEW row, HaveSession(r, row),
         AllReal(View(r)', View(r)'.spans \cup {Span(r)}),
         Real(View(r)'.spans \cup {Span(r)}, Span(r).trace, mem[r].row),
         View(r)'.trace[Span(r).trace].project = mem[r].row.project
  PROVE  RowsFit(r)'
<1> DEFINE new == [mem[r].row EXCEPT !.session = Span(r).session]
<1>1. /\ pc'[r] = "add_span" /\ at' = at
      /\ mem'[r] = [base |-> mem[r].row, row |-> new,
                    sbase |-> row, srow |-> Widen(row, mem[r].row)]
  BY DEF TypeOK, HaveSession, Goto
<1>2. Span(r)' = Span(r)
  BY <1>1 DEF Span
<1>3. Seen(r)' = View(r)'.spans \cup {Span(r)}
  BY <1>1, <1>2 DEF Seen, WithTrace
<1>4. /\ new.start = mem[r].row.start /\ new.end = mem[r].row.end
      /\ new.project = mem[r].row.project /\ new.session = Span(r).session
  BY DEF TraceRow
<1>5. mem'[r].base = mem[r].row /\ mem'[r].row = new
  BY <1>1
<1> HIDE DEF new
<1>6. Real(View(r)'.spans \cup {Span(r)}, Span(r).trace, new)
  BY <1>4 DEF Real
<1>7. InHandFits(r)'
  BY <1>1, <1>2, <1>3, <1>4, <1>5, <1>6 DEF InHandFits
<1>8. AllReal(View(r), Seen(r))'
  BY <1>3 DEF AllReal
<1> QED
  BY <1>7, <1>8 DEF RowsFit

\* Writing the trace row of the span in hand.
LEMMA TraceWritten ==
  ASSUME RInv, NEW r \in Requests, pc[r] \in {"find_session", "add_span"},
         NEW d, NEW S, Seen(r) \subseteq S,
         d.trace = [View(r).trace EXCEPT ![Span(r).trace] =
                      WriteTrace(View(r).trace[Span(r).trace], mem[r].base, mem[r].row)],
         d.projects = View(r).projects, View(r).spans \subseteq d.spans,
         \A k \in SessionKeys : View(r).session[k] # NoRow => d.session[k] # NoRow
  PROVE  /\ Keeps(View(r), d) /\ Refers(d) /\ AllReal(d, S)
         /\ d.trace[Span(r).trace].project = mem[r].row.project
<1> DEFINE t == Span(r).trace
           old == View(r).trace[t]
           w == WriteTrace(old, mem[r].base, mem[r].row)
<1>1. /\ t \in Traces /\ old \in TraceRow /\ mem[r].row \in TraceRow /\ mem[r].base \in TraceRow
      /\ View(r) \in Tables /\ old # NoRow
      /\ Span(r).session # NoSession => Span(r).session \in SessionIds
  BY SpanType, ViewType DEF RInv, TInv, RowsInHand, Statements, WithTrace, Tables
<1>2. /\ Real(Seen(r), t, mem[r].row) /\ Real(Seen(r), t, old)
      /\ mem[r].row.project = old.project
      /\ mem[r].row.session # mem[r].base.session =>
           /\ pc[r] = "add_span" /\ Span(r).session # NoSession
           /\ mem[r].row.session = Span(r).session
  BY <1>1 DEF RInv, RowsFit, InHandFits, AllReal, WithTrace
<1>3. /\ w.project = old.project
      /\ w.session = IF mem[r].row.session # mem[r].base.session
                     THEN mem[r].row.session ELSE old.session
  BY <1>1, WriteTraceIs
<1>4. w \in TraceRow /\ w # NoRow
  BY <1>1, WriteTraceType, NoneAssumption
<1>5. Real(S, t, w)
  <2>1. Real(S, t, mem[r].row) /\ Real(S, t, old)
    BY <1>2, RealGrows
  <2> QED
    BY <1>1, <2>1, WriteReal
<1>6. d.trace[t] = w /\ \A u \in Traces \ {t} : d.trace[u] = View(r).trace[u]
  BY <1>1 DEF Tables
<1>7. Refers(View(r))
  BY DEF RInv, View
<1>8. w.session # NoSession => d.session[<<w.project, w.session>>] # NoRow
  <2>1. CASE w.session = old.session
    <3>1. w.session # NoSession =>
            /\ View(r).session[<<w.project, w.session>>] # NoRow
            /\ <<w.project, w.session>> \in SessionKeys
      BY <1>1, <1>3, <1>4, <1>7, <2>1 DEF Refers, SessionKeys, TraceRow
    <3> QED
      BY <3>1
  <2>2. CASE w.session # old.session
    <3>1. pc[r] = "add_span" /\ Span(r).session # NoSession /\ w.session = Span(r).session
      BY <1>2, <1>3, <2>2
    <3>2. View(r).session[SessionKey(r)] # NoRow
      BY <3>1 DEF RInv, TInv, RowsInHand
    <3>3. SessionKey(r) = <<w.project, w.session>> /\ SessionKey(r) \in SessionKeys
      BY <1>1, <1>2, <1>3, <1>4, <3>1 DEF SessionKey, SessionKeys, TraceRow
    <3> QED
      BY <3>2, <3>3
  <2> QED
    BY <2>1, <2>2
<1>9. old.session # NoSession => w.session # NoSession
  BY <1>2, <1>3
<1> HIDE DEF w, old, t
<1>10. Keeps(View(r), d)
  BY <1>3, <1>4, <1>6, <1>9 DEF Keeps, old
<1>11. Refers(d)
  <2>1. ASSUME NEW u \in Traces \ {t}, d.trace[u] # NoRow
        PROVE  /\ d.trace[u].project \in d.projects
               /\ d.trace[u].session # NoSession =>
                    d.session[<<d.trace[u].project, d.trace[u].session>>] # NoRow
    <3>1. View(r).trace[u] \in TraceRow
      BY <1>1, <1>6, <2>1 DEF Tables
    <3>2. d.trace[u].session # NoSession =>
            <<d.trace[u].project, d.trace[u].session>> \in SessionKeys
      BY <1>6, <3>1 DEF TraceRow, SessionKeys
    <3> QED
      BY <1>6, <1>7, <2>1, <3>2 DEF Refers
  <2>2. w.project \in d.projects
    BY <1>1, <1>3, <1>7 DEF Refers, old
  <2> QED
    BY <1>6, <1>8, <2>1, <2>2 DEF Refers
<1>12. AllReal(d, S)
  <2>1. AllReal(View(r), Seen(r))
    BY DEF RInv, RowsFit
  <2>2. \A u \in Traces \ {t} : d.trace[u] # NoRow => Real(S, u, d.trace[u])
    BY <1>6, <2>1, RealGrows DEF AllReal
  <2> QED
    BY <1>5, <1>6, <2>2 DEF AllReal
<1> QED
  BY <1>2, <1>3, <1>6, <1>10, <1>11, <1>12 DEF t

-----------------------------------------------------------------------------
(* Every step keeps RInv *)

TablesFit == Keeps(db, work) /\ Refers(db) /\ Refers(work) /\ AllReal(db, db.spans)

LEMMA StepRows ==
  ASSUME RInv, NEW r \in Requests, Step(r)
  PROVE  TablesFit' /\ \A q \in Requests : RowsFit(q)'
<1> DEFINE s == Span(r)
<1> USE DEF TablesFit
<1>t. TypeOK /\ TInv
  BY DEF RInv, TInv
<1>a. pc[r] \in Statements =>
        /\ at[r] <= Len(Batch[r]) /\ s \in Spans /\ s.trace \in Traces /\ s.project \in Projects
        /\ s.session \in SessionIds \cup {NoSession} /\ s.start \in Nat /\ s.end \in Nat
  BY <1>t, SpanType DEF TInv, RowsInHand
<1>b. View(r) \in Tables
  BY <1>t, ViewType
<1>c. /\ Refers(View(r)) /\ AllReal(View(r), Seen(r)) /\ InHandFits(r)
      /\ Keeps(View(r), View(r))
  BY KeepsItself DEF RInv, RowsFit, View
<1>d. pc[r] \notin WithTrace => Seen(r) = View(r).spans
  BY DEF Seen
<1>e. pc[r] \in WithTrace => Seen(r) = View(r).spans \cup {s}
  BY DEF Seen
<1>f. ASSUME NEW o \in Finished, End(r, o) PROVE TablesFit' /\ \A q \in Requests : RowsFit(q)'
  BY <1>f, EndRows
<1>1. CASE Refuse(r)
  BY <1>1, <1>f DEF Refuse, Finished
<1>2. CASE Parse(r)
  <2>1. Loop(r, 1) /\ UNCHANGED tables /\ pc[r] = "received"
    BY <1>2 DEF Parse
  <2>2. \A q \in Requests \ {r} : pc'[q] = pc[q] /\ mem'[q] = mem[q] /\ at'[q] = at[q]
    BY <1>t, <2>1 DEF TypeOK, Loop
  <2>3. TablesFit' /\ View(r)' = View(r) /\ \A q \in Requests \ {r} : RowsFit(q)'
    BY <2>1, <2>2, LocalRows
  <2>4. AllReal(View(r)', View(r)'.spans)
    BY <1>c, <1>d, <2>1, <2>3 DEF WithTrace
  <2> QED
    BY <1>t, <2>1, <2>3, <2>4, LoopRows
<1>3. CASE FindSpan(r)
  <2>0. pc[r] = "find_span"
    BY <1>3 DEF FindSpan
  <2>1. CASE s \in Undecodable
    BY <1>3, <1>f, <2>1 DEF FindSpan, Finished
  <2>2. CASE s \notin Undecodable
    <3>1. UNCHANGED tables
      BY <1>3, <2>2 DEF FindSpan
    <3>2. Loop(r, at[r] + 1) \/ (Goto(r, "find_trace") /\ UNCHANGED mem)
      BY <1>3, <2>2 DEF FindSpan
    <3>3. \A q \in Requests \ {r} : pc'[q] = pc[q] /\ mem'[q] = mem[q] /\ at'[q] = at[q]
      BY <1>t, <3>2 DEF TypeOK, Loop, Goto
    <3>4. TablesFit' /\ View(r)' = View(r) /\ \A q \in Requests \ {r} : RowsFit(q)'
      BY <3>1, <3>3, LocalRows
    <3>5. AllReal(View(r)', View(r)'.spans)
      BY <1>c, <1>d, <2>0, <3>4 DEF WithTrace
    <3>6. pc'[r] \notin WithTrace /\ pc'[r] # "new_trace"
      BY <1>t, <3>2 DEF TypeOK, Loop, Goto, WithTrace
    <3> QED
      BY <3>4, <3>5, <3>6, NothingInHand
  <2> QED
    BY <2>1, <2>2
<1>4. CASE FindTrace(r)
  <2>0. pc[r] = "find_trace" /\ UNCHANGED tables /\ pc[r] \in Statements
    BY <1>4 DEF FindTrace, Statements
  <2>1. \A q \in Requests \ {r} : pc'[q] = pc[q] /\ mem'[q] = mem[q] /\ at'[q] = at[q]
    BY <1>t, <1>4 DEF TypeOK, FindTrace, HaveTrace, Goto
  <2>2. TablesFit' /\ View(r)' = View(r) /\ \A q \in Requests \ {r} : RowsFit(q)'
    BY <2>0, <2>1, LocalRows
  <2>3. AllReal(View(r), View(r).spans)
    BY <1>c, <1>d, <2>0 DEF WithTrace
  <2>4. CASE View(r).trace[s.trace] # NoRow
    <3>1. HaveTrace(r, View(r).trace[s.trace]) /\ View(r).trace[s.trace] \in TraceRow
      BY <1>4, <1>a, <1>b, <2>0, <2>4 DEF FindTrace, Tables
    <3>2. Real(View(r).spans, s.trace, View(r).trace[s.trace])
      BY <1>a, <2>0, <2>3, <2>4 DEF AllReal
    <3>3. /\ AllReal(View(r), View(r).spans \cup {s})
          /\ Real(View(r).spans \cup {s}, s.trace, View(r).trace[s.trace])
      BY <2>3, <3>2, RealGrows DEF AllReal
    <3>4. RowsFit(r)'
      BY <1>a, <1>t, <2>0, <2>2, <3>1, <3>3, HaveTraceRows
    <3> QED
      BY <2>2, <3>4
  <2>5. CASE View(r).trace[s.trace] = NoRow
    <3>1. pc'[r] = "find_project"
      BY <1>4, <1>t, <2>5 DEF FindTrace, Goto, TypeOK
    <3> QED
      BY <2>2, <2>3, <3>1, NothingInHand DEF WithTrace
  <2> QED
    BY <2>4, <2>5
<1>5. CASE FindProject(r)
  <2>0. pc[r] = "find_project" /\ UNCHANGED <<tables, at, mem>>
        /\ pc'[r] \in {"new_trace", "new_project"}
        /\ (pc'[r] = "new_trace" => s.project \in View(r).projects)
    BY <1>5, <1>t DEF FindProject, Goto, TypeOK
  <2>1. \A q \in Requests \ {r} : pc'[q] = pc[q] /\ mem'[q] = mem[q] /\ at'[q] = at[q]
    BY <1>5, <1>t DEF TypeOK, FindProject, Goto
  <2>2. TablesFit' /\ View(r)' = View(r) /\ \A q \in Requests \ {r} : RowsFit(q)'
    BY <2>0, <2>1, LocalRows
  <2>3. Seen(r)' = View(r).spans /\ s' = s
    BY <2>0, <2>2 DEF Seen, WithTrace, Span
  <2>4. (AllReal(View(r), Seen(r)) /\ InHandFits(r))'
    BY <1>c, <1>d, <2>0, <2>2, <2>3 DEF AllReal, InHandFits, WithTrace
  <2> QED
    BY <2>2, <2>4 DEF RowsFit
<1>6. CASE NewProject(r)
  <2>0. pc[r] = "new_project"
    BY <1>6 DEF NewProject
  <2> DEFINE d == [View(r) EXCEPT !.projects = @ \cup {s.project}]
  <2>1. CASE Hold(r, d) /\ Goto(r, "new_trace") /\ UNCHANGED mem
    <3>1. /\ d.projects = View(r).projects \cup {s.project} /\ d.spans = View(r).spans
          /\ d.trace = View(r).trace /\ d.session = View(r).session
      BY <1>b DEF Tables
    <3>2. Hold(r, d)
      BY <2>1
    <3> HIDE DEF d
    <3>3. Keeps(View(r), d) /\ Refers(d) /\ AllReal(d, d.spans)
      BY <1>c, <1>d, <2>0, <3>1 DEF Keeps, Refers, AllReal, WithTrace
    <3>4. \A q \in Requests \ {r} : pc'[q] = pc[q] /\ mem'[q] = mem[q] /\ at'[q] = at[q]
      BY <1>t, <2>1 DEF TypeOK, Goto
    <3>5. TablesFit' /\ View(r)' = d /\ \A q \in Requests \ {r} : RowsFit(q)'
      BY <3>2, <3>3, <3>4, WriteRows
    <3>6. pc'[r] = "new_trace" /\ s' = s /\ Seen(r)' = d.spans
      BY <1>t, <2>1, <3>5 DEF TypeOK, Goto, Span, Seen, WithTrace
    <3>7. (AllReal(View(r), Seen(r)) /\ InHandFits(r))'
      BY <3>1, <3>3, <3>5, <3>6 DEF AllReal, InHandFits, WithTrace
    <3> QED
      BY <3>5, <3>7 DEF RowsFit
  <2>2. CASE End(r, "failed")
    BY <1>f, <2>2 DEF Finished
  <2> QED
    BY <1>6, <2>1, <2>2 DEF NewProject
<1>7. CASE NewTrace(r)
  <2>0. pc[r] = "new_trace" /\ pc[r] \in Statements
    BY <1>7 DEF NewTrace, Statements
  <2> DEFINE new == [project |-> s.project, start |-> s.start, end |-> s.end,
                     session |-> NoSession]
             d == [View(r) EXCEPT !.trace[s.trace] = new]
  <2>m. ASSUME NEW row, HaveTrace(r, row)
        PROVE  \A q \in Requests \ {r} : pc'[q] = pc[q] /\ mem'[q] = mem[q] /\ at'[q] = at[q]
    BY <1>t, <2>m DEF TypeOK, HaveTrace, Goto
  <2>r. AllReal(View(r), View(r).spans \cup {s})
    BY <1>c, <1>d, <2>0, RealGrows DEF AllReal, WithTrace
  <2>1. CASE View(r).trace[s.trace] = NoRow /\ Hold(r, d) /\ HaveTrace(r, new)
    <3>1. new \in TraceRow /\ new # NoRow
      BY <1>a, <2>0, NoneAssumption DEF TraceRow
    <3>2. new.project = s.project /\ new.session = NoSession
          /\ Real(View(r).spans \cup {s}, s.trace, new)
      BY DEF Real
    <3> HIDE DEF new
    <3>3. /\ d.spans = View(r).spans /\ d.session = View(r).session
          /\ d.projects = View(r).projects
          /\ d.trace = [View(r).trace EXCEPT ![s.trace] = new]
      BY <1>a, <1>b, <2>0, <3>1 DEF Tables
    <3>4. d.trace[s.trace] = new /\ \A t \in Traces \ {s.trace} : d.trace[t] = View(r).trace[t]
      BY <1>a, <1>b, <2>0, <3>3 DEF Tables
    <3>5. Hold(r, d) /\ HaveTrace(r, new)
      BY <2>1
    <3> HIDE DEF d
    <3>6. Keeps(View(r), d)
      BY <2>1, <3>3, <3>4 DEF Keeps
    <3>7. Refers(d)
      <4>1. s.project \in d.projects
        BY <1>c, <2>0, <3>3 DEF InHandFits
      <4> QED
        BY <1>c, <3>2, <3>3, <3>4, <4>1 DEF Refers
    <3>8. AllReal(d, d.spans \cup {s})
      BY <2>r, <3>2, <3>3, <3>4 DEF AllReal
    <3>9. TablesFit' /\ View(r)' = d /\ \A q \in Requests \ {r} : RowsFit(q)'
      BY <2>m, <3>5, <3>6, <3>7, WriteRows
    <3>10. RowsFit(r)'
      BY <1>a, <1>t, <2>0, <3>1, <3>2, <3>3, <3>4, <3>5, <3>8, <3>9, HaveTraceRows
    <3> QED
      BY <3>9, <3>10
  <2>2. CASE /\ View(r).trace[s.trace] # NoRow
             /\ Hold(r, View(r)) /\ HaveTrace(r, View(r).trace[s.trace])
    <3>1. TablesFit' /\ View(r)' = View(r) /\ \A q \in Requests \ {r} : RowsFit(q)'
      BY <1>c, <2>2, <2>m, WriteRows
    <3>2. View(r).trace[s.trace] \in TraceRow
      BY <1>a, <1>b, <2>0, <2>2 DEF Tables
    <3>3. Real(View(r).spans \cup {s}, s.trace, View(r).trace[s.trace])
      BY <1>a, <2>0, <2>2, <2>r DEF AllReal
    <3>4. RowsFit(r)'
      BY <1>a, <1>t, <2>0, <2>2, <2>r, <3>1, <3>2, <3>3, HaveTraceRows
    <3> QED
      BY <3>1, <3>4
  <2>3. CASE End(r, "failed")
    BY <1>f, <2>3 DEF Finished
  <2> QED
    BY <1>7, <2>1, <2>2, <2>3 DEF NewTrace
<1>8. CASE FindSession(r)
  <2> DEFINE m == mem[r]
             d == [View(r) EXCEPT !.trace[s.trace] = WriteTrace(@, m.base, m.row)]
             row == View(r).session[SessionKey(r)]
  <2>0. /\ pc[r] = "find_session" /\ pc[r] \in Statements /\ s.session # NoSession
        /\ m.row \in TraceRow /\ m.base \in TraceRow
    BY <1>8, <1>t DEF FindSession, Statements, WithTrace, RowsInHand, TInv
  <2>1. CASE SessionClash(r)
    BY <1>8, <1>f, <2>1 DEF FindSession, Finished
  <2>2. CASE ~SessionClash(r)
    <3>1. \A q \in Requests \ {r} : pc'[q] = pc[q] /\ mem'[q] = mem[q] /\ at'[q] = at[q]
      BY <1>8, <1>t, <2>2 DEF FindSession, HaveSession, Goto, TypeOK
    <3>2. /\ TablesFit' /\ \A q \in Requests \ {r} : RowsFit(q)'
          /\ AllReal(View(r)', View(r)'.spans \cup {s})
          /\ Real(View(r)'.spans \cup {s}, s.trace, m.row)
          /\ View(r)'.trace[s.trace].project = m.row.project
      <4>r. Real(Seen(r), s.trace, m.row) /\ Seen(r) = View(r).spans \cup {s}
            /\ m.row.project = View(r).trace[s.trace].project
        BY <1>c, <1>e, <2>0 DEF InHandFits, WithTrace
      <4>1. CASE m.row # m.base
        <5>1. Hold(r, d)
          BY <1>8, <2>2, <4>1 DEF FindSession
        <5>2. /\ d.projects = View(r).projects /\ d.spans = View(r).spans
              /\ d.session = View(r).session
              /\ d.trace = [View(r).trace EXCEPT ![s.trace] =
                              WriteTrace(View(r).trace[s.trace], m.base, m.row)]
          BY <1>b DEF Tables
        <5> HIDE DEF d
        <5>3. /\ Keeps(View(r), d) /\ Refers(d) /\ AllReal(d, Seen(r))
              /\ d.trace[s.trace].project = m.row.project
          BY <2>0, <5>2, TraceWritten
        <5>4. TablesFit' /\ View(r)' = d /\ \A q \in Requests \ {r} : RowsFit(q)'
          BY <3>1, <5>1, <5>3, WriteRows
        <5> QED
          BY <4>r, <5>2, <5>3, <5>4
      <4>2. CASE m.row = m.base
        <5>1. UNCHANGED tables
          BY <1>8, <2>2, <4>2 DEF FindSession
        <5>2. TablesFit' /\ View(r)' = View(r) /\ \A q \in Requests \ {r} : RowsFit(q)'
          BY <3>1, <5>1, LocalRows
        <5> QED
          BY <1>c, <4>r, <5>2
      <4> QED
        BY <4>1, <4>2
    <3>3. CASE row # NoRow
      <4>1. HaveSession(r, row)
        BY <1>8, <2>2, <3>3 DEF FindSession
      <4> QED
        BY <1>t, <2>0, <3>2, <4>1, HaveSessionRows
    <3>4. CASE row = NoRow
      <4>1. /\ mem' = [mem EXCEPT ![r].base = m.row]
            /\ pc'[r] = "new_session" /\ at' = at
        BY <1>8, <1>t, <2>2, <3>4 DEF FindSession, Goto, TypeOK
      <4>2. mem'[r].base = m.row /\ mem'[r].row = m.row
        BY <1>t, <4>1 DEF TypeOK, OrmRows
      <4>3. s' = s
        BY <4>1 DEF Span
      <4>4. Seen(r)' = View(r)'.spans \cup {s}
        BY <4>1, <4>3 DEF Seen, WithTrace
      <4>5. InHandFits(r)'
        BY <3>2, <4>1, <4>2, <4>3, <4>4 DEF InHandFits
      <4>6. AllReal(View(r), Seen(r))'
        BY <3>2, <4>4 DEF AllReal
      <4> QED
        BY <3>2, <4>5, <4>6 DEF RowsFit
    <3> QED
      BY <3>3, <3>4
  <2> QED
    BY <2>1, <2>2
<1>9. CASE NewSession(r)
  <2> DEFINE k == SessionKey(r)
             new == [start |-> mem[r].row.start, end |-> mem[r].row.end]
             d == [View(r) EXCEPT !.session[k] = new]
  <2>0. /\ pc[r] = "new_session" /\ pc[r] \in Statements /\ s.session # NoSession
        /\ mem[r].row \in TraceRow
    BY <1>9, <1>t DEF NewSession, Statements, WithTrace, RowsInHand, TInv
  <2>k. k \in SessionKeys
    BY <1>a, <1>t, <2>0, KeyType
  <2>r. /\ Real(View(r).spans \cup {s}, s.trace, mem[r].row)
        /\ AllReal(View(r), View(r).spans \cup {s})
        /\ View(r).trace[s.trace].project = mem[r].row.project
    BY <1>c, <1>e, <2>0 DEF InHandFits, WithTrace
  <2>m. ASSUME NEW row, HaveSession(r, row)
        PROVE  \A q \in Requests \ {r} : pc'[q] = pc[q] /\ mem'[q] = mem[q] /\ at'[q] = at[q]
    BY <1>t, <2>m DEF TypeOK, HaveSession, Goto
  <2> HIDE DEF k
  <2>1. CASE Hold(r, d) /\ HaveSession(r, new)
    <3>1. new # NoRow
      BY <2>0, NoneAssumption DEF TraceRow, Interval
    <3> HIDE DEF new
    <3>2. /\ d.projects = View(r).projects /\ d.spans = View(r).spans /\ d.trace = View(r).trace
          /\ d.session = [View(r).session EXCEPT ![k] = new]
      BY <1>b DEF Tables
    <3>3. \A j \in SessionKeys : View(r).session[j] # NoRow => d.session[j] # NoRow
      BY <1>b, <2>k, <3>1, <3>2 DEF Tables
    <3>4. Hold(r, d) /\ HaveSession(r, new)
      BY <2>1
    <3> HIDE DEF d
    <3>5. Keeps(View(r), d)
      BY <3>2, <3>3 DEF Keeps
    <3>6. Refers(d)
      <4>1. \A t \in Traces : View(r).trace[t] # NoRow /\ View(r).trace[t].session # NoSession =>
              <<View(r).trace[t].project, View(r).trace[t].session>> \in SessionKeys
        BY <1>b DEF Tables, TraceRow, SessionKeys
      <4> QED
        BY <1>c, <3>2, <3>3, <4>1 DEF Refers
    <3>7. TablesFit' /\ View(r)' = d /\ \A q \in Requests \ {r} : RowsFit(q)'
      BY <2>m, <3>4, <3>5, <3>6, WriteRows
    <3>8. AllReal(d, d.spans \cup {s})
      BY <2>r, <3>2 DEF AllReal
    <3>9. RowsFit(r)'
      BY <1>t, <2>0, <2>r, <3>2, <3>4, <3>7, <3>8, HaveSessionRows
    <3> QED
      BY <3>7, <3>9
  <2>2. CASE Hold(r, View(r)) /\ HaveSession(r, View(r).session[k])
    <3>1. TablesFit' /\ View(r)' = View(r) /\ \A q \in Requests \ {r} : RowsFit(q)'
      BY <1>c, <2>2, <2>m, WriteRows
    <3>2. RowsFit(r)'
      BY <1>t, <2>0, <2>2, <2>r, <3>1, HaveSessionRows
    <3> QED
      BY <3>1, <3>2
  <2>3. CASE End(r, "failed")
    BY <1>f, <2>3 DEF Finished
  <2> QED
    BY <1>9, <2>1, <2>2, <2>3 DEF NewSession, k
<1>10. CASE AddSpan(r)
  <2> DEFINE m == mem[r]
             k == SessionKey(r)
             sessions == IF s.session = NoSession THEN View(r).session
                         ELSE [View(r).session EXCEPT ![k] = WriteBounds(@, m.sbase, m.srow)]
             d == [View(r) EXCEPT !.trace[s.trace] = WriteTrace(@, m.base, m.row),
                                  !.session = sessions,
                                  !.spans = @ \cup {s}]
  <2>0. /\ pc[r] = "add_span" /\ pc[r] \in Statements /\ m.row \in TraceRow
        /\ s.session # NoSession => /\ m.srow \in Interval /\ m.sbase \in Interval
                                    /\ View(r).session[k] # NoRow
    BY <1>10, <1>t DEF AddSpan, Statements, WithTrace, RowsInHand, TInv
  <2>m. ASSUME Loop(r, at[r] + 1)
        PROVE  \A q \in Requests \ {r} : pc'[q] = pc[q] /\ mem'[q] = mem[q] /\ at'[q] = at[q]
    BY <1>t, <2>m DEF TypeOK, Loop
  <2>e. Seen(r) = View(r).spans \cup {s}
    BY <1>e, <2>0 DEF WithTrace
  <2>1. CASE Hold(r, d) /\ Loop(r, at[r] + 1)
    <3>1. \A j \in SessionKeys : View(r).session[j] # NoRow => sessions[j] # NoRow
      <4>1. CASE s.session = NoSession
        BY <4>1
      <4>2. CASE s.session # NoSession
        <5>1. k \in SessionKeys
          BY <1>a, <1>t, <2>0, <4>2, KeyType
        <5>2. WriteBounds(View(r).session[k], m.sbase, m.srow) \in Interval
          BY <1>b, <2>0, <4>2, <5>1, WriteSessionType DEF Tables
        <5> HIDE DEF k
        <5> QED
          BY <1>b, <4>2, <5>1, <5>2, NoneAssumption DEF Tables
      <4> QED
        BY <4>1, <4>2
    <3> HIDE DEF sessions
    <3>2. /\ d.projects = View(r).projects /\ d.spans = View(r).spans \cup {s}
          /\ d.session = sessions
          /\ d.trace = [View(r).trace EXCEPT ![s.trace] =
                          WriteTrace(View(r).trace[s.trace], m.base, m.row)]
      BY <1>b DEF Tables
    <3>3. Hold(r, d) /\ Loop(r, at[r] + 1)
      BY <2>1
    <3> HIDE DEF d
    <3>4. Keeps(View(r), d) /\ Refers(d) /\ AllReal(d, d.spans)
      <4>1. Seen(r) \subseteq d.spans /\ View(r).spans \subseteq d.spans
        BY <2>e, <3>2
      <4> QED
        BY <2>0, <3>1, <3>2, <4>1, TraceWritten
    <3>5. TablesFit' /\ View(r)' = d /\ \A q \in Requests \ {r} : RowsFit(q)'
      BY <2>m, <3>3, <3>4, WriteRows
    <3> QED
      BY <1>t, <3>3, <3>4, <3>5, LoopRows
  <2>2. CASE s \in View(r).spans /\ Hold(r, View(r)) /\ Loop(r, at[r] + 1)
    <3>1. TablesFit' /\ View(r)' = View(r) /\ \A q \in Requests \ {r} : RowsFit(q)'
      BY <1>c, <2>2, <2>m, WriteRows
    <3>2. Seen(r) = View(r).spans
      BY <2>2, <2>e
    <3> QED
      BY <1>c, <1>t, <2>2, <3>1, <3>2, LoopRows
  <2>3. CASE End(r, "failed")
    BY <1>f, <2>3 DEF Finished
  <2> QED
    BY <1>10, <2>1, <2>2, <2>3 DEF AddSpan
<1>11. CASE Commit(r)
  <2>1. /\ pc[r] = "commit" /\ pc' = [pc EXCEPT ![r] = "reply"] /\ UNCHANGED <<at, mem, work>>
        /\ db' = View(r) /\ writer' = IF writer = r THEN NoOne ELSE writer
    BY <1>11 DEF Commit, Goto
  <2>2. AllReal(View(r), View(r).spans)
    BY <1>c, <1>d, <2>1 DEF WithTrace
  <2>3. Keeps(db, View(r)) /\ Keeps(View(r), work)
    BY KeepsItself DEF RInv, View
  <2>4. TablesFit'
    BY <1>c, <2>1, <2>2, <2>3 DEF RInv
  <2>5. ASSUME NEW q \in Requests \ {r} PROVE RowsFit(q)'
    <3>1. View(q)' = View(q) \/ (View(q) = db /\ View(q)' = View(r))
      BY <2>1, NoneAssumption DEF View
    <3>2. Keeps(View(q), View(q)')
      BY <2>3, <3>1, KeepsItself
    <3>3. pc'[q] = pc[q] /\ mem'[q] = mem[q] /\ at'[q] = at[q]
      BY <1>t, <2>1 DEF TypeOK
    <3> QED
      BY <1>t, <2>2, <3>1, <3>2, <3>3, RowsFrame DEF RInv
  <2>6. RowsFit(r)'
    <3>1. View(r)' = View(r) /\ pc'[r] = "reply"
      BY <1>t, <2>1, NoneAssumption DEF View, TypeOK
    <3> QED
      BY <2>2, <3>1, NothingInHand DEF WithTrace
  <2> QED
    BY <2>4, <2>5, <2>6
<1>12. CASE Reply(r)
  <2>1. /\ pc[r] = "reply" /\ UNCHANGED <<tables, mem, at>> /\ pc'[r] \in {"ok", "lost"}
        /\ \A q \in Requests \ {r} : pc'[q] = pc[q]
    BY <1>12, <1>t DEF Reply, Goto, TypeOK
  <2>2. TablesFit' /\ View(r)' = View(r) /\ \A q \in Requests \ {r} : RowsFit(q)'
    BY <2>1, LocalRows
  <2>3. AllReal(View(r), View(r).spans)
    BY <1>c, <1>d, <2>1 DEF WithTrace
  <2> QED
    BY <2>1, <2>2, <2>3, NothingInHand DEF WithTrace
<1> QED
  BY <1>1, <1>2, <1>3, <1>4, <1>5, <1>6, <1>7, <1>8, <1>9, <1>10, <1>11, <1>12 DEF Step

LEMMA OtherStepsRows ==
  ASSUME RInv,
         \/ \E r \in Requests : Send(r) \/ LockTimeout(r)
         \/ \E q \in Readers : ReadTrace(q) \/ ReadSpans(q)
         \/ Crash \/ Quiet \/ UNCHANGED vars
  PROVE  TablesFit' /\ \A q \in Requests : RowsFit(q)'
<1> USE DEF TablesFit
<1>t. TypeOK /\ TInv
  BY DEF RInv, TInv
<1>1. ASSUME NEW r \in Requests, Send(r)
      PROVE  TablesFit' /\ \A q \in Requests : RowsFit(q)'
  <2>1. /\ pc[r] \in {"idle", "failed", "lost"} /\ pc'[r] = "received" /\ UNCHANGED <<tables, mem, at>>
        /\ \A q \in Requests \ {r} : pc'[q] = pc[q]
    BY <1>1, <1>t DEF Send, TypeOK
  <2>2. TablesFit' /\ View(r)' = View(r) /\ \A q \in Requests \ {r} : RowsFit(q)'
    BY <2>1, LocalRows
  <2>3. Seen(r) = View(r).spans
    BY <2>1 DEF Seen, WithTrace
  <2>4. AllReal(View(r), View(r).spans)
    BY <2>3 DEF RInv, RowsFit
  <2> QED
    BY <2>1, <2>2, <2>4, NothingInHand DEF WithTrace
<1>2. ASSUME NEW r \in Requests, LockTimeout(r)
      PROVE  TablesFit' /\ \A q \in Requests : RowsFit(q)'
  BY <1>2, EndRows DEF LockTimeout, Finished
<1>3. ASSUME UNCHANGED <<tables, ingest>>
      PROVE  TablesFit' /\ \A q \in Requests : RowsFit(q)'
  <2>1. TablesFit'
    BY <1>3 DEF RInv, tables
  <2>2. \A q \in Requests : View(q)' = View(q)
    BY <1>3 DEF View, tables
  <2> QED
    BY <1>3, <1>t, <2>1, <2>2, KeepsItself, RowsFrame DEF RInv, ingest
<1>4. CASE Crash
  <2>1. db' = db /\ work' = db /\ writer' = NoOne
        /\ \A q \in Requests : pc'[q] \notin Statements
    BY <1>4, <1>t DEF Crash, TypeOK, Running, Statements
  <2>2. TablesFit'
    BY <2>1, KeepsItself DEF RInv
  <2>3. \A q \in Requests : View(q)' = db
    BY <2>1 DEF View
  <2> QED
    BY <2>1, <2>2, <2>3, NothingInHand DEF RInv, Statements, WithTrace
<1> QED
  BY <1>1, <1>2, <1>3, <1>4 DEF ReadTrace, ReadSpans, Quiet, vars, tables, ingest

LEMMA InitRInv == Init => RInv
<1> SUFFICES ASSUME Init PROVE RInv
  OBVIOUS
<1>1. TInv
  BY InitTInv
<1>2. db = EmptyTables /\ work = EmptyTables
      /\ \A t \in Traces : EmptyTables.trace[t] = NoRow
  BY DEF Init, EmptyTables
<1>3. Keeps(db, work) /\ Refers(db) /\ Refers(work) /\ AllReal(db, db.spans)
  BY <1>2, KeepsItself DEF Refers, AllReal
<1>4. ASSUME NEW r \in Requests PROVE RowsFit(r)
  <2>1. View(r) = EmptyTables /\ pc[r] = "idle"
    BY <1>2 DEF View, Init
  <2> QED
    BY <1>2, <2>1 DEF RowsFit, AllReal, InHandFits, WithTrace
<1> QED
  BY <1>1, <1>3, <1>4 DEF RInv

LEMMA NextRInv == RInv /\ [Next]_vars => RInv'
<1> SUFFICES ASSUME RInv, [Next]_vars PROVE RInv'
  OBVIOUS
<1>1. TInv'
  BY NextTInv DEF RInv
<1>2. TablesFit' /\ \A q \in Requests : RowsFit(q)'
  BY StepRows, OtherStepsRows DEF Next
<1> QED
  BY <1>1, <1>2 DEF RInv, TablesFit

LEMMA AlwaysRInv == Spec => []RInv
BY InitRInv, NextRInv, PTL DEF Spec

\* The bounds of a committed trace are times of committed spans of that trace, whatever
\* stale row a handler has written back.
THEOREM BoundsAlwaysReal == Spec => []BoundsAreReal
<1>1. RInv => BoundsAreReal
  BY DEF RInv, AllReal, Real, BoundsAreReal
<1> QED
  BY <1>1, AlwaysRInv, PTL

\* A committed trace names a committed project, and a committed session of that same
\* project.
THEOREM ReferencesAlwaysHold == Spec => []ReferencesHold
<1>1. RInv => ReferencesHold
  BY DEF RInv, Refers, ReferencesHold
<1> QED
  BY <1>1, AlwaysRInv, PTL

LEMMA CommitsKeep ==
  ASSUME RInv, SInv, [Next]_vars
  PROVE  Keeps(db, db')
<1>1. CASE db' = db
  BY <1>1, KeepsItself
<1>2. ASSUME NEW r \in Requests, Commit(r) PROVE Keeps(db, db')
  <2>1. db' = View(r)
    BY <1>2 DEF Commit
  <2> QED
    BY <2>1, KeepsItself DEF RInv, View
<1> QED
  BY <1>1, <1>2, OnlyCommitsWrite

\* No step takes back a project, trace, session or span, moves a trace to another
\* project, or forgets that a trace has a session.
THEOREM NothingEverForgotten == Spec => NothingForgotten
<1> DEFINE Kept ==
      /\ db.projects \subseteq db'.projects
      /\ db.spans \subseteq db'.spans
      /\ \A k \in SessionKeys : db.session[k] # NoRow => db'.session[k] # NoRow
      /\ \A t \in Traces : db.trace[t] # NoRow =>
           /\ db'.trace[t] # NoRow
           /\ db'.trace[t].project = db.trace[t].project
           /\ db.trace[t].session # NoSession => db'.trace[t].session # NoSession
<1>1. RInv /\ SInv /\ [Next]_vars => [Kept]_vars
  BY CommitsKeep DEF Keeps
<1> QED
  BY <1>1, AlwaysRInv, AlwaysSInv, PTL DEF Spec, NothingForgotten

-----------------------------------------------------------------------------
(* get_trace *)

\* The trace that a reader has found is there, and what it has answered is whole.
ReaderFits(q) ==
  /\ reading[q].pc = "spans" =>
       reading[q].trace \in Traces /\ db.trace[reading[q].trace] # NoRow
  /\ reading[q].pc = "answered" =>
       /\ reading[q].spans # {}
       /\ \E R \in SUBSET Requests :
            reading[q].spans =
              {s \in UNION {Items(r) : r \in R} : s.trace = reading[q].trace}

ReadInv == \A q \in Readers : ReaderFits(q)

LEMMA NextReadInv ==
  ASSUME RInv, SInv, WholeBatches, ReadInv, [Next]_vars
  PROVE  ReadInv'
<1>t. reading \in [Readers ->
         [pc: {"idle", "missing", "spans", "answered"}, trace: Traces \cup {NoRow},
          row: TraceRow \cup {NoRow}, spans: SUBSET Spans]]
  BY DEF RInv, TInv, TypeOK
<1>i. \A r \in Requests : Items(r)' = Items(r)
  BY DEF Items
<1>k. \A t \in Traces : db.trace[t] # NoRow => db'.trace[t] # NoRow
  BY CommitsKeep DEF Keeps
<1>1. ASSUME NEW q \in Readers, reading'[q] = reading[q] PROVE ReaderFits(q)'
  <2>1. ReaderFits(q)
    BY DEF ReadInv
  <2>2. ASSUME NEW R \in SUBSET Requests
        PROVE  UNION {Items(r)' : r \in R} = UNION {Items(r) : r \in R}
    BY <1>i
  <2> QED
    BY <1>1, <1>k, <2>1, <2>2 DEF ReaderFits
<1>2. ASSUME NEW p \in Readers, ReadTrace(p) PROVE ReadInv'
  <2>1. PICK t \in Traces :
          reading' = [reading EXCEPT ![p] =
            [pc |-> IF db.trace[t] = NoRow THEN "missing" ELSE "spans",
             trace |-> t, row |-> db.trace[t], spans |-> {}]]
    BY <1>2 DEF ReadTrace
  <2>2. ReaderFits(p)'
    <3>1. reading'[p].trace = t
          /\ reading'[p].pc = IF db.trace[t] = NoRow THEN "missing" ELSE "spans"
      BY <1>t, <2>1
    <3> QED
      BY <1>k, <3>1 DEF ReaderFits
  <2>3. \A q \in Readers \ {p} : reading'[q] = reading[q]
    BY <1>t, <2>1
  <2> QED
    BY <1>1, <2>2, <2>3 DEF ReadInv
<1>3. ASSUME NEW p \in Readers, ReadSpans(p) PROVE ReadInv'
  <2> DEFINE t == reading[p].trace
             found == {s \in db.spans : s.trace = t}
  <2>1. /\ reading[p].pc = "spans"
        /\ reading' = [reading EXCEPT ![p].pc = "answered", ![p].spans = found]
    BY <1>3 DEF ReadSpans
  <2>2. found # {}
    <3>1. t \in Traces /\ db.trace[t] # NoRow
      BY <2>1 DEF ReadInv, ReaderFits
    <3> QED
      BY <3>1 DEF RInv, AllReal, Real
  <2>3. PICK R \in SUBSET Requests : db.spans = UNION {Items(r) : r \in R}
    BY DEF WholeBatches
  <2>4. UNION {Items(r)' : r \in R} = db.spans
    BY <1>i, <2>3
  <2>5. reading'[p].pc = "answered" /\ reading'[p].spans = found /\ reading'[p].trace = t
    BY <1>t, <2>1
  <2>6. ReaderFits(p)'
    BY <2>2, <2>4, <2>5 DEF ReaderFits
  <2>7. \A q \in Readers \ {p} : reading'[q] = reading[q]
    BY <1>t, <2>1
  <2> QED
    BY <1>1, <2>6, <2>7 DEF ReadInv
<1>4. CASE Crash
  <2>1. reading' = [q \in Readers |-> IF reading[q].pc = "spans" THEN NotReading
                                                                 ELSE reading[q]]
    BY <1>4 DEF Crash
  <2>2. ASSUME NEW q \in Readers, reading'[q] = NotReading PROVE ReaderFits(q)'
    BY <2>2 DEF ReaderFits, NotReading
  <2> QED
    BY <1>1, <2>1, <2>2 DEF ReadInv
<1>5. ASSUME reading' = reading PROVE ReadInv'
  BY <1>1, <1>5 DEF ReadInv
<1>6. ASSUME NEW r \in Requests, Send(r) \/ Step(r) \/ LockTimeout(r) PROVE reading' = reading
  BY <1>6 DEF Send, LockTimeout, Step, Refuse, Parse, FindSpan, FindTrace, FindProject,
     NewProject, NewTrace, FindSession, NewSession, AddSpan, Commit, Reply
<1> QED
  BY <1>2, <1>3, <1>4, <1>5, <1>6 DEF Next, Quiet, vars

\* get_trace never answers without spans, and holds of every batch all of its spans in
\* that trace or none that it alone would have brought.
THEOREM ReadsAlwaysWhole == Spec => []ReadsAreWhole
<1>1. Init => ReadInv
  BY DEF Init, ReadInv, ReaderFits, NotReading
<1>2. RInv /\ SInv /\ WholeBatches /\ ReadInv /\ [Next]_vars => ReadInv'
  BY NextReadInv
<1>3. ReadInv => ReadsAreWhole
  BY DEF ReadInv, ReaderFits, ReadsAreWhole
<1> QED
  BY <1>1, <1>2, <1>3, AlwaysRInv, AlwaysSInv, AlwaysWholeBatches, PTL DEF Spec

-----------------------------------------------------------------------------
(* Handlers that run one at a time *)

Covers(row, u) == row # NoRow /\ row.start <= u.start /\ u.end <= row.end

\* The rows of d cover its spans, and a trace has the session of its spans.
Covering(d) ==
  \A u \in d.spans : LET row == d.trace[u.trace] IN
    /\ Covers(row, u)
    /\ u.session # NoSession =>
         row.session = u.session /\ Covers(d.session[<<row.project, u.session>>], u)

\* What r has in hand is what the tables hold now, widened for the span.
UpToDate(r) ==
  LET s == Span(r)
      m == mem[r]
      row == View(r).trace[s.trace] IN
  /\ Covering(View(r))
  /\ pc[r] = "find_session" => m.base = row /\ m.row = Widen(row, s)
  /\ pc[r] = "new_session" => m.base = row /\ m.row = row /\ Covers(row, s) /\ ~SessionClash(r)
  /\ pc[r] = "add_span" =>
       /\ m.base = row /\ m.row.project = row.project
       /\ Covers(m.row, row) /\ Covers(m.row, s)
       /\ s.session = NoSession => m.row.session = row.session
       /\ s.session # NoSession =>
            /\ row.session \in {NoSession, s.session} /\ m.row.session = s.session
            /\ m.sbase = View(r).session[SessionKey(r)]
            /\ Covers(m.srow, m.sbase) /\ Covers(m.srow, m.row)

SerialInv ==
  /\ IsFiniteSet(InFlight)
  /\ ~overlapped =>
       /\ \A r, q \in InFlight : r = q
       /\ Covering(db)
       /\ \A r \in InFlight : UpToDate(r)

LEMMA WidenCovers ==
  ASSUME NEW row \in TraceRow \cup Interval, NEW by, by.start \in Nat, by.end \in Nat
  PROVE  Covers(Widen(row, by), row) /\ Covers(Widen(row, by), by)
<1>1. Widen(row, by) \in TraceRow \cup Interval
  BY DEF Widen, TraceRow, Interval
<1>2. Widen(row, by) # NoRow
  BY <1>1, NoneAssumption
<1>3. /\ row.start \in Nat /\ row.end \in Nat
      /\ Widen(row, by).start = IF by.start < row.start THEN by.start ELSE row.start
      /\ Widen(row, by).end = IF row.end < by.end THEN by.end ELSE row.end
  BY DEF Widen, TraceRow, Interval
<1> QED
  BY <1>2, <1>3 DEF Covers

LEMMA CoversOn ==
  ASSUME NEW a, NEW b, NEW u, a.start \in Nat, a.end \in Nat, b.start \in Nat, b.end \in Nat,
         u.start \in Nat, u.end \in Nat, Covers(a, b), Covers(b, u)
  PROVE  Covers(a, u)
BY DEF Covers

\* An UPDATE of a row that nobody has changed since it was loaded writes the row in hand.
LEMMA WriteFreshTrace ==
  ASSUME NEW base \in TraceRow, NEW new \in TraceRow, new.project = base.project
  PROVE  WriteTrace(base, base, new) = new
BY DEF WriteTrace, WriteBounds, TraceRow

LEMMA WriteFreshSession ==
  ASSUME NEW base \in Interval, NEW new \in Interval
  PROVE  WriteBounds(base, base, new) = new
BY DEF WriteBounds, Interval

\* Widening a trace row keeps what covers.
LEMMA WidenedTrace ==
  ASSUME NEW d \in Tables, Covering(d), NEW t \in Traces, d.trace[t] \in TraceRow,
         NEW new \in TraceRow, Covers(new, d.trace[t]),
         new.project = d.trace[t].project, new.session = d.trace[t].session,
         NEW e, e.trace = [d.trace EXCEPT ![t] = new], e.session = d.session, e.spans = d.spans
  PROVE  Covering(e)
<1> SUFFICES ASSUME NEW u \in e.spans
             PROVE  LET row == e.trace[u.trace] IN
                    /\ Covers(row, u)
                    /\ u.session # NoSession =>
                         row.session = u.session /\ Covers(e.session[<<row.project, u.session>>], u)
  BY DEF Covering
<1>1. u \in d.spans /\ u.trace \in Traces /\ u.start \in Nat /\ u.end \in Nat
  BY SpansAssumption DEF Tables, SpanRecords
<1>2. CASE u.trace # t
  <2>1. e.trace[u.trace] = d.trace[u.trace]
    BY <1>1, <1>2 DEF Tables
  <2>2. LET row == d.trace[u.trace] IN
        /\ Covers(row, u)
        /\ u.session # NoSession =>
             row.session = u.session /\ Covers(d.session[<<row.project, u.session>>], u)
    BY <1>1 DEF Covering
  <2> QED
    BY <2>1, <2>2
<1>3. CASE u.trace = t
  <2>1. e.trace[u.trace] = new
    BY <1>3 DEF Tables
  <2>2. Covers(new, u)
    <3>1. Covers(d.trace[t], u)
      BY <1>1, <1>3 DEF Covering
    <3> QED
      BY <1>1, <3>1, CoversOn DEF TraceRow
  <2>3. u.session # NoSession =>
          /\ d.trace[t].session = u.session
          /\ Covers(d.session[<<d.trace[t].project, u.session>>], u)
    BY <1>1, <1>3 DEF Covering
  <2> QED
    BY <2>1, <2>2, <2>3
<1> QED
  BY <1>2, <1>3

\* The span in hand is added with the rows in hand.
LEMMA AddedSpan ==
  ASSUME TInv, NEW r \in Requests, pc[r] = "add_span", UpToDate(r),
         NEW e, e.trace = [View(r).trace EXCEPT ![Span(r).trace] = mem[r].row],
         e.session = IF Span(r).session = NoSession THEN View(r).session
                     ELSE [View(r).session EXCEPT ![SessionKey(r)] = mem[r].srow],
         e.spans = View(r).spans \cup {Span(r)}
  PROVE  Covering(e)
<1> DEFINE s == Span(r)
           d == View(r)
           m == mem[r]
           k == SessionKey(r)
<1>1. /\ s \in Spans /\ s.trace \in Traces /\ s.start \in Nat /\ s.end \in Nat /\ d \in Tables
      /\ m.row \in TraceRow /\ m.base \in TraceRow /\ at[r] <= Len(Batch[r])
  BY SpanType, ViewType DEF TInv, RowsInHand, Statements, WithTrace
<1>2. /\ m.base = d.trace[s.trace] /\ m.row.project = m.base.project
      /\ Covers(m.row, m.base) /\ Covers(m.row, s) /\ Covering(d)
      /\ s.session = NoSession => m.row.session = m.base.session
      /\ s.session # NoSession =>
           /\ m.base.session \in {NoSession, s.session} /\ m.row.session = s.session
           /\ m.sbase = d.session[k] /\ Covers(m.srow, m.sbase) /\ Covers(m.srow, m.row)
           /\ m.srow \in Interval /\ m.sbase \in Interval /\ k \in SessionKeys
  BY <1>1, KeyType DEF UpToDate, TInv, RowsInHand
<1>3. k = <<m.row.project, s.session>>
  BY DEF SessionKey
<1> HIDE DEF s, d, m, k
<1> SUFFICES ASSUME NEW u \in e.spans
             PROVE  LET row == e.trace[u.trace] IN
                    /\ Covers(row, u)
                    /\ u.session # NoSession =>
                         row.session = u.session /\ Covers(e.session[<<row.project, u.session>>], u)
  BY DEF Covering
<1>4. u \in Spans /\ u.trace \in Traces /\ u.start \in Nat /\ u.end \in Nat
      /\ u.session \in SessionIds \cup {NoSession} /\ (u \in d.spans \/ u = s)
  BY <1>1, SpansAssumption DEF Tables, SpanRecords, s, d
<1>5. /\ e.trace[s.trace] = m.row
      /\ \A t \in Traces \ {s.trace} : e.trace[t] = d.trace[t]
  BY <1>1 DEF Tables, s, d, m
<1>6. /\ s.session # NoSession => e.session[k] = m.srow
      /\ \A j \in SessionKeys : j # k \/ s.session = NoSession => e.session[j] = d.session[j]
  BY <1>1, <1>2 DEF Tables, s, d, m, k
<1>7. CASE u = s
  <2>1. s.session # NoSession => Covers(m.srow, s)
    BY <1>1, <1>2 DEF Covers, Interval, TraceRow
  <2> QED
    BY <1>2, <1>3, <1>5, <1>6, <1>7, <2>1
<1>8. CASE u \in d.spans
  <2> DEFINE old == d.trace[u.trace]
             key == <<old.project, u.session>>
  <2>1. /\ Covers(old, u)
        /\ u.session # NoSession => old.session = u.session /\ Covers(d.session[key], u)
    BY <1>2, <1>8 DEF Covering
  <2>2. old \in TraceRow
    <3>1. d.trace \in [Traces -> TraceRow \cup {NoRow}] /\ u.trace \in Traces
      BY <1>1, <1>4 DEF Tables
    <3>2. old # NoRow
      BY <2>1 DEF Covers
    <3> QED
      BY <3>1, <3>2
  <2>3. e.trace[u.trace].project = old.project /\ Covers(e.trace[u.trace], u)
    <3>1. CASE u.trace = s.trace
      <4>1. old = m.base /\ e.trace[u.trace] = m.row
        BY <1>2, <1>5, <3>1
      <4>2. Covers(m.row, u)
        BY <1>1, <1>2, <1>4, <2>1, <4>1, CoversOn DEF TraceRow
      <4> QED
        BY <1>2, <4>1, <4>2
    <3>2. CASE u.trace # s.trace
      BY <1>4, <1>5, <2>1, <3>2
    <3> QED
      BY <3>1, <3>2
  <2>4. ASSUME u.session # NoSession PROVE e.trace[u.trace].session = u.session
    <3>1. CASE u.trace = s.trace
      BY <1>2, <1>5, <2>1, <2>4, <3>1
    <3>2. CASE u.trace # s.trace
      BY <1>4, <1>5, <2>1, <2>4, <3>2
    <3> QED
      BY <3>1, <3>2
  <2>5. ASSUME u.session # NoSession PROVE Covers(e.session[key], u)
    <3>1. key \in SessionKeys
      BY <1>4, <2>2, <2>5 DEF SessionKeys, TraceRow
    <3> HIDE DEF key
    <3>2. CASE key = k /\ s.session # NoSession
      <4>1. Covers(m.sbase, u) /\ e.session[key] = m.srow
        BY <1>2, <1>6, <2>1, <2>5, <3>2
      <4> QED
        BY <1>2, <1>4, <3>2, <4>1, CoversOn DEF Interval
    <3>3. CASE ~(key = k /\ s.session # NoSession)
      BY <1>6, <2>1, <2>5, <3>1, <3>3
    <3> QED
      BY <3>2, <3>3
  <2> QED
    BY <2>3, <2>4, <2>5
<1> QED
  BY <1>4, <1>7, <1>8

-----------------------------------------------------------------------------
(* What the handler that moves has in hand *)

LEMMA BetweenUpToDate ==
  ASSUME NEW r \in Requests, pc'[r] \notin WithTrace, Covering(View(r)')
  PROVE  UpToDate(r)'
<1>1. Covering(View(r))'
  BY DEF Covering
<1> QED
  BY <1>1 DEF UpToDate, WithTrace

LEMMA LoopUpToDate ==
  ASSUME TypeOK, NEW r \in Requests, NEW k, Loop(r, k), Covering(View(r)')
  PROVE  UpToDate(r)'
<1>1. pc'[r] \in {"commit", "find_span"}
  BY DEF TypeOK, Loop
<1> QED
  BY <1>1, BetweenUpToDate DEF WithTrace

LEMMA HaveTraceUpToDate ==
  ASSUME TypeOK, NEW r \in Requests, at[r] <= Len(Batch[r]), NEW row \in TraceRow,
         HaveTrace(r, row), View(r)'.trace[Span(r).trace] = row, Covering(View(r)')
  PROVE  UpToDate(r)'
<1> DEFINE s == Span(r)
           wide == Widen(row, s)
<1>1. /\ pc'[r] = (IF s.session = NoSession THEN "add_span" ELSE "find_session") /\ at' = at
      /\ mem'[r] = [base |-> row, row |-> wide, sbase |-> NoRow, srow |-> NoRow]
  BY DEF TypeOK, HaveTrace, Goto
<1>2. Span(r)' = s
  BY <1>1 DEF Span
<1>3. wide.project = row.project /\ wide.session = row.session
      /\ Covers(wide, row) /\ Covers(wide, s)
  BY SpanType, WidenTrace, WidenCovers
<1>4. mem'[r].base = row /\ mem'[r].row = wide
  BY <1>1
<1>5. Covering(View(r))'
  BY DEF Covering
<1>6. wide = Widen(row, s)
  OBVIOUS
<1> HIDE DEF wide
<1> QED
  BY <1>1, <1>2, <1>3, <1>4, <1>5, <1>6 DEF UpToDate, Covers

LEMMA HaveSessionUpToDate ==
  ASSUME TypeOK, NEW r \in Requests, at[r] <= Len(Batch[r]), mem[r].row \in TraceRow,
         NEW row \in Interval, Span(r).session # NoSession, HaveSession(r, row),
         View(r)'.trace[Span(r).trace] = mem[r].row, View(r)'.session[SessionKey(r)] = row,
         Covering(View(r)'), Covers(mem[r].row, Span(r)), ~SessionClash(r)
  PROVE  UpToDate(r)'
<1> DEFINE s == Span(r)
           t == mem[r].row
           new == [t EXCEPT !.session = s.session]
           wide == Widen(row, t)
<1>1. /\ pc'[r] = "add_span" /\ at' = at
      /\ mem'[r] = [base |-> t, row |-> new, sbase |-> row, srow |-> wide]
  BY DEF TypeOK, HaveSession, Goto
<1>2. Span(r)' = s
  BY <1>1 DEF Span
<1>3. /\ new.project = t.project /\ new.session = s.session
      /\ new.start = t.start /\ new.end = t.end /\ new \in TraceRow /\ new # NoRow
  BY SpanType, NoneAssumption DEF TraceRow
<1>4. Covers(wide, row) /\ Covers(wide, t)
  BY WidenCovers DEF TraceRow
<1>5. t.session \in {NoSession, s.session}
  BY DEF SessionClash
<1>6. mem'[r].base = t /\ mem'[r].row = new /\ mem'[r].sbase = row /\ mem'[r].srow = wide
  BY <1>1
<1>7. SessionKey(r)' = SessionKey(r)
  BY <1>2, <1>3, <1>6 DEF SessionKey
<1>8. Covering(View(r))'
  BY DEF Covering
<1>9. t.start \in Nat /\ t.end \in Nat
  BY DEF TraceRow
<1> HIDE DEF s, t, new, wide
<1>10. Covers(new, t) /\ Covers(new, s) /\ Covers(wide, new)
  BY <1>3, <1>4, <1>9 DEF Covers, s, t
<1> QED
  BY <1>1, <1>2, <1>3, <1>4, <1>5, <1>6, <1>7, <1>8, <1>10 DEF UpToDate, Covers, s, t

\* A handler that ended, or whose statement left d behind.
LEMMA EndedUpToDate ==
  ASSUME TypeOK, NEW r \in Requests, NEW o \in Finished, End(r, o)
  PROVE  db' = db /\ pc'[r] \notin Running
BY DEF End, TypeOK, Finished, Running, Statements

LEMMA StepUpToDate ==
  ASSUME TInv, NEW r \in Requests, Step(r), Covering(db), UpToDate(r)
  PROVE  Covering(db') /\ (pc'[r] \in Running => UpToDate(r)')
<1> DEFINE s == Span(r)
           d == View(r)
           m == mem[r]
           Goal == Covering(db') /\ (pc'[r] \in Running => UpToDate(r)')
<1>t. TypeOK /\ RowsInHand(r)
  BY DEF TInv
<1>a. pc[r] \in Statements =>
        /\ at[r] <= Len(Batch[r]) /\ s \in Spans /\ s.trace \in Traces /\ s.project \in Projects
        /\ s.session \in SessionIds \cup {NoSession} /\ s.start \in Nat /\ s.end \in Nat
  BY <1>t, SpanType DEF RowsInHand
<1>b. d \in Tables /\ Covering(d)
  BY <1>t, ViewType DEF UpToDate
<1>c. ASSUME NEW o \in Finished, End(r, o) PROVE Goal
  BY <1>c, <1>t, EndedUpToDate
<1>d. UNCHANGED tables => db' = db /\ View(r)' = d
  BY DEF tables, View
<1>e. ASSUME NEW f, Hold(r, f) PROVE db' = db /\ View(r)' = f
  BY <1>e, <1>t, HoldFrame DEF Hold
<1> HIDE DEF d
<1>1. CASE Refuse(r)
  BY <1>1, <1>c DEF Refuse, Finished
<1>2. CASE Parse(r)
  BY <1>2, <1>b, <1>d, <1>t, LoopUpToDate DEF Parse
<1>3. CASE FindSpan(r)
  <2>1. CASE s \in Undecodable
    BY <1>3, <1>c, <2>1 DEF FindSpan, Finished
  <2>2. CASE s \notin Undecodable
    <3>1. UNCHANGED tables /\ (Loop(r, at[r] + 1) \/ Goto(r, "find_trace"))
      BY <1>3, <2>2 DEF FindSpan
    <3>2. pc'[r] \notin WithTrace
      BY <1>t, <3>1 DEF Loop, Goto, TypeOK, WithTrace
    <3> QED
      BY <1>b, <1>d, <3>1, <3>2, BetweenUpToDate
  <2> QED
    BY <2>1, <2>2
<1>4. CASE FindTrace(r)
  <2>0. pc[r] \in Statements /\ UNCHANGED tables
    BY <1>4 DEF FindTrace, Statements
  <2>1. CASE d.trace[s.trace] # NoRow
    <3>1. HaveTrace(r, d.trace[s.trace])
      BY <1>4, <2>1 DEF FindTrace, d
    <3>2. d.trace[s.trace] \in TraceRow
      BY <1>a, <1>b, <2>0, <2>1 DEF Tables
    <3> QED
      BY <1>a, <1>b, <1>d, <1>t, <2>0, <3>1, <3>2, HaveTraceUpToDate
  <2>2. CASE d.trace[s.trace] = NoRow
    <3>1. pc'[r] = "find_project"
      BY <1>4, <1>t, <2>2 DEF FindTrace, Goto, TypeOK, d
    <3> QED
      BY <1>b, <1>d, <2>0, <3>1, BetweenUpToDate DEF WithTrace
  <2> QED
    BY <2>1, <2>2
<1>5. CASE FindProject(r)
  <2>1. UNCHANGED tables /\ pc'[r] \in {"new_trace", "new_project"}
    BY <1>5, <1>t DEF FindProject, Goto, TypeOK
  <2> QED
    BY <1>b, <1>d, <2>1, BetweenUpToDate DEF WithTrace
<1>6. CASE NewProject(r)
  <2> DEFINE e == [d EXCEPT !.projects = @ \cup {s.project}]
  <2>1. CASE Hold(r, e) /\ Goto(r, "new_trace")
    <3>1. e.trace = d.trace /\ e.session = d.session /\ e.spans = d.spans
      BY <1>b DEF Tables
    <3>2. Hold(r, e) /\ pc'[r] = "new_trace"
      BY <1>t, <2>1 DEF Goto, TypeOK
    <3> HIDE DEF e
    <3>3. Covering(e)
      BY <1>b, <3>1 DEF Covering
    <3> QED
      BY <1>e, <3>2, <3>3, BetweenUpToDate DEF WithTrace
  <2>2. CASE End(r, "failed")
    BY <1>c, <2>2 DEF Finished
  <2> QED
    BY <1>6, <2>1, <2>2 DEF NewProject, d
<1>7. CASE NewTrace(r)
  <2> DEFINE new == [project |-> s.project, start |-> s.start, end |-> s.end,
                     session |-> NoSession]
             e == [d EXCEPT !.trace[s.trace] = new]
  <2>0. pc[r] \in Statements
    BY <1>7 DEF NewTrace, Statements
  <2>1. CASE d.trace[s.trace] = NoRow /\ Hold(r, e) /\ HaveTrace(r, new)
    <3>1. new \in TraceRow
      BY <1>a, <2>0 DEF TraceRow
    <3>2. HaveTrace(r, new) /\ Hold(r, e)
      BY <2>1
    <3> HIDE DEF new
    <3>3. /\ e.trace = [d.trace EXCEPT ![s.trace] = new]
          /\ e.session = d.session /\ e.spans = d.spans
      BY <1>b DEF Tables
    <3>4. e.trace[s.trace] = new /\ \A t \in Traces \ {s.trace} : e.trace[t] = d.trace[t]
      BY <1>a, <1>b, <2>0, <3>3 DEF Tables
    <3> HIDE DEF e
    <3>5. \A u \in d.spans : u.trace \in Traces \ {s.trace}
      <4>1. \A u \in d.spans : u.trace \in Traces
        BY <1>b, SpansAssumption DEF Tables, SpanRecords
      <4> QED
        BY <1>b, <2>1, <4>1 DEF Covering, Covers
    <3>6. Covering(e)
      BY <1>b, <3>3, <3>4, <3>5 DEF Covering
    <3> QED
      BY <1>a, <1>e, <1>t, <2>0, <3>1, <3>2, <3>4, <3>6, HaveTraceUpToDate
  <2>2. CASE d.trace[s.trace] # NoRow /\ Hold(r, d) /\ HaveTrace(r, d.trace[s.trace])
    <3>1. d.trace[s.trace] \in TraceRow
      BY <1>a, <1>b, <2>0, <2>2 DEF Tables
    <3> QED
      BY <1>a, <1>b, <1>e, <1>t, <2>0, <2>2, <3>1, HaveTraceUpToDate
  <2>3. CASE End(r, "failed")
    BY <1>c, <2>3 DEF Finished
  <2> QED
    BY <1>7, <2>1, <2>2, <2>3 DEF NewTrace, d
<1>8. CASE FindSession(r)
  <2> DEFINE e == [d EXCEPT !.trace[s.trace] = WriteTrace(@, m.base, m.row)]
             k == SessionKey(r)
             row == d.session[k]
  <2>0. /\ pc[r] \in Statements /\ s.session # NoSession
        /\ m.row \in TraceRow /\ m.base \in TraceRow
        /\ m.base = d.trace[s.trace] /\ m.row = Widen(m.base, s)
    BY <1>8, <1>t DEF FindSession, Statements, WithTrace, RowsInHand, UpToDate, d
  <2>r. /\ m.row.project = m.base.project /\ m.row.session = m.base.session
        /\ Covers(m.row, m.base) /\ Covers(m.row, s)
    BY <1>a, <2>0, WidenTrace, WidenCovers
  <2>k. k \in SessionKeys
    BY <1>a, <1>t, <2>0, KeyType
  <2>1. CASE End(r, "rejected")
    BY <1>c, <2>1 DEF Finished
  <2>2. ASSUME ~SessionClash(r) PROVE Goal
    <3>1. /\ db' = db /\ View(r)'.trace[s.trace] = m.row
          /\ View(r)'.session = d.session /\ Covering(View(r)')
      <4>1. CASE m.row # m.base
        <5>1. Hold(r, e)
          BY <1>8, <2>2, <4>1 DEF FindSession, d
        <5>2. /\ e.trace = [d.trace EXCEPT ![s.trace] = m.row]
              /\ e.session = d.session /\ e.spans = d.spans
          BY <1>b, <2>0, <2>r, WriteFreshTrace DEF Tables
        <5>3. e.trace[s.trace] = m.row
          BY <1>a, <1>b, <2>0, <5>2 DEF Tables
        <5> HIDE DEF e
        <5>4. Covering(e)
          BY <1>a, <1>b, <2>0, <2>r, <5>2, WidenedTrace
        <5>5. db' = db /\ View(r)' = e
          BY <1>e, <5>1
        <5> QED
          BY <5>2, <5>3, <5>4, <5>5
      <4>2. CASE m.row = m.base
        BY <1>8, <1>b, <1>d, <2>0, <2>2, <4>2 DEF FindSession
      <4> QED
        BY <4>1, <4>2
    <3>2. CASE row # NoRow
      <4>1. HaveSession(r, row)
        BY <1>8, <2>2, <3>2 DEF FindSession, d
      <4>2. row \in Interval
        BY <1>b, <2>k, <3>2 DEF Tables
      <4> QED
        BY <1>a, <1>t, <2>0, <2>2, <2>r, <3>1, <4>1, <4>2, HaveSessionUpToDate
    <3>3. CASE row = NoRow
      <4>1. /\ mem' = [mem EXCEPT ![r].base = m.row]
            /\ pc'[r] = "new_session" /\ at' = at
        BY <1>8, <1>t, <2>2, <3>3 DEF FindSession, Goto, TypeOK, d
      <4>2. mem'[r].row = m.row /\ mem'[r].base = m.row
        BY <1>t, <4>1 DEF TypeOK, OrmRows
      <4>3. Span(r)' = s /\ ~SessionClash(r)'
        BY <2>2, <4>1, <4>2 DEF Span, SessionClash
      <4>4. Covering(View(r))'
        BY <3>1 DEF Covering
      <4> QED
        BY <2>r, <3>1, <4>1, <4>2, <4>3, <4>4 DEF UpToDate, Covers
    <3> QED
      BY <3>2, <3>3
  <2> QED
    BY <1>8, <2>1, <2>2 DEF FindSession
<1>9. CASE NewSession(r)
  <2> DEFINE k == SessionKey(r)
             new == [start |-> m.row.start, end |-> m.row.end]
             e == [d EXCEPT !.session[k] = new]
  <2>0. /\ pc[r] \in Statements /\ s.session # NoSession /\ m.row \in TraceRow
        /\ m.row = d.trace[s.trace] /\ Covers(m.row, s) /\ ~SessionClash(r)
    BY <1>9, <1>t DEF NewSession, Statements, WithTrace, RowsInHand, UpToDate, d
  <2>k. k \in SessionKeys
    BY <1>a, <1>t, <2>0, KeyType
  <2>1. CASE d.session[k] = NoRow /\ Hold(r, e) /\ HaveSession(r, new)
    <3>1. new \in Interval
      BY <2>0 DEF TraceRow, Interval
    <3>2. HaveSession(r, new) /\ Hold(r, e)
      BY <2>1
    <3> HIDE DEF new, k
    <3>3. /\ e.trace = d.trace /\ e.spans = d.spans
          /\ e.session = [d.session EXCEPT ![k] = new]
      BY <1>b DEF Tables
    <3>4. e.session[k] = new /\ \A j \in SessionKeys \ {k} : e.session[j] = d.session[j]
      BY <1>b, <2>k, <3>3 DEF Tables
    <3> HIDE DEF e
    <3>5. Covering(e)
      <4> SUFFICES ASSUME NEW u \in e.spans
                   PROVE  LET row == e.trace[u.trace] IN
                          /\ Covers(row, u)
                          /\ u.session # NoSession =>
                               /\ row.session = u.session
                               /\ Covers(e.session[<<row.project, u.session>>], u)
        BY DEF Covering
      <4> DEFINE old == d.trace[u.trace]
                 j == <<old.project, u.session>>
      <4>1. /\ Covers(old, u)
            /\ u.session # NoSession => old.session = u.session /\ Covers(d.session[j], u)
        BY <1>b, <3>3 DEF Covering
      <4>2. u.trace \in Traces /\ u.session \in SessionIds \cup {NoSession}
        BY <1>b, <3>3, SpansAssumption DEF Tables, SpanRecords
      <4>3. old # NoRow /\ old \in TraceRow \cup {NoRow}
        BY <1>b, <4>1, <4>2 DEF Covers, Tables
      <4>4. u.session # NoSession => j \in SessionKeys /\ d.session[j] # NoRow
        BY <4>1, <4>2, <4>3 DEF SessionKeys, TraceRow, Covers
      <4> HIDE DEF j
      <4>5. u.session # NoSession => e.session[j] = d.session[j]
        BY <2>1, <3>4, <4>4 DEF k
      <4> QED
        BY <3>3, <4>1, <4>5 DEF j
    <3>6. db' = db /\ View(r)' = e
      BY <1>e, <3>2
    <3>7. /\ View(r)'.trace[s.trace] = m.row /\ View(r)'.session[SessionKey(r)] = new
          /\ Covering(View(r)')
      BY <2>0, <3>3, <3>4, <3>5, <3>6 DEF k
    <3>8. UpToDate(r)'
      BY <1>a, <1>t, <2>0, <3>1, <3>2, <3>7, HaveSessionUpToDate
    <3> QED
      BY <3>6, <3>8
  <2>2. CASE d.session[k] # NoRow /\ Hold(r, d) /\ HaveSession(r, d.session[k])
    <3>1. d.session[k] \in Interval
      BY <1>b, <2>2, <2>k DEF Tables
    <3> QED
      BY <1>a, <1>b, <1>e, <1>t, <2>0, <2>2, <3>1, HaveSessionUpToDate
  <2>3. CASE End(r, "failed")
    BY <1>c, <2>3 DEF Finished
  <2> QED
    BY <1>9, <2>1, <2>2, <2>3 DEF NewSession, d
<1>10. CASE AddSpan(r)
  <2> DEFINE k == SessionKey(r)
             sessions == IF s.session = NoSession THEN d.session
                         ELSE [d.session EXCEPT ![k] = WriteBounds(@, m.sbase, m.srow)]
             e == [d EXCEPT !.trace[s.trace] = WriteTrace(@, m.base, m.row),
                            !.session = sessions,
                            !.spans = @ \cup {s}]
  <2>0. /\ pc[r] = "add_span" /\ m.row \in TraceRow /\ m.base \in TraceRow
        /\ m.base = d.trace[s.trace] /\ m.row.project = m.base.project
        /\ s.session # NoSession =>
             m.sbase = d.session[k] /\ m.sbase \in Interval /\ m.srow \in Interval
    BY <1>10, <1>t DEF AddSpan, WithTrace, RowsInHand, UpToDate, d
  <2>1. CASE Hold(r, e) /\ Loop(r, at[r] + 1)
    <3>1. sessions = IF s.session = NoSession THEN d.session
                     ELSE [d.session EXCEPT ![k] = m.srow]
      BY <2>0, WriteFreshSession
    <3>2. Hold(r, e) /\ Loop(r, at[r] + 1)
      BY <2>1
    <3> HIDE DEF sessions
    <3>3. /\ e.trace = [d.trace EXCEPT ![s.trace] = m.row]
          /\ e.session = sessions /\ e.spans = d.spans \cup {s}
      BY <1>b, <2>0, WriteFreshTrace DEF Tables
    <3> HIDE DEF e
    <3>4. Covering(e)
      BY <2>0, <3>1, <3>3, AddedSpan DEF d
    <3> QED
      BY <1>e, <1>t, <3>2, <3>4, LoopUpToDate
  <2>2. CASE Hold(r, d) /\ Loop(r, at[r] + 1)
    BY <1>b, <1>e, <1>t, <2>2, LoopUpToDate
  <2>3. CASE End(r, "failed")
    BY <1>c, <2>3 DEF Finished
  <2> QED
    BY <1>10, <2>1, <2>2, <2>3 DEF AddSpan, d
<1>11. CASE Commit(r)
  <2>1. db' = d /\ View(r)' = d /\ pc'[r] = "reply"
    BY <1>11, <1>t, NoneAssumption DEF Commit, Goto, TypeOK, View, d
  <2> QED
    BY <1>b, <2>1, BetweenUpToDate DEF WithTrace
<1>12. CASE Reply(r)
  <2>1. UNCHANGED tables /\ pc'[r] \notin WithTrace
    BY <1>12, <1>t DEF Reply, Goto, TypeOK, WithTrace
  <2> QED
    BY <1>b, <1>d, <2>1, BetweenUpToDate
<1> QED
  BY <1>1, <1>2, <1>3, <1>4, <1>5, <1>6, <1>7, <1>8, <1>9, <1>10, <1>11, <1>12 DEF Step

-----------------------------------------------------------------------------
(* How many handlers are in flight *)

LEMMA AtMostOne ==
  ASSUME NEW S, IsFiniteSet(S), ~(Cardinality(S) > 1)
  PROVE  \A a, b \in S : a = b
<1> SUFFICES ASSUME NEW a \in S, NEW b \in S, a # b PROVE FALSE
  OBVIOUS
<1>1. IsFiniteSet({a}) /\ Cardinality({a}) = 1
  BY FS_Singleton
<1>2. IsFiniteSet({a} \cup {b}) /\ Cardinality({a} \cup {b}) = Cardinality({a}) + 1
  <2>1. b \notin {a}
    OBVIOUS
  <2> QED
    BY <1>1, <2>1, FS_AddElement
<1>3. Cardinality({a} \cup {b}) <= Cardinality(S)
  BY FS_Subset
<1> QED
  BY <1>1, <1>2, <1>3, FS_CardinalityType

\* A step of r moves r only.
LEMMA StepMovesOne ==
  ASSUME TInv, NEW r \in Requests, Step(r)
  PROVE  pc[r] \in Running /\ \A q \in Requests \ {r} : pc'[q] = pc[q]
<1>1. pc \in [Requests -> PCs]
  BY DEF TInv, TypeOK
<1>2. pc[r] \in Running /\ \E label : pc' = [pc EXCEPT ![r] = label]
  BY StepKinds DEF StaysInSpan, NextSpan, GivesUp, Starts, Commit, Reply, Loop, End, Goto,
     Running
<1> QED
  BY <1>1, <1>2

LEMMA InFlightFinite ==
  ASSUME TInv, IsFiniteSet(InFlight), [Next]_vars
  PROVE  IsFiniteSet(InFlight')
<1>t. pc \in [Requests -> PCs]
  BY DEF TInv, TypeOK
<1>1. ASSUME NEW r \in Requests, \A q \in Requests \ {r} : pc'[q] = pc[q]
      PROVE  IsFiniteSet(InFlight')
  <2>1. IsFiniteSet(InFlight \cup {r})
    BY FS_AddElement
  <2>2. InFlight' \subseteq InFlight \cup {r}
    BY <1>1 DEF InFlight
  <2> QED
    BY <2>1, <2>2, FS_Subset
<1>2. ASSUME pc' = pc PROVE IsFiniteSet(InFlight')
  BY <1>2 DEF InFlight
<1>3. ASSUME NEW r \in Requests, Send(r) \/ LockTimeout(r) PROVE IsFiniteSet(InFlight')
  BY <1>1, <1>3, <1>t DEF Send, LockTimeout, End
<1>4. CASE Crash
  <2>1. InFlight' = {}
    BY <1>4, <1>t DEF Crash, InFlight, Running, Statements
  <2> QED
    BY <2>1, FS_EmptySet
<1> QED
  BY <1>1, <1>2, <1>3, <1>4, StepMovesOne
  DEF Next, ReadTrace, ReadSpans, Quiet, vars, ingest

-----------------------------------------------------------------------------
(* Rows cover their spans as long as no two handlers overlap *)

LEMMA NothingMoves ==
  ASSUME UNCHANGED <<tables, ingest>>
  PROVE  InFlight' = InFlight /\ db' = db /\ \A r \in Requests : UpToDate(r) => UpToDate(r)'
<1>1. UNCHANGED <<db, writer, work, pc, at, mem>>
  BY DEF tables, ingest
<1>2. \A r \in Requests : View(r)' = View(r) /\ Span(r)' = Span(r)
  BY <1>1 DEF View, Span
<1>3. \A r \in Requests : SessionKey(r)' = SessionKey(r) /\ SessionClash(r)' = SessionClash(r)
  BY <1>1, <1>2 DEF SessionKey, SessionClash
<1>4. \A r \in Requests : Covering(View(r)) => Covering(View(r))'
  BY <1>2 DEF Covering
<1>5. ASSUME NEW r \in Requests, UpToDate(r) PROVE UpToDate(r)'
  BY <1>1, <1>2, <1>3, <1>4, <1>5 DEF UpToDate, Covers
<1> QED
  BY <1>1, <1>5 DEF InFlight

LEMMA NextSerial ==
  ASSUME SInv, SerialInv, [RaceNext]_RaceVars
  PROVE  SerialInv'
<1>t. TInv /\ TypeOK /\ pc \in [Requests -> PCs] /\ OwnWork
  BY DEF SInv, TInv, TypeOK
<1>n. [Next]_vars
  BY DEF RaceNext, RaceVars
<1>f. IsFiniteSet(InFlight')
  BY <1>n, <1>t, InFlightFinite DEF SerialInv
<1> SUFFICES ASSUME ~overlapped'
             PROVE  /\ \A r, q \in InFlight' : r = q
                    /\ Covering(db')
                    /\ \A r \in InFlight' : UpToDate(r)'
  <2>1. Covering(db') => Covering(db)'
    BY DEF Covering
  <2> QED
    BY <1>f, <2>1 DEF SerialInv
<1>o. /\ ~overlapped
      /\ \A r, q \in InFlight : r = q
      /\ Covering(db)
      /\ \A r \in InFlight : UpToDate(r)
  <2>1. ~overlapped
    BY DEF RaceNext, RaceVars
  <2> QED
    BY <2>1 DEF SerialInv
<1>u. ASSUME UNCHANGED <<tables, ingest>>
      PROVE  /\ \A r, q \in InFlight' : r = q
             /\ Covering(db') /\ \A r \in InFlight' : UpToDate(r)'
  <2>1. \A r \in InFlight : r \in Requests
    BY DEF InFlight
  <2> QED
    BY <1>o, <1>u, <2>1, NothingMoves
<1>1. CASE UNCHANGED RaceVars
  BY <1>1, <1>u DEF RaceVars, vars, tables, ingest
<1>2. CASE RaceNext
  <2>1. Next /\ \A r, q \in InFlight' : r = q
    BY <1>2, <1>f, AtMostOne DEF RaceNext
  <2>2. ASSUME NEW r \in Requests, Step(r)
        PROVE  Covering(db') /\ \A q \in InFlight' : UpToDate(q)'
    <3>1. r \in InFlight /\ \A q \in Requests \ {r} : pc'[q] = pc[q]
      BY <1>t, <2>2, StepMovesOne DEF InFlight
    <3>2. InFlight' \subseteq {r}
      BY <1>o, <3>1 DEF InFlight
    <3>3. Covering(db') /\ (pc'[r] \in Running => UpToDate(r)')
      BY <1>o, <1>t, <2>2, <3>1, StepUpToDate
    <3> QED
      BY <3>2, <3>3 DEF InFlight
  <2>3. ASSUME NEW r \in Requests, LockTimeout(r)
        PROVE  Covering(db') /\ \A q \in InFlight' : UpToDate(q)'
    <3>1. /\ db' = db /\ pc[r] \in Running /\ pc'[r] \notin Running
          /\ \A q \in Requests \ {r} : pc'[q] = pc[q]
      BY <1>t, <2>3 DEF LockTimeout, End, Running, Statements
    <3>2. InFlight' = {}
      BY <1>o, <3>1 DEF InFlight
    <3> QED
      BY <1>o, <3>1, <3>2
  <2>4. ASSUME NEW r \in Requests, Send(r)
        PROVE  Covering(db') /\ \A q \in InFlight' : UpToDate(q)'
    <3>1. /\ UNCHANGED <<db, writer, work>> /\ pc[r] \in {"idle", "failed", "lost"}
          /\ pc'[r] = "received"
      BY <1>t, <2>4 DEF Send, tables
    <3>2. InFlight' \subseteq {r}
      BY <2>1, <3>1 DEF InFlight, Running
    <3>3. writer # r
      BY <1>t, <3>1 DEF OwnWork, Statements
    <3>4. View(r)' = db
      BY <3>1, <3>3 DEF View
    <3> QED
      BY <1>o, <3>1, <3>2, <3>4, BetweenUpToDate DEF WithTrace
  <2>5. CASE Crash
    <3>1. InFlight' = {} /\ db' = db
      BY <1>t, <2>5 DEF Crash, InFlight, Running, Statements
    <3> QED
      BY <1>o, <3>1
  <2>6. ASSUME NEW q \in Readers, ReadTrace(q) \/ ReadSpans(q) PROVE UNCHANGED <<tables, ingest>>
    BY <2>6 DEF ReadTrace, ReadSpans
  <2>7. CASE Quiet
    BY <1>u, <2>7 DEF Quiet, vars, tables, ingest
  <2> QED
    BY <1>u, <2>1, <2>2, <2>3, <2>4, <2>5, <2>6, <2>7 DEF Next
<1> QED
  BY <1>1, <1>2

LEMMA InitSerial == RaceInit => SerialInv
<1> SUFFICES ASSUME RaceInit PROVE SerialInv
  OBVIOUS
<1>1. InFlight = {}
  BY DEF RaceInit, Init, InFlight, Running, Statements
<1>2. Covering(db)
  BY DEF RaceInit, Init, EmptyTables, Covering
<1> QED
  BY <1>1, <1>2, FS_EmptySet DEF SerialInv

\* As long as handlers run one at a time, retries, lock timeouts and crashes included,
\* trace and session rows cover their spans and a trace has spans of one session.
THEOREM SerialRowsAlwaysCover == RaceSpec => []SerialRowsCover
<1>1. RaceInit => Init
  BY DEF RaceInit
<1>2. [RaceNext]_RaceVars => [Next]_vars
  BY DEF RaceNext, RaceVars
<1>3. RaceInit => SerialInv
  BY InitSerial
<1>4. SInv /\ SerialInv /\ [RaceNext]_RaceVars => SerialInv'
  BY NextSerial
<1>5. SerialInv => SerialRowsCover
  <2> SUFFICES ASSUME SerialInv, ~overlapped
               PROVE  TraceCoversSpans /\ SessionCoversSpans /\ OneSessionPerTrace
    BY DEF SerialRowsCover
  <2>1. Covering(db)
    BY DEF SerialInv
  <2> QED
    BY <2>1 DEF Covering, Covers, TraceCoversSpans, SessionCoversSpans, OneSessionPerTrace
<1> QED
  BY <1>1, <1>2, <1>3, <1>4, <1>5, AlwaysSInv, PTL DEF RaceSpec, Spec
=============================================================================
