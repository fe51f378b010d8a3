----------------------- MODULE AnveshaFrontend_proofs -----------------------
(***************************************************************************)
(* Proofs about AnveshaFrontend: what a page shows has its project, and    *)
(* while handlers do not overlap and no fetch fails it is the selection.   *)
(***************************************************************************)
EXTENDS AnveshaFrontend, FiniteSetTheorems, TLAPS

Awaits(k) == tasks[k] # Nothing
AwaitsA(what, k) == Awaits(k) /\ tasks[k].what = what
Awaiting == {k \in Tasks : Awaits(k)}

\* A handler that awaits a list of traces asked for a project, one that awaits
\* a trace for a trace.
FetchesFit ==
  \A k \in Tasks :
    /\ AwaitsA("traces", k) => tasks[k].arg \in Names
    /\ AwaitsA("trace", k) => tasks[k].arg \in Traces

\* The page, the selected trace and every fetch below the project list need
\* that a project has been selected.
NeedsProject ==
  \/ view \in {"project", "trace"}
  \/ selectedTrace # Nothing
  \/ \E k \in Tasks : AwaitsA("traces", k) \/ AwaitsA("trace", k)

PageInv == TypeOK /\ FetchesFit /\ (NeedsProject => selectedProject # Nothing)

OneLoads == \A j, k \in Tasks : Awaits(j) /\ Awaits(k) => j = k

\* A list under way is the selected project's and no trace is selected; without
\* one the list that is stored and rendered is the selected project's.
ListFits ==
  /\ \A k \in Tasks :
       AwaitsA("traces", k) => tasks[k].arg = selectedProject /\ selectedTrace = Nothing
  /\ (\A k \in Tasks : ~AwaitsA("traces", k)) =>
       /\ traces = selectedProject
       /\ table = [heading |-> selectedProject, list |-> selectedProject]

\* A trace selected or under way is of the selected project; without one under
\* way the trace page shows the selected one.
TraceFits ==
  /\ selectedTrace # Nothing => HomeOf[selectedTrace] = selectedProject
  /\ \A k \in Tasks : AwaitsA("trace", k) => HomeOf[tasks[k].arg] = selectedProject
  /\ view = "trace" /\ (\A k \in Tasks : ~AwaitsA("trace", k)) =>
       /\ selectedTrace # Nothing
       /\ detail = [project |-> selectedProject, trace |-> selectedTrace]

\* With nothing under way the badge says so.
BadgeFits == (\A k \in Tasks : ~Awaits(k)) => badge = "live"

SmoothInv == smooth => OneLoads /\ BadgeFits /\ ListFits /\ TraceFits

FrontInv == PageInv /\ IsFiniteSet(Awaiting) /\ SmoothInv

-----------------------------------------------------------------------------
(* Fetches and the tasks that await them *)

LEMMA FetchOfProjects ==
  ASSUME NEW from \in Bases
  PROVE  /\ Fetch("projects", from, Nothing, TRUE) \in Fetches
         /\ Fetch("projects", from, Nothing, TRUE) # Nothing
         /\ Fetch("projects", from, Nothing, TRUE).what = "projects"
         /\ Fetch("projects", from, Nothing, TRUE).arg = Nothing
<1>1. Fetch("projects", from, Nothing, TRUE) \in Fetches
  BY DEF Fetch, Fetches
<1>q. QED
  BY <1>1, NoFetchAssumption DEF Fetch

LEMMA FetchOfTraces ==
  ASSUME NEW from \in Bases, NEW p \in Names, NEW refresh \in BOOLEAN
  PROVE  /\ Fetch("traces", from, p, refresh) \in Fetches
         /\ Fetch("traces", from, p, refresh) # Nothing
         /\ Fetch("traces", from, p, refresh).what = "traces"
         /\ Fetch("traces", from, p, refresh).arg = p
<1>1. Fetch("traces", from, p, refresh) \in Fetches
  BY DEF Fetch, Fetches
<1>q. QED
  BY <1>1, NoFetchAssumption DEF Fetch

LEMMA FetchOfTrace ==
  ASSUME NEW from \in Bases, NEW t \in Traces, NEW refresh \in BOOLEAN
  PROVE  /\ Fetch("trace", from, t, refresh) \in Fetches
         /\ Fetch("trace", from, t, refresh) # Nothing
         /\ Fetch("trace", from, t, refresh).what = "trace"
         /\ Fetch("trace", from, t, refresh).arg = t
<1>1. Fetch("trace", from, t, refresh) \in Fetches
  BY DEF Fetch, Fetches
<1>q. QED
  BY <1>1, NoFetchAssumption DEF Fetch

LEMMA AwaitedIsFetch ==
  ASSUME TypeOK, NEW k \in Tasks, Awaits(k)
  PROVE  /\ tasks[k] \in Fetches
         /\ tasks[k].what \in {"projects", "traces", "trace"} /\ tasks[k].base \in Bases
         /\ tasks[k].arg \in Names \cup Traces \cup {Nothing} /\ tasks[k].refresh \in BOOLEAN
<1>1. tasks[k] \in Fetches
  BY DEF TypeOK, Awaits
<1>q. QED
  BY <1>1 DEF Fetches

\* Await and Done change one task.
LEMMA OneTaskChanges ==
  ASSUME TypeOK, NEW k \in Tasks, NEW next \in Fetches \cup {Nothing},
         tasks' = [tasks EXCEPT ![k] = next]
  PROVE  /\ tasks' \in [Tasks -> Fetches \cup {Nothing}]
         /\ tasks'[k] = next
         /\ \A j \in Tasks : j # k => tasks'[j] = tasks[j]
BY DEF TypeOK

LEMMA AwaitingStaysFinite ==
  ASSUME TypeOK, IsFiniteSet(Awaiting), Next
  PROVE  IsFiniteSet(Awaiting')
<1>1. \A k \in Tasks : Awaiting' \subseteq Awaiting \cup {k} => IsFiniteSet(Awaiting')
  <2>1. \A k \in Tasks : IsFiniteSet(Awaiting \cup {k})
    BY FS_AddElement
  <2>q. QED
    BY <2>1, FS_Subset
<1>2. tasks' = tasks \/ \E k \in Tasks : \E next : tasks' = [tasks EXCEPT ![k] = next]
  <2>1. CASE User
    BY <2>1 DEF User, ClickProject, OpenProject, ClickTrace, OpenTrace, Refresh, Connect,
                Await, Back, Search
  <2>2. CASE \E k \in Tasks : Arrive(k)
    BY <2>2 DEF Arrive, ArriveProjects, ArriveTraces, ArriveTrace, ReopenTrace, OpenProject,
                OpenTrace, Await, Done
  <2>3. CASE \E k \in Tasks : Fail(k)
    BY <2>3 DEF Fail
  <2>4. CASE Still
    BY <2>4 DEF Still, vars
  <2>q. QED
    BY <2>1, <2>2, <2>3, <2>4 DEF Next
<1>3. CASE tasks' = tasks
  BY <1>3 DEF Awaiting, Awaits
<1>4. ASSUME NEW k \in Tasks, NEW next, tasks' = [tasks EXCEPT ![k] = next]
      PROVE  Awaiting' \subseteq Awaiting \cup {k}
  BY <1>4 DEF Awaiting, Awaits, TypeOK
<1>q. QED
  BY <1>1, <1>2, <1>3, <1>4

\* A step that stays smooth leaves at most one handler waiting.
LEMMA SmoothStepsOneLoads ==
  ASSUME IsFiniteSet(Awaiting'), OneAwaits
  PROVE  OneLoads'
<1>1. SUFFICES ASSUME NEW j \in Tasks, NEW k \in Tasks, Awaits(j)', Awaits(k)', j # k
               PROVE  FALSE
  BY DEF OneLoads
<1>2. {j, k} \subseteq Awaiting'
  BY <1>1 DEF Awaiting
<1>3. IsFiniteSet({j}) /\ Cardinality({j}) = 1
  BY FS_Singleton
<1>4. Cardinality({j} \cup {k}) = Cardinality({j}) + 1
  <2>1. k \notin {j}
    BY <1>1
  <2>q. QED
    BY <1>3, <2>1, FS_AddElement
<1>5. {j, k} = {j} \cup {k}
  OBVIOUS
<1>6. /\ Cardinality({j, k}) \in Nat /\ Cardinality(Awaiting') \in Nat
      /\ Cardinality({j, k}) <= Cardinality(Awaiting')
  BY <1>2, FS_Subset, FS_CardinalityType
<1>7. Cardinality(Awaiting') <= 1
  BY DEF OneAwaits, Awaiting, Awaits
<1>q. QED
  BY <1>3, <1>4, <1>5, <1>6, <1>7

-----------------------------------------------------------------------------
(* PageInv: what holds in any order of clicks and answers *)

LEMMA PageInvInit == Init => PageInv
<1>1. SUFFICES ASSUME Init PROVE PageInv
  OBVIOUS
<1>2. PICK k \in Tasks :
        tasks = [j \in Tasks |->
          IF j = k THEN Fetch("projects", base, Nothing, TRUE) ELSE Nothing]
  BY <1>1 DEF Init
<1>3. /\ Fetch("projects", base, Nothing, TRUE) \in Fetches
      /\ Fetch("projects", base, Nothing, TRUE).what = "projects"
  BY <1>1, FetchOfProjects DEF Init
<1>4. TypeOK
  <2>1. tasks \in [Tasks -> Fetches \cup {Nothing}]
    BY <1>2, <1>3
  <2>2. clicks \in 0 .. MaxClicks
    BY <1>1, ClicksAssumption DEF Init
  <2>q. QED
    BY <1>1, <2>1, <2>2 DEF Init, TypeOK
<1>5. \A j \in Tasks : ~AwaitsA("traces", j) /\ ~AwaitsA("trace", j)
  BY <1>2, <1>3 DEF AwaitsA, Awaits
<1>6. FetchesFit
  BY <1>5 DEF FetchesFit
<1>7. ~NeedsProject
  BY <1>1, <1>5 DEF Init, NeedsProject
<1>q. QED
  BY <1>4, <1>6, <1>7 DEF PageInv

\* What becomes of the invariant's parts about tasks when one task changes.
LEMMA TaskKeepsPage ==
  ASSUME PageInv, NEW k \in Tasks, NEW next \in Fetches \cup {Nothing},
         tasks' = [tasks EXCEPT ![k] = next],
         next # Nothing =>
           /\ next.what = "traces" => next.arg \in Names
           /\ next.what = "trace" => next.arg \in Traces
           /\ next.what \in {"traces", "trace"} => selectedProject' # Nothing,
         view' \in {"project", "trace"} \/ selectedTrace' # Nothing =>
           selectedProject' # Nothing,
         selectedProject' = Nothing => selectedProject = Nothing
  PROVE  /\ tasks' \in [Tasks -> Fetches \cup {Nothing}]
         /\ FetchesFit'
         /\ NeedsProject' => selectedProject' # Nothing
<1>1. /\ tasks' \in [Tasks -> Fetches \cup {Nothing}]
      /\ tasks'[k] = next
      /\ \A j \in Tasks : j # k => tasks'[j] = tasks[j]
  BY OneTaskChanges DEF PageInv
<1>2. \A j \in Tasks, what \in {"traces", "trace"} :
        AwaitsA(what, j)' =>
          \/ j # k /\ AwaitsA(what, j) /\ tasks'[j] = tasks[j]
          \/ j = k /\ next # Nothing /\ next.what = what
  BY <1>1 DEF AwaitsA, Awaits
<1>3. FetchesFit'
  BY <1>1, <1>2 DEF FetchesFit, PageInv
<1>4. ASSUME NEW j \in Tasks, AwaitsA("traces", j)' \/ AwaitsA("trace", j)'
      PROVE  selectedProject' # Nothing
  BY <1>2, <1>4 DEF PageInv, NeedsProject
<1>q. QED
  BY <1>1, <1>3, <1>4 DEF NeedsProject

LEMMA UserKeepsPage ==
  ASSUME PageInv, User
  PROVE  PageInv'
<1>t. TypeOK
  BY DEF PageInv
<1>c. Click => clicks' \in 0 .. MaxClicks
  BY <1>t, ClicksAssumption DEF Click, TypeOK
<1>1. ASSUME NEW k \in Tasks, ClickProject(k) PROVE PageInv'
  <2>1. PICK p \in cards : OpenProject(k, p, FALSE)
    BY <1>1 DEF ClickProject
  <2>2. p \in Names /\ p # Nothing
    BY <1>t, NothingAssumption DEF TypeOK
  <2> DEFINE next == Fetch("traces", base, p, FALSE)
  <2>3. next \in Fetches /\ next # Nothing /\ next.what = "traces" /\ next.arg = p
    BY <1>t, <2>2, FetchOfTraces DEF TypeOK
  <2>4. /\ tasks' = [tasks EXCEPT ![k] = next] /\ badge' = "loading"
        /\ selectedProject' = p /\ selectedTrace' = Nothing /\ view' = "project"
    BY <2>1 DEF OpenProject, Await
  <2> HIDE DEF next
  <2>5. /\ tasks' \in [Tasks -> Fetches \cup {Nothing}]
        /\ FetchesFit' /\ (NeedsProject' => selectedProject' # Nothing)
    BY <2>2, <2>3, <2>4, TaskKeepsPage
  <2>6. TypeOK'
    BY <1>t, <1>c, <1>1, <2>2, <2>4, <2>5 DEF TypeOK, ClickProject
  <2>q. QED
    BY <2>5, <2>6 DEF PageInv
<1>2. ASSUME NEW k \in Tasks, ClickTrace(k) PROVE PageInv'
  <2>1. PICK t \in Traces : OpenTrace(k, t, FALSE)
    BY <1>2 DEF ClickTrace
  <2> DEFINE next == Fetch("trace", base, t, FALSE)
  <2>3. next \in Fetches /\ next # Nothing /\ next.what = "trace" /\ next.arg = t
    BY <1>t, FetchOfTrace DEF TypeOK
  <2>4. /\ tasks' = [tasks EXCEPT ![k] = next] /\ badge' = "loading" /\ view' = "trace"
        /\ selectedProject' = selectedProject /\ selectedTrace' = selectedTrace
    BY <1>2, <2>1 DEF OpenTrace, Await, ClickTrace
  <2>s. selectedProject # Nothing
    BY <1>2 DEF ClickTrace, PageInv, NeedsProject
  <2> HIDE DEF next
  <2>5. /\ tasks' \in [Tasks -> Fetches \cup {Nothing}]
        /\ FetchesFit' /\ (NeedsProject' => selectedProject' # Nothing)
    BY <2>3, <2>4, <2>s, TaskKeepsPage
  <2>6. TypeOK'
    BY <1>t, <1>c, <1>2, <2>4, <2>5 DEF TypeOK, ClickTrace
  <2>q. QED
    BY <2>5, <2>6 DEF PageInv
<1>3. ASSUME NEW k \in Tasks, Refresh(k) \/ Connect(k) PROVE PageInv'
  <2>1. PICK from \in Bases :
          /\ base' = from /\ tasks' = [tasks EXCEPT ![k] = Fetch("projects", from, Nothing, TRUE)]
          /\ badge' = "loading"
    BY <1>t, <1>3 DEF Refresh, Connect, Await, page, TypeOK
  <2> DEFINE next == Fetch("projects", from, Nothing, TRUE)
  <2>2. next \in Fetches /\ next # Nothing /\ next.what = "projects"
    BY FetchOfProjects
  <2>3. UNCHANGED <<view, projects, cards, selectedProject, selectedTrace, traces, table, detail>>
    BY <1>3 DEF Refresh, Connect, page
  <2>4. tasks' = [tasks EXCEPT ![k] = next]
    BY <2>1
  <2> HIDE DEF next
  <2>5. /\ tasks' \in [Tasks -> Fetches \cup {Nothing}]
        /\ FetchesFit' /\ (NeedsProject' => selectedProject' # Nothing)
    <3>1. view' \in {"project", "trace"} \/ selectedTrace' # Nothing => selectedProject' # Nothing
      BY <2>3 DEF PageInv, NeedsProject
    <3>q. QED
      BY <2>2, <2>3, <2>4, <3>1, TaskKeepsPage
  <2>6. TypeOK'
    BY <1>t, <1>c, <1>3, <2>1, <2>3, <2>5 DEF TypeOK, Refresh, Connect
  <2>q. QED
    BY <2>5, <2>6 DEF PageInv
<1>4. ASSUME Back \/ Search PROVE PageInv'
  <2>1. /\ UNCHANGED <<base, projects, selectedProject, selectedTrace, traces, badge, tasks>>
        /\ Click
        /\ view' \in {"projects", "project", "trace"}
        /\ view' # view => view \in {"project", "trace"}
    BY <1>t, <1>4 DEF Back, Search, TypeOK
  <2>2. FetchesFit'
    BY <2>1 DEF FetchesFit, AwaitsA, Awaits, PageInv
  <2>3. NeedsProject' => selectedProject' # Nothing
    BY <2>1 DEF NeedsProject, AwaitsA, Awaits, PageInv
  <2>4. /\ cards' \subseteq projects'
        /\ table' \in [heading: Names \cup {Nothing}, list: Names \cup {Nothing}]
        /\ detail' \in [project: Names \cup {Nothing}, trace: Traces \cup {Nothing}]
    BY <1>t, <1>4, <2>1 DEF TypeOK, Back, Search
  <2>q. QED
    BY <1>t, <1>c, <2>1, <2>2, <2>3, <2>4 DEF PageInv, TypeOK
<1>q. QED
  BY <1>1, <1>2, <1>3, <1>4 DEF User

\* refreshCurrentView's last step opens a trace that is already selected, so its
\* project is, too.
LEMMA ReopenKeepsPage ==
  ASSUME PageInv, NEW k \in Tasks, ReopenTrace(k),
         selectedProject' = selectedProject, selectedTrace' = selectedTrace
  PROVE  /\ tasks' \in [Tasks -> Fetches \cup {Nothing}]
         /\ FetchesFit' /\ (NeedsProject' => selectedProject' # Nothing)
         /\ view' \in {"projects", "project", "trace"} /\ badge' \in {"loading", "live"}
<1>t. TypeOK
  BY DEF PageInv
<1>1. CASE selectedTrace # Nothing
  <2> DEFINE next == Fetch("trace", base, selectedTrace, TRUE)
  <2>1. selectedTrace \in Traces /\ selectedProject # Nothing
    BY <1>1, <1>t DEF TypeOK, PageInv, NeedsProject
  <2>2. next \in Fetches /\ next # Nothing /\ next.what = "trace" /\ next.arg = selectedTrace
    BY <1>t, <2>1, FetchOfTrace DEF TypeOK
  <2>3. tasks' = [tasks EXCEPT ![k] = next] /\ badge' = "loading" /\ view' = "trace"
    BY <1>1 DEF ReopenTrace, OpenTrace, Await
  <2> HIDE DEF next
  <2>q. QED
    BY <2>1, <2>2, <2>3, TaskKeepsPage
<1>2. CASE selectedTrace = Nothing
  <2>1. tasks' = [tasks EXCEPT ![k] = Nothing] /\ badge' = "live" /\ view' = view
    BY <1>2 DEF ReopenTrace, Done
  <2>2. view' \in {"project", "trace"} \/ selectedTrace' # Nothing => selectedProject' # Nothing
    BY <2>1 DEF PageInv, NeedsProject
  <2>q. QED
    BY <1>t, <2>1, <2>2, TaskKeepsPage DEF TypeOK
<1>q. QED
  BY <1>1, <1>2

LEMMA DoneKeepsPage ==
  ASSUME PageInv, NEW k \in Tasks, tasks' = [tasks EXCEPT ![k] = Nothing],
         selectedProject' = selectedProject, view' = view,
         selectedTrace' # Nothing => selectedProject # Nothing
  PROVE  /\ tasks' \in [Tasks -> Fetches \cup {Nothing}]
         /\ FetchesFit' /\ (NeedsProject' => selectedProject' # Nothing)
<1>1. view' \in {"project", "trace"} \/ selectedTrace' # Nothing => selectedProject' # Nothing
  BY DEF PageInv, NeedsProject
<1>q. QED
  BY <1>1, TaskKeepsPage

LEMMA ArriveKeepsPage ==
  ASSUME PageInv, NEW k \in Tasks, Arrive(k) \/ Fail(k)
  PROVE  PageInv'
<1>t. TypeOK
  BY DEF PageInv
<1>k. Awaits(k)
  BY DEF Arrive, ArriveProjects, ArriveTraces, ArriveTrace, Fail, Free, Awaits
<1>f. /\ tasks[k].what \in {"projects", "traces", "trace"} /\ tasks[k].base \in Bases
      /\ tasks[k].arg \in Names \cup Traces \cup {Nothing}
  BY <1>t, <1>k, AwaitedIsFetch
<1>1. ASSUME ArriveProjects(k) PROVE PageInv'
  <2>1. projects' \subseteq Names /\ cards' = projects'
    BY <1>1, <1>f, BackendAssumption DEF ArriveProjects
  <2>2. UNCHANGED <<base, traces, table, detail, clicks>>
    BY <1>1 DEF ArriveProjects
  <2>3. CASE selectedProject \in projects'
    <3> DEFINE next == Fetch("traces", base, selectedProject, TRUE)
    <3>1. selectedProject \in Names /\ selectedProject # Nothing
      BY <2>1, <2>3, NothingAssumption
    <3>2. next \in Fetches /\ next # Nothing /\ next.what = "traces" /\ next.arg = selectedProject
      BY <1>t, <3>1, FetchOfTraces DEF TypeOK
    <3>3. /\ tasks' = [tasks EXCEPT ![k] = next] /\ badge' = "loading" /\ view' = "project"
          /\ selectedProject' = selectedProject /\ selectedTrace' = Nothing
      BY <1>1, <2>3 DEF ArriveProjects, OpenProject, Await
    <3> HIDE DEF next
    <3>4. /\ tasks' \in [Tasks -> Fetches \cup {Nothing}]
          /\ FetchesFit' /\ (NeedsProject' => selectedProject' # Nothing)
      BY <3>1, <3>2, <3>3, TaskKeepsPage
    <3>q. QED
      BY <1>t, <2>1, <2>2, <3>1, <3>3, <3>4 DEF PageInv, TypeOK
  <2>4. CASE selectedProject \notin projects'
    <3>1. ReopenTrace(k) /\ UNCHANGED <<selectedProject, selectedTrace>>
      BY <1>1, <2>4 DEF ArriveProjects
    <3>2. /\ tasks' \in [Tasks -> Fetches \cup {Nothing}]
          /\ FetchesFit' /\ (NeedsProject' => selectedProject' # Nothing)
          /\ view' \in {"projects", "project", "trace"} /\ badge' \in {"loading", "live"}
      BY <3>1, ReopenKeepsPage
    <3>q. QED
      BY <1>t, <2>1, <2>2, <3>1, <3>2 DEF PageInv, TypeOK
  <2>q. QED
    BY <2>3, <2>4
<1>2. ASSUME ArriveTraces(k) PROVE PageInv'
  <2>1. UNCHANGED <<base, projects, cards, selectedProject, selectedTrace, detail, clicks>>
    BY <1>2 DEF ArriveTraces
  <2>2. tasks[k].arg \in Names
    BY <1>2, <1>k DEF ArriveTraces, PageInv, FetchesFit, AwaitsA
  <2>3. /\ traces' \in Names \cup {Nothing}
        /\ table' \in [heading: Names \cup {Nothing}, list: Names \cup {Nothing}]
    BY <1>t, <1>2, <2>2 DEF ArriveTraces, TypeOK
  <2>4. /\ tasks' \in [Tasks -> Fetches \cup {Nothing}]
        /\ FetchesFit' /\ (NeedsProject' => selectedProject' # Nothing)
        /\ view' \in {"projects", "project", "trace"} /\ badge' \in {"loading", "live"}
    <3>1. CASE ReopenTrace(k)
      BY <2>1, <3>1, ReopenKeepsPage
    <3>2. CASE Done(k) /\ UNCHANGED view
      <4>1. selectedTrace' # Nothing => selectedProject # Nothing
        BY <2>1 DEF PageInv, NeedsProject
      <4>q. QED
        BY <1>t, <2>1, <3>2, <4>1, DoneKeepsPage DEF Done, TypeOK
    <3>q. QED
      BY <1>2, <3>1, <3>2 DEF ArriveTraces
  <2>q. QED
    BY <1>t, <2>1, <2>3, <2>4 DEF PageInv, TypeOK
<1>3. ASSUME ArriveTrace(k) PROVE PageInv'
  <2>1. /\ UNCHANGED <<base, view, projects, cards, selectedProject, traces, table, clicks>>
        /\ selectedTrace' = tasks[k].arg /\ badge' = "live"
        /\ tasks' = [tasks EXCEPT ![k] = Nothing]
        /\ detail' = [project |-> selectedProject, trace |-> tasks[k].arg]
    BY <1>3 DEF ArriveTrace, Done
  <2>2. AwaitsA("trace", k)
    BY <1>3, <1>k DEF ArriveTrace, AwaitsA
  <2>3. tasks[k].arg \in Traces /\ selectedProject # Nothing
    BY <2>2 DEF PageInv, FetchesFit, NeedsProject
  <2>4. /\ tasks' \in [Tasks -> Fetches \cup {Nothing}]
        /\ FetchesFit' /\ (NeedsProject' => selectedProject' # Nothing)
    BY <2>1, <2>3, DoneKeepsPage
  <2>q. QED
    BY <1>t, <2>1, <2>3, <2>4 DEF PageInv, TypeOK
<1>4. ASSUME Fail(k) PROVE PageInv'
  <2>1. /\ UNCHANGED <<base, view, projects, selectedProject, selectedTrace, traces,
                       table, detail, clicks>>
        /\ tasks' = [tasks EXCEPT ![k] = Nothing]
        /\ badge' \in {badge, "error"} /\ (cards' = cards \/ cards' = {})
    BY <1>4 DEF Fail
  <2>2. selectedTrace' # Nothing => selectedProject # Nothing
    BY <2>1 DEF PageInv, NeedsProject
  <2>3. /\ tasks' \in [Tasks -> Fetches \cup {Nothing}]
        /\ FetchesFit' /\ (NeedsProject' => selectedProject' # Nothing)
    BY <2>1, <2>2, DoneKeepsPage
  <2>q. QED
    BY <1>t, <2>1, <2>3 DEF PageInv, TypeOK
<1>q. QED
  BY <1>1, <1>2, <1>3, <1>4 DEF Arrive

LEMMA PageInvNext == PageInv /\ [Next]_vars => PageInv'
<1>1. ASSUME PageInv, UNCHANGED vars PROVE PageInv'
  BY <1>1 DEF PageInv, TypeOK, FetchesFit, NeedsProject, AwaitsA, Awaits, vars, page
<1>q. QED
  BY <1>1, UserKeepsPage, ArriveKeepsPage DEF Next, Still

\* No order of answers brings up a project or trace page without a project.
THEOREM PageAlwaysHasProject == Spec => []PageHasProject
<1>1. PageInv => PageHasProject
  BY DEF PageInv, PageHasProject, NeedsProject
<1>q. QED
  BY <1>1, PageInvInit, PageInvNext, PTL DEF Spec

-----------------------------------------------------------------------------
(* SmoothInv: what holds while handlers take turns and no fetch fails *)

\* A handler that is left waiting alone has found nobody waiting.
LEMMA LoadsAlone ==
  ASSUME TypeOK, OneLoads', NEW k \in Tasks, Free(k), NEW next \in Fetches,
         tasks' = [tasks EXCEPT ![k] = next]
  PROVE  /\ tasks'[k] = next /\ Awaits(k)' /\ \A j \in Tasks : Awaits(j)' => j = k
         /\ \A j \in Tasks : ~Awaits(j)
<1>1. /\ tasks'[k] = next
      /\ \A j \in Tasks : j # k => tasks'[j] = tasks[j]
  BY OneTaskChanges
<1>2. next # Nothing
  BY NoFetchAssumption
<1>q. QED
  BY <1>1, <1>2 DEF OneLoads, Awaits, Free

\* The answer for the only handler that waits leaves nobody or the same waiting.
LEMMA AnswersAlone ==
  ASSUME TypeOK, OneLoads, NEW k \in Tasks, Awaits(k), NEW next \in Fetches \cup {Nothing},
         tasks' = [tasks EXCEPT ![k] = next]
  PROVE  /\ tasks'[k] = next /\ \A j \in Tasks : Awaits(j)' => j = k
         /\ \A j \in Tasks : Awaits(j) => j = k
<1>1. /\ tasks'[k] = next
      /\ \A j \in Tasks : j # k => tasks'[j] = tasks[j]
  BY OneTaskChanges
<1>q. QED
  BY <1>1 DEF OneLoads, Awaits

\* The page after openProject and openTrace, up to their await.
LEMMA OpeningProjectFits ==
  ASSUME NEW k \in Tasks, NEW next, tasks'[k] = next, next # Nothing, next.what = "traces",
         \A j \in Tasks : Awaits(j)' => j = k,
         next.arg = selectedProject', selectedTrace' = Nothing, view' = "project"
  PROVE  ListFits' /\ TraceFits'
<1>1. AwaitsA("traces", k)' /\ \A j \in Tasks : ~AwaitsA("trace", j)'
  BY DEF AwaitsA, Awaits
<1>2. \A j \in Tasks : AwaitsA("traces", j)' => tasks'[j].arg = selectedProject'
  BY DEF AwaitsA
<1>q. QED
  BY <1>1, <1>2 DEF ListFits, TraceFits

LEMMA OpeningTraceFits ==
  ASSUME NEW k \in Tasks, NEW next, tasks'[k] = next, next # Nothing, next.what = "trace",
         \A j \in Tasks : Awaits(j)' => j = k,
         HomeOf[next.arg] = selectedProject',
         selectedTrace' # Nothing => HomeOf[selectedTrace'] = selectedProject',
         traces' = selectedProject',
         table' = [heading |-> selectedProject', list |-> selectedProject']
  PROVE  ListFits' /\ TraceFits'
<1>1. AwaitsA("trace", k)' /\ \A j \in Tasks : ~AwaitsA("traces", j)'
  BY DEF AwaitsA, Awaits
<1>2. \A j \in Tasks : AwaitsA("trace", j)' => HomeOf[tasks'[j].arg] = selectedProject'
  BY DEF AwaitsA
<1>q. QED
  BY <1>1, <1>2 DEF ListFits, TraceFits

\* The page while nothing, or only the list of projects, is awaited.
LEMMA ShownFits ==
  ASSUME \A j \in Tasks : ~AwaitsA("traces", j)' /\ ~AwaitsA("trace", j)',
         traces' = selectedProject',
         table' = [heading |-> selectedProject', list |-> selectedProject'],
         selectedTrace' # Nothing => HomeOf[selectedTrace'] = selectedProject',
         view' = "trace" =>
           selectedTrace' # Nothing
           /\ detail' = [project |-> selectedProject', trace |-> selectedTrace']
  PROVE  ListFits' /\ TraceFits'
BY DEF ListFits, TraceFits

LEMMA UserKeepsFits ==
  ASSUME PageInv, OneLoads, ListFits, TraceFits, User, OneLoads'
  PROVE  ListFits' /\ TraceFits'
<1>t. TypeOK
  BY DEF PageInv
<1>n. ASSUME \A j \in Tasks : ~Awaits(j)
      PROVE  /\ traces = selectedProject
             /\ table = [heading |-> selectedProject, list |-> selectedProject]
             /\ selectedTrace # Nothing => HomeOf[selectedTrace] = selectedProject
             /\ view = "trace" =>
                  /\ selectedTrace # Nothing
                  /\ detail = [project |-> selectedProject, trace |-> selectedTrace]
  BY <1>n DEF ListFits, TraceFits, AwaitsA
<1>1. ASSUME NEW k \in Tasks, ClickProject(k) PROVE ListFits' /\ TraceFits'
  <2>1. PICK p \in cards : OpenProject(k, p, FALSE)
    BY <1>1 DEF ClickProject
  <2> DEFINE next == Fetch("traces", base, p, FALSE)
  <2>2. next \in Fetches /\ next # Nothing /\ next.what = "traces" /\ next.arg = p
    BY <1>t, FetchOfTraces DEF TypeOK
  <2>3. /\ tasks' = [tasks EXCEPT ![k] = next] /\ Free(k)
        /\ selectedProject' = p /\ selectedTrace' = Nothing /\ view' = "project"
    BY <1>1, <2>1 DEF ClickProject, OpenProject, Await
  <2> HIDE DEF next
  <2>4. tasks'[k] = next /\ \A j \in Tasks : Awaits(j)' => j = k
    BY <1>t, <2>2, <2>3, LoadsAlone
  <2>q. QED
    BY <2>2, <2>3, <2>4, OpeningProjectFits
<1>2. ASSUME NEW k \in Tasks, ClickTrace(k) PROVE ListFits' /\ TraceFits'
  <2>1. PICK t \in Traces : HomeOf[t] = table.list /\ OpenTrace(k, t, FALSE)
    BY <1>2 DEF ClickTrace
  <2> DEFINE next == Fetch("trace", base, t, FALSE)
  <2>2. next \in Fetches /\ next # Nothing /\ next.what = "trace" /\ next.arg = t
    BY <1>t, FetchOfTrace DEF TypeOK
  <2>3. /\ tasks' = [tasks EXCEPT ![k] = next] /\ Free(k)
        /\ UNCHANGED <<selectedProject, selectedTrace, traces, table>>
    BY <1>2, <2>1 DEF ClickTrace, OpenTrace, Await
  <2> HIDE DEF next
  <2>4. /\ tasks'[k] = next /\ \A j \in Tasks : Awaits(j)' => j = k
        /\ \A j \in Tasks : ~Awaits(j)
    BY <1>t, <2>2, <2>3, LoadsAlone
  <2>5. HomeOf[t] = selectedProject
    BY <1>n, <2>1, <2>4
  <2>q. QED
    BY <1>n, <2>2, <2>3, <2>4, <2>5, OpeningTraceFits
<1>3. ASSUME NEW k \in Tasks, Refresh(k) \/ Connect(k) PROVE ListFits' /\ TraceFits'
  <2>1. PICK from \in Bases : tasks' = [tasks EXCEPT ![k] = Fetch("projects", from, Nothing, TRUE)]
    BY <1>t, <1>3 DEF Refresh, Connect, Await, TypeOK
  <2> DEFINE next == Fetch("projects", from, Nothing, TRUE)
  <2>2. next \in Fetches /\ next # Nothing /\ next.what = "projects"
    BY FetchOfProjects
  <2>3. /\ tasks' = [tasks EXCEPT ![k] = next] /\ Free(k)
        /\ UNCHANGED <<view, selectedProject, selectedTrace, traces, table, detail>>
    BY <1>3, <2>1 DEF Refresh, Connect, page
  <2> HIDE DEF next
  <2>4. /\ tasks'[k] = next /\ \A j \in Tasks : Awaits(j)' => j = k
        /\ \A j \in Tasks : ~Awaits(j)
    BY <1>t, <2>2, <2>3, LoadsAlone
  <2>5. \A j \in Tasks : ~AwaitsA("traces", j)' /\ ~AwaitsA("trace", j)'
    BY <2>2, <2>4 DEF AwaitsA
  <2>q. QED
    BY <1>n, <2>3, <2>4, <2>5, ShownFits
<1>4. ASSUME Back PROVE ListFits' /\ TraceFits'
  <2>1. /\ UNCHANGED <<selectedProject, selectedTrace, traces, table, detail, tasks>>
        /\ view' # "trace"
    BY <1>4 DEF Back
  <2>q. QED
    BY <2>1 DEF ListFits, TraceFits, AwaitsA, Awaits
<1>5. ASSUME Search PROVE ListFits' /\ TraceFits'
  <2>1. UNCHANGED <<view, selectedProject, selectedTrace, traces, tasks>>
    BY <1>5 DEF Search
  <2>2. table' = table \/ table' = [heading |-> selectedProject, list |-> traces]
    BY <1>5 DEF Search
  <2>3. view = "trace" => detail' = [project |-> selectedProject, trace |-> selectedTrace]
    BY <1>5 DEF Search
  <2>4. ListFits'
    BY <2>1, <2>2 DEF ListFits, AwaitsA, Awaits
  <2>5. TraceFits'
    BY <2>1, <2>3 DEF TraceFits, AwaitsA, Awaits
  <2>q. QED
    BY <2>4, <2>5
<1>q. QED
  BY <1>1, <1>2, <1>3, <1>4, <1>5 DEF User

LEMMA ArriveKeepsFits ==
  ASSUME PageInv, OneLoads, ListFits, TraceFits, NEW k \in Tasks, Arrive(k)
  PROVE  ListFits' /\ TraceFits'
<1>t. TypeOK
  BY DEF PageInv
<1>k. Awaits(k)
  BY DEF Arrive, ArriveProjects, ArriveTraces, ArriveTrace, Free, Awaits
<1>o. \A j \in Tasks : Awaits(j) => j = k
  BY <1>k DEF OneLoads
<1>d. ASSUME tasks' = [tasks EXCEPT ![k] = Nothing]
      PROVE  \A j \in Tasks : ~AwaitsA("traces", j)' /\ ~AwaitsA("trace", j)'
  BY <1>t, <1>k, <1>d, AnswersAlone DEF AwaitsA, Awaits
<1>1. ASSUME ArriveProjects(k) PROVE ListFits' /\ TraceFits'
  <2>1. \A j \in Tasks : ~AwaitsA("traces", j) /\ ~AwaitsA("trace", j)
    BY <1>1, <1>o DEF ArriveProjects, AwaitsA
  <2>2. /\ traces = selectedProject
        /\ table = [heading |-> selectedProject, list |-> selectedProject]
        /\ selectedTrace # Nothing => HomeOf[selectedTrace] = selectedProject
        /\ view = "trace" =>
             /\ selectedTrace # Nothing
             /\ detail = [project |-> selectedProject, trace |-> selectedTrace]
    BY <2>1 DEF ListFits, TraceFits
  <2>b. tasks[k].base \in Bases
    BY <1>t, <1>k, AwaitedIsFetch
  <2>3. UNCHANGED <<traces, table, detail>> /\ projects' \subseteq Names
    BY <1>1, <2>b, BackendAssumption DEF ArriveProjects
  <2>4. CASE selectedProject \in projects'
    <3> DEFINE next == Fetch("traces", base, selectedProject, TRUE)
    <3>b. base \in Bases /\ selectedProject \in Names
      BY <1>t, <2>3, <2>4 DEF TypeOK
    <3>1. next \in Fetches /\ next # Nothing /\ next.what = "traces" /\ next.arg = selectedProject
      BY <3>b, FetchOfTraces
    <3>2. /\ tasks' = [tasks EXCEPT ![k] = next] /\ view' = "project"
          /\ selectedProject' = selectedProject /\ selectedTrace' = Nothing
      BY <1>1, <2>4 DEF ArriveProjects, OpenProject, Await
    <3> HIDE DEF next
    <3>3. tasks'[k] = next /\ \A j \in Tasks : Awaits(j)' => j = k
      BY <1>t, <1>k, <3>1, <3>2, AnswersAlone
    <3>q. QED
      BY <3>1, <3>2, <3>3, OpeningProjectFits
  <2>5. CASE selectedProject \notin projects' /\ selectedTrace # Nothing
    <3> DEFINE next == Fetch("trace", base, selectedTrace, TRUE)
    <3>1. next \in Fetches /\ next # Nothing /\ next.what = "trace" /\ next.arg = selectedTrace
      BY <1>t, <2>5, FetchOfTrace DEF TypeOK
    <3>2. /\ tasks' = [tasks EXCEPT ![k] = next]
          /\ selectedProject' = selectedProject /\ selectedTrace' = selectedTrace
      BY <1>1, <2>5 DEF ArriveProjects, ReopenTrace, OpenTrace, Await
    <3> HIDE DEF next
    <3>3. tasks'[k] = next /\ \A j \in Tasks : Awaits(j)' => j = k
      BY <1>t, <1>k, <3>1, <3>2, AnswersAlone
    <3>q. QED
      BY <2>2, <2>3, <2>5, <3>1, <3>2, <3>3, OpeningTraceFits
  <2>6. CASE selectedProject \notin projects' /\ selectedTrace = Nothing
    <3>1. /\ tasks' = [tasks EXCEPT ![k] = Nothing] /\ view' = view
          /\ selectedProject' = selectedProject /\ selectedTrace' = selectedTrace
      BY <1>1, <2>6 DEF ArriveProjects, ReopenTrace, Done
    <3>q. QED
      BY <1>d, <2>2, <2>3, <3>1, ShownFits
  <2>q. QED
    BY <2>4, <2>5, <2>6
<1>2. ASSUME ArriveTraces(k) PROVE ListFits' /\ TraceFits'
  <2>1. AwaitsA("traces", k) /\ \A j \in Tasks : ~AwaitsA("trace", j)
    BY <1>2, <1>k, <1>o DEF ArriveTraces, AwaitsA
  <2>2. tasks[k].arg = selectedProject /\ selectedTrace = Nothing
    BY <2>1 DEF ListFits
  <2>3. view # "trace"
    BY <2>1, <2>2 DEF TraceFits
  <2>4. /\ tasks' = [tasks EXCEPT ![k] = Nothing] /\ view' = view
        /\ selectedProject' = selectedProject /\ selectedTrace' = selectedTrace
        /\ traces' = tasks[k].arg
        /\ table' = [heading |-> selectedProject, list |-> tasks[k].arg]
    BY <1>2, <2>2 DEF ArriveTraces, ReopenTrace, Done
  <2>q. QED
    BY <1>d, <2>2, <2>3, <2>4, ShownFits
<1>3. ASSUME ArriveTrace(k) PROVE ListFits' /\ TraceFits'
  <2>1. AwaitsA("trace", k) /\ \A j \in Tasks : ~AwaitsA("traces", j)
    BY <1>3, <1>k, <1>o DEF ArriveTrace, AwaitsA
  <2>2. HomeOf[tasks[k].arg] = selectedProject /\ tasks[k].arg \in Traces
    BY <2>1 DEF TraceFits, PageInv, FetchesFit
  <2>3. tasks[k].arg # Nothing
    BY <2>2, NothingAssumption
  <2>4. /\ traces = selectedProject
        /\ table = [heading |-> selectedProject, list |-> selectedProject]
    BY <2>1 DEF ListFits
  <2>5. /\ tasks' = [tasks EXCEPT ![k] = Nothing]
        /\ UNCHANGED <<selectedProject, traces, table>>
        /\ selectedTrace' = tasks[k].arg
        /\ detail' = [project |-> selectedProject, trace |-> tasks[k].arg]
    BY <1>3 DEF ArriveTrace, Done
  <2>q. QED
    BY <1>d, <2>2, <2>3, <2>4, <2>5, ShownFits
<1>q. QED
  BY <1>1, <1>2, <1>3 DEF Arrive

\* Whatever starts a fetch says "Loading", and only an answer that ends its
\* handler's chain says "Live".
LEMMA BadgeStaysFit ==
  ASSUME PageInv, OneLoads, BadgeFits, OneLoads', User \/ \E k \in Tasks : Arrive(k)
  PROVE  BadgeFits'
<1>t. TypeOK
  BY DEF PageInv
<1>1. ASSUME NEW k \in Tasks, NEW next \in Fetches, Await(k, next) PROVE BadgeFits'
  <2>1. tasks'[k] = next
    BY <1>t, <1>1, OneTaskChanges DEF Await
  <2>q. QED
    BY <2>1, NoFetchAssumption DEF BadgeFits, Awaits
<1>2. ASSUME NEW k \in Tasks, Done(k) PROVE BadgeFits'
  BY <1>2 DEF Done, BadgeFits
<1>3. ASSUME UNCHANGED <<badge, tasks>> PROVE BadgeFits'
  BY <1>3 DEF BadgeFits, Awaits
<1>b. base \in Bases
  BY <1>t DEF TypeOK
<1>4. CASE User
  <2>1. ASSUME NEW k \in Tasks, ClickProject(k) PROVE BadgeFits'
    <3>1. PICK p \in Names : Await(k, Fetch("traces", base, p, FALSE))
      BY <1>t, <2>1 DEF ClickProject, OpenProject, TypeOK
    <3>q. QED
      BY <1>1, <1>b, <3>1, FetchOfTraces
  <2>2. ASSUME NEW k \in Tasks, ClickTrace(k) PROVE BadgeFits'
    <3>1. PICK t \in Traces : Await(k, Fetch("trace", base, t, FALSE))
      BY <2>2 DEF ClickTrace, OpenTrace
    <3>q. QED
      BY <1>1, <1>b, <3>1, FetchOfTrace
  <2>3. ASSUME NEW k \in Tasks, Refresh(k) \/ Connect(k) PROVE BadgeFits'
    <3>1. PICK from \in Bases : Await(k, Fetch("projects", from, Nothing, TRUE))
      BY <1>b, <2>3 DEF Refresh, Connect
    <3>q. QED
      BY <1>1, <3>1, FetchOfProjects
  <2>4. ASSUME Back \/ Search PROVE BadgeFits'
    BY <1>3, <2>4 DEF Back, Search
  <2>q. QED
    BY <1>4, <2>1, <2>2, <2>3, <2>4 DEF User
<1>5. ASSUME NEW k \in Tasks, Arrive(k) PROVE BadgeFits'
  <2>1. ASSUME ReopenTrace(k) PROVE BadgeFits'
    <3>1. CASE selectedTrace # Nothing
      <4>1. selectedTrace \in Traces /\ Await(k, Fetch("trace", base, selectedTrace, TRUE))
        BY <1>t, <2>1, <3>1 DEF ReopenTrace, OpenTrace, TypeOK
      <4>q. QED
        BY <1>1, <1>b, <4>1, FetchOfTrace
    <3>2. CASE selectedTrace = Nothing
      BY <1>2, <2>1, <3>2 DEF ReopenTrace
    <3>q. QED
      BY <3>1, <3>2
  <2>2. ASSUME ArriveProjects(k), selectedProject \in projects' PROVE BadgeFits'
    <3>1. Awaits(k)
      BY <2>2 DEF ArriveProjects, Free, Awaits
    <3>2. selectedProject \in Names
      BY <1>t, <2>2, <3>1, AwaitedIsFetch, BackendAssumption DEF ArriveProjects
    <3>3. Await(k, Fetch("traces", base, selectedProject, TRUE))
      BY <2>2 DEF ArriveProjects, OpenProject
    <3>q. QED
      BY <1>1, <1>b, <3>2, <3>3, FetchOfTraces
  <2>q. QED
    BY <1>2, <1>5, <2>1, <2>2 DEF Arrive, ArriveProjects, ArriveTraces, ArriveTrace
<1>q. QED
  BY <1>4, <1>5

-----------------------------------------------------------------------------
(* The whole invariant *)

LEMMA FrontInvInit == Init => FrontInv
<1>1. SUFFICES ASSUME Init PROVE FrontInv
  OBVIOUS
<1>2. PICK k \in Tasks :
        tasks = [j \in Tasks |->
          IF j = k THEN Fetch("projects", base, Nothing, TRUE) ELSE Nothing]
  BY <1>1 DEF Init
<1>3. \A j \in Tasks : Awaits(j) => j = k
  BY <1>2 DEF Awaits
<1>4. Fetch("projects", base, Nothing, TRUE).what = "projects"
  BY <1>1, FetchOfProjects DEF Init
<1>5. \A j \in Tasks : ~AwaitsA("traces", j) /\ ~AwaitsA("trace", j)
  BY <1>2, <1>4 DEF AwaitsA, Awaits
<1>6. IsFiniteSet(Awaiting)
  <2>1. Awaiting \subseteq {k}
    BY <1>3 DEF Awaiting
  <2>q. QED
    BY <2>1, FS_Singleton, FS_Subset
<1>7. ListFits /\ TraceFits
  BY <1>1, <1>5 DEF Init, ListFits, TraceFits
<1>8. OneLoads
  BY <1>3 DEF OneLoads
<1>9. Fetch("projects", base, Nothing, TRUE) # Nothing
  BY <1>1, FetchOfProjects DEF Init
<1>10. BadgeFits
  BY <1>2, <1>9 DEF BadgeFits, Awaits
<1>q. QED
  BY <1>1, <1>6, <1>7, <1>8, <1>10, PageInvInit DEF FrontInv, SmoothInv

LEMMA FrontInvNext == FrontInv /\ [Next]_vars => FrontInv'
<1>1. ASSUME FrontInv, Next PROVE FrontInv'
  <2>1. PageInv'
    BY <1>1, PageInvNext DEF FrontInv
  <2>2. IsFiniteSet(Awaiting')
    BY <1>1, AwaitingStaysFinite DEF FrontInv, PageInv
  <2>3. ASSUME smooth' PROVE OneLoads' /\ BadgeFits' /\ ListFits' /\ TraceFits'
    <3>1. CASE (User \/ \E k \in Tasks : Arrive(k)) /\ smooth' = (smooth /\ OneAwaits)
      <4>1. OneLoads /\ BadgeFits /\ ListFits /\ TraceFits
        BY <1>1, <2>3, <3>1 DEF FrontInv, SmoothInv
      <4>2. OneLoads'
        BY <2>2, <2>3, <3>1, SmoothStepsOneLoads
      <4>q. QED
        BY <1>1, <3>1, <4>1, <4>2, UserKeepsFits, ArriveKeepsFits, BadgeStaysFit
           DEF FrontInv
    <3>2. CASE Still
      BY <1>1, <2>3, <3>2 DEF Still, vars, page, FrontInv, SmoothInv, OneLoads, BadgeFits, ListFits,
                              TraceFits, AwaitsA, Awaits
    <3>q. QED
      BY <1>1, <2>3, <3>1, <3>2 DEF Next
  <2>q. QED
    BY <2>1, <2>2, <2>3 DEF FrontInv, SmoothInv
<1>2. ASSUME FrontInv, UNCHANGED vars PROVE FrontInv'
  <2>1. PageInv'
    BY <1>2, PageInvNext DEF FrontInv
  <2>2. Awaiting' = Awaiting
    BY <1>2 DEF vars, Awaiting, Awaits
  <2>3. SmoothInv'
    BY <1>2 DEF vars, page, FrontInv, SmoothInv, OneLoads, BadgeFits, ListFits, TraceFits,
               AwaitsA, Awaits
  <2>q. QED
    BY <1>2, <2>1, <2>2, <2>3 DEF FrontInv
<1>q. QED
  BY <1>1, <1>2

\* For a user who waits and sees no fetch fail, a page that has loaded shows what
\* is selected, on whatever path of clicks, refreshes and backends it was reached.
THEOREM SettledAlwaysShowsSelection == Spec => []SettledShowsSelection
<1>1. ASSUME FrontInv, smooth, ~Loading
      PROVE  /\ badge = "live"
             /\ table = [heading |-> selectedProject, list |-> selectedProject]
             /\ view = "trace" =>
                  /\ selectedTrace # Nothing
                  /\ detail = [project |-> selectedProject, trace |-> selectedTrace]
                  /\ HomeOf[selectedTrace] = selectedProject
  <2>1. \A k \in Tasks : ~Awaits(k) /\ ~AwaitsA("traces", k) /\ ~AwaitsA("trace", k)
    BY <1>1 DEF Loading, Free, AwaitsA, Awaits
  <2>q. QED
    BY <1>1, <2>1 DEF FrontInv, SmoothInv, BadgeFits, ListFits, TraceFits
<1>2. FrontInv => SettledShowsSelection
  BY <1>1 DEF SettledShowsSelection
<1>q. QED
  BY <1>2, FrontInvInit, FrontInvNext, PTL DEF Spec
=============================================================================
