-------------------------- MODULE AnveshaFrontend --------------------------
(***************************************************************************)
(* app.js: one page whose click handlers await fetches and then write into *)
(* the same state object.  Handlers run one at a time but interleave at    *)
(* every await, and nothing ties an answer to the selection it was for.    *)
(*                                                                         *)
(* A project is its name, a trace its id; a backend is what it holds.      *)
(***************************************************************************)
EXTENDS Naturals, FiniteSets

CONSTANTS
  Bases, Names, Traces,
  Nothing,        \* null
  ProjectsAt,     \* Bases -> SUBSET Names: the projects a backend holds
  HomeOf,         \* Traces -> Names: the project a trace belongs to
  Tasks,          \* handlers that may be awaiting at once
  MaxClicks,      \* bound on what the user does
  NetworkFails    \* whether a fetch may fail though the backend could answer

ASSUME BackendAssumption ==
  ProjectsAt \in [Bases -> SUBSET Names] /\ HomeOf \in [Traces -> Names]
ASSUME NothingAssumption == Nothing \notin Names \cup Traces
ASSUME ClicksAssumption == MaxClicks \in Nat /\ NetworkFails \in BOOLEAN

VARIABLES
  base,             \* state.apiBase
  view,             \* state.ui.view
  projects,         \* state.projects
  cards,            \* the project cards on the page
  selectedProject, selectedTrace,
  traces,           \* state.traces: the project whose list it is
  table,            \* the trace table as rendered: heading and list
  detail,           \* the trace page as rendered: project pill and trace
  badge,            \* connection badge
  tasks,            \* the handlers awaiting a fetch
  clicks,
  smooth            \* history: no two handlers have awaited at once, and no fetch failed

page == <<base, view, projects, cards, selectedProject, selectedTrace, traces, table, detail>>
vars == <<page, badge, tasks, clicks, smooth>>

Fetches ==
  [what: {"projects", "traces", "trace"}, base: Bases,
   arg: Names \cup Traces \cup {Nothing}, refresh: BOOLEAN]

ASSUME NoFetchAssumption == Nothing \notin Fetches

Fetch(what, from, arg, refresh) ==
  [what |-> what, base |-> from, arg |-> arg, refresh |-> refresh]

\* The script's last lines: an empty projects view and a first refresh.
Init ==
  /\ base \in Bases /\ view = "projects" /\ projects = {} /\ cards = {}
  /\ selectedProject = Nothing /\ selectedTrace = Nothing /\ traces = Nothing
  /\ table = [heading |-> Nothing, list |-> Nothing]
  /\ detail = [project |-> Nothing, trace |-> Nothing]
  /\ badge = "loading" /\ clicks = 0 /\ smooth = TRUE
  /\ \E k \in Tasks :
       tasks = [j \in Tasks |->
         IF j = k THEN Fetch("projects", base, Nothing, TRUE) ELSE Nothing]

-----------------------------------------------------------------------------
(* The handlers up to their next await *)

Await(k, fetch) == tasks' = [tasks EXCEPT ![k] = fetch] /\ badge' = "loading"

Done(k) == tasks' = [tasks EXCEPT ![k] = Nothing] /\ badge' = "live"

\* Fault: the selection is made when the answer comes.
OpenProjectLate(k, p, refresh) ==
  /\ selectedTrace' = Nothing /\ view' = "project"
  /\ Await(k, Fetch("traces", base, p, refresh))
  /\ UNCHANGED selectedProject

OpenProject(k, p, refresh) ==
  /\ selectedProject' = p /\ selectedTrace' = Nothing /\ view' = "project"
  /\ Await(k, Fetch("traces", base, p, refresh))

OpenTrace(k, t, refresh) ==
  /\ view' = "trace"
  /\ Await(k, Fetch("trace", base, t, refresh))

-----------------------------------------------------------------------------
(* The user *)

Free(k) == tasks[k] = Nothing
Click == clicks < MaxClicks /\ clicks' = clicks + 1

ClickProject(k) ==
  /\ Click /\ Free(k) /\ view = "projects"
  /\ \E p \in cards : OpenProject(k, p, FALSE)
  /\ UNCHANGED <<base, projects, cards, traces, table, detail>>

ClickTrace(k) ==
  /\ Click /\ Free(k) /\ view = "project" /\ table.list # Nothing
  /\ \E t \in Traces : HomeOf[t] = table.list /\ OpenTrace(k, t, FALSE)
  /\ UNCHANGED <<base, projects, cards, selectedProject, selectedTrace, traces, table, detail>>

Back ==
  /\ Click
  /\ \/ view = "project" /\ view' = "projects"
     \/ view = "trace" /\ view' = "project"
  /\ UNCHANGED <<base, projects, cards, selectedProject, selectedTrace, traces, table,
                 detail, badge, tasks>>

Refresh(k) ==
  /\ Click /\ Free(k)
  /\ Await(k, Fetch("projects", base, Nothing, TRUE))
  /\ UNCHANGED page

Connect(k) ==
  /\ Click /\ Free(k)
  /\ \E next \in Bases :
       base' = next /\ Await(k, Fetch("projects", next, Nothing, TRUE))
  /\ UNCHANGED <<view, projects, cards, selectedProject, selectedTrace, traces, table, detail>>

\* A key typed into a search field renders the current view again.  What the
\* filters hide is not modelled: a card or row may only be missing, not wrong.
Search ==
  /\ Click
  /\ \/ /\ view = "projects"
        /\ cards' = projects
        /\ UNCHANGED <<table, detail>>
     \/ /\ view = "project" /\ selectedProject # Nothing
        /\ table' = [heading |-> selectedProject, list |-> traces]
        /\ UNCHANGED <<cards, detail>>
     \/ /\ view = "trace"
        /\ detail' = [project |-> selectedProject, trace |-> selectedTrace]
        /\ UNCHANGED <<cards, table>>
  /\ UNCHANGED <<base, view, projects, selectedProject, selectedTrace, traces, badge, tasks>>

-----------------------------------------------------------------------------
(* Answers *)

Answerable(fetch) ==
  \/ fetch.what = "projects"
  \/ fetch.what = "traces" /\ fetch.arg \in ProjectsAt[fetch.base]
  \/ fetch.what = "trace" /\ HomeOf[fetch.arg] \in ProjectsAt[fetch.base]

\* refreshCurrentView after its await of openProject, or without one.
ReopenTrace(k) ==
  IF selectedTrace # Nothing THEN OpenTrace(k, selectedTrace, TRUE)
                             ELSE Done(k) /\ UNCHANGED view

ArriveProjects(k) ==
  /\ ~Free(k) /\ tasks[k].what = "projects"
  /\ projects' = ProjectsAt[tasks[k].base] /\ cards' = projects'
  /\ IF selectedProject \in projects'
     THEN OpenProject(k, selectedProject, TRUE)
     ELSE ReopenTrace(k) /\ UNCHANGED <<selectedProject, selectedTrace>>
  /\ UNCHANGED <<base, traces, table, detail, clicks>>

\* Fault: the list is stored but not rendered.
ArriveTracesUnseen(k) ==
  /\ ~Free(k) /\ tasks[k].what = "traces" /\ Answerable(tasks[k])
  /\ traces' = tasks[k].arg
  /\ IF tasks[k].refresh THEN ReopenTrace(k) ELSE Done(k) /\ UNCHANGED view
  /\ UNCHANGED <<base, projects, cards, selectedProject, selectedTrace, table, detail, clicks>>

ArriveTraces(k) ==
  /\ ~Free(k) /\ tasks[k].what = "traces" /\ Answerable(tasks[k])
  /\ traces' = tasks[k].arg
  /\ table' = [heading |-> selectedProject, list |-> tasks[k].arg]
  /\ IF tasks[k].refresh THEN ReopenTrace(k) ELSE Done(k) /\ UNCHANGED view
  /\ UNCHANGED <<base, projects, cards, selectedProject, selectedTrace, detail, clicks>>

ArriveTrace(k) ==
  /\ ~Free(k) /\ tasks[k].what = "trace" /\ Answerable(tasks[k])
  /\ selectedTrace' = tasks[k].arg
  /\ detail' = [project |-> selectedProject, trace |-> tasks[k].arg]
  /\ Done(k)
  /\ UNCHANGED <<base, view, projects, cards, selectedProject, traces, table, clicks>>

\* Fault: a failed refresh starts again.
FailRetries(k) ==
  /\ ~Free(k) /\ (NetworkFails \/ ~Answerable(tasks[k]))
  /\ IF tasks[k].refresh
     THEN Await(k, Fetch("projects", base, Nothing, TRUE))
     ELSE tasks' = [tasks EXCEPT ![k] = Nothing] /\ UNCHANGED badge
  /\ UNCHANGED page /\ UNCHANGED clicks

\* apiGet throws.  refreshCurrentView catches it; in a click handler nobody
\* does, and the badge keeps saying "Loading".
Fail(k) ==
  /\ ~Free(k) /\ (NetworkFails \/ ~Answerable(tasks[k]))
  /\ tasks' = [tasks EXCEPT ![k] = Nothing]
  /\ IF tasks[k].refresh
     THEN /\ badge' = "error"
          /\ cards' = IF view = "projects" THEN {} ELSE cards
     ELSE UNCHANGED <<badge, cards>>
  /\ UNCHANGED <<base, view, projects, selectedProject, selectedTrace, traces,
                 table, detail, clicks>>

Arrive(k) == ArriveProjects(k) \/ ArriveTraces(k) \/ ArriveTrace(k)

User == \/ \E k \in Tasks : ClickProject(k) \/ ClickTrace(k) \/ Refresh(k) \/ Connect(k)
        \/ Back \/ Search

OneAwaits == Cardinality({k \in Tasks : tasks'[k] # Nothing}) <= 1

\* Nobody touches the page and nothing is loading.
Still == (\A k \in Tasks : Free(k)) /\ UNCHANGED vars

Next ==
  \/ (User \/ \E k \in Tasks : Arrive(k)) /\ smooth' = (smooth /\ OneAwaits)
  \/ (\E k \in Tasks : Fail(k)) /\ smooth' = FALSE
  \/ Still

Spec == Init /\ [][Next]_vars
FairSpec == Spec /\ \A k \in Tasks : WF_<<page, badge, tasks, clicks>>(Arrive(k) \/ Fail(k))

-----------------------------------------------------------------------------
(* Properties *)

\* Every field of the page keeps its type.
TypeOK ==
  /\ base \in Bases /\ view \in {"projects", "project", "trace"}
  /\ projects \subseteq Names /\ cards \subseteq projects
  /\ selectedProject \in Names \cup {Nothing} /\ selectedTrace \in Traces \cup {Nothing}
  /\ traces \in Names \cup {Nothing}
  /\ table \in [heading: Names \cup {Nothing}, list: Names \cup {Nothing}]
  /\ detail \in [project: Names \cup {Nothing}, trace: Traces \cup {Nothing}]
  /\ badge \in {"loading", "live", "error"}
  /\ tasks \in [Tasks -> Fetches \cup {Nothing}] /\ clicks \in 0 .. MaxClicks

Loading == \E k \in Tasks : ~Free(k)

\* When nothing is loading the badge is live, the project page shows the selected
\* project's traces and the trace page the selected trace under its own project,
\* for a user who has waited for each answer and has not seen one fail (openProject
\* and openTrace, with Refresh, Connect to other backends, Search and Back in
\* between).
SettledShowsSelection ==
  smooth /\ ~Loading =>
    /\ badge = "live"
    /\ view = "project" =>
         table = [heading |-> selectedProject, list |-> selectedProject]
    /\ view = "trace" =>
         /\ selectedTrace # Nothing
         /\ detail = [project |-> selectedProject, trace |-> selectedTrace]
         /\ HomeOf[selectedTrace] = selectedProject

\* No order of answers brings up a project or trace page with no project, nor
\* anything in a field that is not of its kind.
PageHasProject ==
  TypeOK /\ (view \in {"project", "trace"} => selectedProject # Nothing)

\* Whatever fails, a handler's chain of fetches comes to an end, also when a
\* refresh opens the project and then a trace that another handler selected; and
\* if none fails and none overlaps, the badge does not say "Loading" for ever.
LoadsSettle ==
  /\ \A k \in Tasks : ~Free(k) ~> Free(k)
  /\ smooth /\ badge = "loading" ~> ~smooth \/ badge # "loading"
=============================================================================
