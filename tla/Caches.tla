------------------------------- MODULE Caches --------------------------------
(***************************************************************************)
(* The caches of extracted-core's GraphQL dataloaders, here the number of  *)
(* records of a project, and the events that invalidate them.  There are   *)
(* caches with SQLite only, where one lock keeps sessions apart from their *)
(* begin to the release that follows their commit.                         *)
(*                                                                         *)
(* What a project holds is the number of its changes so far, so that a     *)
(* cached answer is stale when it differs.                                 *)
(***************************************************************************)
EXTENDS Naturals, FiniteSets

CONSTANTS
  Projects,      \* row ids of projects
  Traces,        \* row ids of traces, from a table of their own
  MaxChanges     \* bound on the changes of a project

ASSUME IdsAssumption == Projects \subseteq Nat /\ Traces \subseteq Nat
ASSUME ChangesAssumption == MaxChanges \in Nat

VARIABLES
  stored,     \* project -> what the database holds of it
  cache,      \* project -> [at, value]: nothing, a future that is pending, its answer
  writer,     \* the session that changes projects, if one is open
  batch,      \* ids in the events that the handler has yet to read
  late,       \* ids in the events put since it has read and before it clears
  caller,     \* the handler's loop: asleep, called, or dead
  untold,     \* history: projects with a change that its session's event does not name
  lost        \* history: projects in an event that was cleared unread

history == <<untold, lost>>
vars == <<stored, cache, writer, batch, late, caller, history>>

Ids == Projects \cup Traces
Places == {"idle", "open", "told", "committed"}
Writers == [at: Places, projects: SUBSET Projects, ids: SUBSET Ids, early: BOOLEAN]
Idle == [at |-> "idle", projects |-> {}, ids |-> {}, early |-> FALSE]
Nothing == [at |-> "nothing", value |-> 0]
Pending == [at |-> "pending", value |-> 0]

Init ==
  /\ stored = [p \in Projects |-> 0]
  /\ cache = [p \in Projects |-> Nothing]
  /\ writer = Idle
  /\ batch = {} /\ late = {} /\ caller = "asleep"
  /\ untold = {} /\ lost = {}

-----------------------------------------------------------------------------
(* Sessions that change projects *)

Begin(S, ids, early) ==
  /\ writer.at = "idle" /\ \A p \in S : stored[p] < MaxChanges
  /\ writer' = [at |-> "open", projects |-> S, ids |-> ids, early |-> early]
  /\ UNCHANGED <<stored, cache, batch, late, caller, history>>

\* The bulk inserter's spans: the event follows the session and names all projects.
InsertSpans(S) == S # {} /\ Begin(S, S, FALSE)

\* REST deletion of a trace.
DeleteTrace(p) == Begin({p}, {p}, FALSE)

\* Deletion of sessions or of a project, and clear_project: traces go along that hang
\* on the same sessions and were moved to projects the event does not name.
DeleteSessions(S, named) == S # {} /\ named \subseteq S /\ Begin(S, named, FALSE)

\* deleteTraces puts its event while its session is open.
DeleteTraces(p) == Begin({p}, {p}, TRUE)

\* delete_span names the trace where a project is meant.
DeleteSpan(p, t) == Begin({p}, {t}, FALSE)

\* transfer_traces_to_project has no event.
Transfer(p, q) == p # q /\ Begin({p, q}, {}, FALSE)

\* Nor has the REST deletion of a project, whose row id may come back.
DeleteProject(S) == S # {} /\ Begin(S, {}, FALSE)

\* An event is put into the batch, whatever the handler does meanwhile.
Put(ids) ==
  IF caller = "called" THEN late' = late \cup ids /\ UNCHANGED batch
                       ELSE batch' = batch \cup ids /\ UNCHANGED late

PutEarly ==
  /\ writer.at = "open" /\ writer.early
  /\ Put(writer.ids)
  /\ writer' = [writer EXCEPT !.at = "told"]
  /\ UNCHANGED <<stored, cache, caller, history>>

Commit ==
  /\ writer.at = IF writer.early THEN "told" ELSE "open"
  /\ stored' = [p \in Projects |-> IF p \in writer.projects THEN stored[p] + 1 ELSE stored[p]]
  /\ writer' = [writer EXCEPT !.at = "committed"]
  /\ untold' = untold \cup (writer.projects \ writer.ids)
  /\ UNCHANGED <<cache, batch, late, caller, lost>>

\* The lock is released, and what follows the session is done before anyone else
\* gets to run.
Release ==
  /\ writer.at = "committed"
  /\ IF writer.early THEN UNCHANGED <<batch, late>> ELSE Put(writer.ids)
  /\ writer' = Idle
  /\ UNCHANGED <<stored, cache, caller, history>>

\* The transaction fails.  Only the bulk inserter tells all the same.
Rollback ==
  /\ writer.at \in {"open", "told"}
  /\ \/ UNCHANGED <<batch, late>>
     \/ ~writer.early /\ writer.ids = writer.projects /\ Put(writer.ids)
  /\ writer' = Idle
  /\ UNCHANGED <<stored, cache, caller, history>>

-----------------------------------------------------------------------------
(* Readers *)

\* What is read or dropped anew is no longer held against an earlier event.
Fresh(S) == untold' = untold \ S /\ lost' = lost \ S

\* A request asks: a future goes into the cache before anything is read.
Load(p) ==
  /\ cache[p].at = "nothing"
  /\ cache' = [cache EXCEPT ![p] = Pending]
  /\ UNCHANGED <<stored, writer, batch, late, caller, history>>

\* Fault: the dataloader does not wait for its turn.
ReadAnyTime(p) ==
  /\ cache[p].at = "pending"
  /\ cache' = [cache EXCEPT ![p] = [at |-> "held", value |-> stored[p]]]
  /\ Fresh({p})
  /\ UNCHANGED <<stored, writer, batch, late, caller>>

\* _load_fn in a session of its own, when no other is open.
Read(p) ==
  /\ cache[p].at = "pending" /\ writer.at = "idle"
  /\ cache' = [cache EXCEPT ![p] = [at |-> "held", value |-> stored[p]]]
  /\ Fresh({p})
  /\ UNCHANGED <<stored, writer, batch, late, caller>>

\* An hour has passed, or there are too many projects.
Evict(p) ==
  /\ cache[p].at # "nothing"
  /\ cache' = [cache EXCEPT ![p] = Nothing]
  /\ Fresh({p})
  /\ UNCHANGED <<stored, writer, batch, late, caller>>

-----------------------------------------------------------------------------
(* The event handler, a BatchedCaller *)

\* Fault: it waits for a full batch.
CallWhenFull ==
  /\ caller = "asleep" /\ Projects \subseteq batch
  /\ caller' = "called"
  /\ cache' = [p \in Projects |-> IF p \in batch THEN Nothing ELSE cache[p]]
  /\ Fresh(batch)
  /\ UNCHANGED <<stored, writer, batch, late>>

\* After its sleep it invalidates what the events of its batch name.
Call ==
  /\ caller = "asleep" /\ batch # {}
  /\ caller' = "called"
  /\ cache' = [p \in Projects |-> IF p \in batch THEN Nothing ELSE cache[p]]
  /\ Fresh(batch)
  /\ UNCHANGED <<stored, writer, batch, late>>

\* The call raises: the loop is left, and nobody starts it again.
CallFails ==
  /\ caller = "asleep" /\ batch # {}
  /\ caller' = "dead"
  /\ UNCHANGED <<stored, cache, writer, batch, late, history>>

\* Once the loop runs again it clears the batch, late events included.
Clear ==
  /\ caller = "called"
  /\ caller' = "asleep" /\ batch' = {} /\ late' = {}
  /\ lost' = lost \cup (late \cap Projects)
  /\ UNCHANGED <<stored, cache, writer, untold>>

Next ==
  \/ \E S \in SUBSET Projects :
       InsertSpans(S) \/ DeleteProject(S) \/ \E named \in SUBSET S : DeleteSessions(S, named)
  \/ \E p \in Projects : DeleteTrace(p) \/ DeleteTraces(p)
  \/ \E p \in Projects, t \in Traces : DeleteSpan(p, t)
  \/ \E p, q \in Projects : Transfer(p, q)
  \/ PutEarly \/ Commit \/ Release \/ Rollback
  \/ \E p \in Projects : Load(p) \/ Read(p) \/ Evict(p)
  \/ Call \/ CallFails \/ Clear

Spec == Init /\ [][Next]_vars

\* The loop goes on and open sessions come to their end.
FairSpec ==
  /\ Spec
  /\ WF_vars(PutEarly) /\ WF_vars(Commit \/ Rollback) /\ WF_vars(Release)
  /\ WF_vars(Call) /\ WF_vars(Clear)

-----------------------------------------------------------------------------
(* Properties *)

TypeOK ==
  /\ stored \in [Projects -> 0..MaxChanges]
  /\ cache \in [Projects -> [at: {"nothing", "pending", "held"}, value: 0..MaxChanges]]
  /\ writer \in Writers
  /\ batch \in SUBSET Ids /\ late \in SUBSET Ids
  /\ untold \in SUBSET Projects /\ lost \in SUBSET Projects
  /\ caller \in {"asleep", "called", "dead"}

Stale(p) == cache[p].at = "held" /\ cache[p].value # stored[p]

\* What events tell that the handler will read or that a committed session will put;
\* and what they told in vain, being put while the handler had its batch in hand, or
\* left to a handler that is dead.
ToBePut == IF writer.at = "committed" /\ ~writer.early THEN writer.ids ELSE {}
Announced == ToBePut \cup IF caller = "asleep" THEN batch ELSE {}
InVain == lost \cup late \cup IF caller = "dead" THEN batch ELSE {}

\* A cached answer that no longer fits the database has one of three reasons: an event
\* announces the change; or its event was put in vain; or its session's event did not name
\* its project, as of a transfer, delete_span, the REST deletion of a project and
\* of sessions with traces that were moved.  It never goes stale otherwise, whether the
\* event is put early, between commit and release, or while readers wait.
StaleIsTold == \A p \in Projects : Stale(p) => p \in Announced \cup InVain \cup untold

\* Once changes cease, the caches come to fit the database, but for those whose event
\* was put in vain or did not name them, and unless the handler is dead.
CachesCatchUp ==
  <>[](\A p \in Projects : Stale(p) => p \in lost \cup untold \/ caller = "dead")
=============================================================================
