----------------------------- MODULE Experiments -----------------------------
(***************************************************************************)
(* The runs and evaluations of one experiment of extracted-core, as REST   *)
(* clients post them, several at once, and as the lists of what is still   *)
(* incomplete tell these clients what to post.                             *)
(*                                                                         *)
(* A run is posted in one transaction of two statements: is there a        *)
(* successful run, and if not, insert or overwrite.  With SQLite sessions  *)
(* take turns, with PostgreSQL they interleave.  A run is named by its     *)
(* example and repetition number, which are unique; an output by the       *)
(* number of the post that brought it.                                     *)
(***************************************************************************)
EXTENDS Integers, FiniteSets, FiniteSetsExt

CONSTANTS
  Examples,      \* the examples of the experiment's snapshot
  Repetitions,
  Keys,          \* pairs <<example, repetition>> that clients send
  EvalNames,
  Clients,       \* requests in flight
  Locks,         \* {TRUE}: SQLite; {FALSE}: PostgreSQL
  Limit,         \* examples in a page of incomplete runs
  MaxOutputs,    \* bound on posts
  None

ASSUME ExperimentAssumption ==
  /\ Examples \subseteq Nat \ {0} /\ IsFiniteSet(Examples)
  /\ Repetitions \in Nat \ {0} /\ Limit \in Nat \ {0}
ASSUME KeysAssumption == Keys \subseteq Nat \X (Nat \ {0}) /\ IsFiniteSet(Keys)
ASSUME OutputsAssumption == MaxOutputs \in Nat
ASSUME NoneAssumption == None \notin [ok: BOOLEAN, output: Nat]
ASSUME ExperimentLocksAssumption == Locks \subseteq BOOLEAN

VARIABLES
  lock,      \* whether sessions take turns
  live,      \* the experiment is stored
  runs,      \* key -> [ok, output] or None
  evals,     \* <<key, name>> -> [ok, output] or None: the output that was evaluated
  posting,   \* client -> the run it has found that it may write, or None
  judging,   \* client -> the evaluation it is working on, or None
  walk,      \* a client's way through the pages of incomplete runs
  outputs    \* posts so far

expVars == <<lock, live, runs, evals, posting, judging, walk, outputs>>

Proper == {k \in Keys : k[1] \in Examples /\ k[2] <= Repetitions}
Slots == Examples \X (1..Repetitions)
Jobs == Keys \X EvalNames

Posts == [key: Keys, ok: BOOLEAN]
Walks == [from: Nat, seen: SUBSET Slots, ended: BOOLEAN]

ExpInit ==
  /\ lock \in Locks /\ live = TRUE /\ outputs = 0
  /\ runs = [k \in Keys |-> None]
  /\ evals = [j \in Jobs |-> None]
  /\ posting = [c \in Clients |-> None]
  /\ judging = [c \in Clients |-> None]
  /\ walk = [from |-> 0, seen |-> {}, ended |-> FALSE]

-----------------------------------------------------------------------------
(* Lists and counts *)

StoredRuns == {k \in Keys : runs[k] # None}
Successes == {k \in StoredRuns : runs[k].ok}
Failures == StoredRuns \ Successes

\* get_successful_run_counts_subquery: whatever the repetition number.
SuccessCount(e) == Cardinality({k \in Successes : k[1] = e})

\* Fault: the repetitions that have any run at all are left out.
RepetitionsNotTried(e) ==
  IF SuccessCount(e) = 0 THEN 1..Repetitions
  ELSE {r \in 1..Repetitions : <<e, r>> \notin StoredRuns}

\* All of them when nothing has succeeded, else those with no successful run.
IncompleteRepetitions(e) ==
  IF SuccessCount(e) = 0 THEN 1..Repetitions
  ELSE {r \in 1..Repetitions : <<e, r>> \notin Successes}

\* The examples that have fewer successes than repetitions.
IncompleteExamples == {e \in Examples : SuccessCount(e) < Repetitions}

IncompleteRuns == UNION {{e} \X IncompleteRepetitions(e) : e \in IncompleteExamples}

\* GET /experiments/{id}: expected less stored.
MissingRunCount ==
  Cardinality(Examples) * Repetitions - Cardinality(Successes) - Cardinality(Failures)

\* The successful runs of the experiment's examples that lack a good evaluation.
IncompleteEvals ==
  {j \in Jobs : j[1] \in Successes /\ j[1][1] \in Examples /\ (evals[j] = None \/ ~evals[j].ok)}

-----------------------------------------------------------------------------
(* Posting runs *)

\* Fault: sessions never wait for each other.
AloneAlways == TRUE

\* With SQLite a session opens once no other is open.
Alone == lock => \A c \in Clients : posting[c] = None

\* Fault: success is not looked for.
BeginPostUnchecked(c, k, ok) ==
  /\ posting[c] = None /\ judging[c] = None /\ Alone /\ live
  /\ posting' = [posting EXCEPT ![c] = [key |-> k, ok |-> ok]]
  /\ UNCHANGED <<lock, live, runs, evals, judging, walk, outputs>>

\* The run is looked for; one that succeeded is answered with 409.
BeginPost(c, k, ok) ==
  /\ posting[c] = None /\ judging[c] = None /\ Alone /\ live
  /\ k \notin Successes
  /\ posting' = [posting EXCEPT ![c] = [key |-> k, ok |-> ok]]
  /\ UNCHANGED <<lock, live, runs, evals, judging, walk, outputs>>

WriteRun(k, ok) ==
  /\ outputs < MaxOutputs
  /\ outputs' = outputs + 1
  /\ runs' = [runs EXCEPT ![k] = [ok |-> ok, output |-> outputs + 1]]

\* INSERT ... ON CONFLICT DO UPDATE, which keeps the row's id and evaluations.
CommitPost(c) ==
  /\ posting[c] # None /\ live
  /\ WriteRun(posting[c].key, posting[c].ok)
  /\ posting' = [posting EXCEPT ![c] = None]
  /\ UNCHANGED <<lock, live, evals, judging, walk>>

\* The foreign key fails, or the client has gone.
FailPost(c) ==
  /\ posting[c] # None
  /\ posting' = [posting EXCEPT ![c] = None]
  /\ UNCHANGED <<lock, live, runs, evals, judging, walk, outputs>>

-----------------------------------------------------------------------------
(* Evaluations *)

\* A client takes a run from the list of incomplete evaluations, with its output.
Judge(c, j) ==
  /\ posting[c] = None /\ judging[c] = None /\ Alone /\ live
  /\ j \in IncompleteEvals
  /\ judging' = [judging EXCEPT ![c] = [job |-> j, output |-> runs[j[1]].output]]
  /\ UNCHANGED <<lock, live, runs, evals, posting, walk, outputs>>

\* POST /experiment_evaluations: insert or overwrite, by run and name.
PostEval(c, ok) ==
  /\ judging[c] # None /\ Alone /\ live
  /\ evals' = [evals EXCEPT ![judging[c].job] = [ok |-> ok, output |-> judging[c].output]]
  /\ judging' = [judging EXCEPT ![c] = None]
  /\ UNCHANGED <<lock, live, runs, posting, walk, outputs>>

\* The evaluator fails, or the experiment has gone.
GiveUp(c) ==
  /\ judging[c] # None
  /\ judging' = [judging EXCEPT ![c] = None]
  /\ UNCHANGED <<lock, live, runs, evals, posting, walk, outputs>>

-----------------------------------------------------------------------------
(* Walking through the incomplete runs *)

\* The first examples from the cursor on, and the one after these.
PageOf(from) ==
  {e \in IncompleteExamples : e >= from
     /\ Cardinality({f \in IncompleteExamples : f >= from /\ f < e}) < Limit}
Rest(from) == {e \in IncompleteExamples : e >= from} \ PageOf(from)

\* Fault: the cursor goes past the example that it should name.
CursorAfter(from) == Min(Rest(from)) + 1

\* next_cursor names the first example of the next page.
NextCursor(from) == Min(Rest(from))

NextPage ==
  /\ ~walk.ended /\ Alone /\ live
  /\ walk' = [from |-> IF Rest(walk.from) = {} THEN 0 ELSE NextCursor(walk.from),
              seen |-> walk.seen \cup
                       UNION {{e} \X IncompleteRepetitions(e) : e \in PageOf(walk.from)},
              ended |-> Rest(walk.from) = {}]
  /\ UNCHANGED <<lock, live, runs, evals, posting, judging, outputs>>

WalkAgain ==
  /\ walk.ended
  /\ walk' = [from |-> 0, seen |-> {}, ended |-> FALSE]
  /\ UNCHANGED <<lock, live, runs, evals, posting, judging, outputs>>

\* DELETE /experiments/{id}, or its dataset goes: runs and evaluations go with it.
DeleteExperiment ==
  /\ live /\ Alone
  /\ live' = FALSE
  /\ runs' = [k \in Keys |-> None] /\ evals' = [j \in Jobs |-> None]
  /\ UNCHANGED <<lock, posting, judging, walk, outputs>>

ExpNext ==
  \/ \E c \in Clients :
       \/ \E k \in Keys, ok \in BOOLEAN : BeginPost(c, k, ok)
       \/ CommitPost(c) \/ FailPost(c)
       \/ \E j \in Jobs : Judge(c, j)
       \/ \E ok \in BOOLEAN : PostEval(c, ok)
       \/ GiveUp(c)
  \/ NextPage \/ WalkAgain \/ DeleteExperiment

ExpSpec == ExpInit /\ [][ExpNext]_expVars

-----------------------------------------------------------------------------
(* Properties *)

ExpTypeOK ==
  /\ lock \in BOOLEAN /\ live \in BOOLEAN /\ outputs \in 0..MaxOutputs
  /\ runs \in [Keys -> [ok: BOOLEAN, output: 1..MaxOutputs] \cup {None}]
  /\ evals \in [Jobs -> [ok: BOOLEAN, output: 1..MaxOutputs] \cup {None}]
  /\ posting \in [Clients -> Posts \cup {None}]
  /\ judging \in [Clients -> [job: Jobs, output: 1..MaxOutputs] \cup {None}]
  /\ walk \in Walks

\* "Experiment run already exists with a successful result and cannot be updated":
\* while sessions take turns, a successful run keeps its output until the
\* experiment is deleted.
SuccessStands ==
  [][lock /\ live' => \A k \in Keys :
       k \in Successes => runs'[k] = runs[k]]_expVars

\* While sessions take turns, an evaluation posted by a client that follows the list is
\* one of the output that is stored: a run it may evaluate is a success, which stands.
EvaluatesWhatIsStored ==
  lock => \A j \in Jobs : evals[j] # None =>
    runs[j[1]] # None /\ runs[j[1]].ok /\ runs[j[1]].output = evals[j].output

\* Of an example: the runs that have not succeeded; the successes whose repetition number
\* is beyond the experiment's, which POST /runs accepts; and whether they make up for
\* what is missing.
Missing(e) == {s \in Slots : s[1] = e} \ Successes
Beyond(e) == {k \in Successes : k[1] = e /\ k[2] > Repetitions}
Hidden(e) == Cardinality(Missing(e)) <= Cardinality(Beyond(e))

\* "Returns all incomplete runs, including both missing runs (not yet attempted) and
\* failed runs (attempted but have errors)": the list has exactly what has not succeeded,
\* except that an example with as many successes beyond the experiment's repetitions
\* as it misses is left out with all it misses.  If all that is stored belongs to the
\* experiment, the list is as long as the counts of GET /experiments/{id} say.
ListIsExact ==
  /\ ExpTypeOK
  /\ live => IncompleteRuns = UNION {Missing(e) : e \in {f \in Examples : ~Hidden(f)}}
  /\ live /\ StoredRuns \subseteq Proper =>
       Cardinality(IncompleteRuns) = MissingRunCount + Cardinality(Failures)

\* While sessions take turns, a walk through the pages has shown, when it ends, every
\* run that is in the list by then, however many have left it meanwhile.
WalkShowsAll ==
  lock /\ live /\ walk.ended => IncompleteRuns \subseteq walk.seen
=============================================================================
