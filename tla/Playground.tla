----------------------------- MODULE Playground -----------------------------
(***************************************************************************)
(* chat_completion_over_dataset of extracted-core: a subscription that     *)
(* runs a prompt over the examples of an experiment, at most MaxInProgress *)
(* at a time, tells its client what comes and saves one run per stream,    *)
(* while REST clients post runs of the same experiment or delete it.       *)
(*                                                                         *)
(* A stream is an async generator.  Each of its steps runs in a task of    *)
(* its own inside a second task that watches the time (_wait_for in        *)
(* _create_task_with_timeout); the subscription waits for the outer ones.  *)
(***************************************************************************)
EXTENDS Experiments

CONSTANTS MaxInProgress, MaxPosted   \* bound on the runs that REST clients post

ASSUME PlaygroundAssumption == MaxInProgress \in Nat \ {0} /\ MaxPosted \in Nat
ASSUME SlotsAreKeys == Slots \subseteq Keys

VARIABLES
  notStarted,   \* streams not started, in the order of Precedes
  stream,       \* slot -> [at, busy, bad]: place of the generator, whether a task
                \*   runs it, whether the model's answer failed
  outer,        \* slot -> NotAsked, Pending, or what the outer task came back with
  told,         \* slot -> kinds of messages, answers apart, that its client has had
  open,         \* the subscription runs
  ended,        \* it came to its end by itself
  posted        \* runs that REST clients have posted

pgVars == <<notStarted, stream, outer, told, open, ended, posted>>
allVars == <<expVars, pgVars>>

NotAsked == "not asked"
Pending == "pending"
Outcomes == {"chunk", "failed", "result", "end", "timeout", "error"}
InProgress == {s \in Slots : outer[s] # NotAsked}

\* All examples in turn, each with its repetitions from the last to the first.
Precedes(s, t) == s[1] < t[1] \/ (s[1] = t[1] /\ s[2] > t[2])

PgInit ==
  /\ ExpInit
  /\ notStarted = Slots
  /\ stream = [s \in Slots |-> [at |-> "fresh", busy |-> FALSE, bad |-> FALSE]]
  /\ outer = [s \in Slots |-> NotAsked]
  /\ told = [s \in Slots |-> {}]
  /\ open = TRUE /\ ended = FALSE /\ posted = 0

-----------------------------------------------------------------------------
(* The subscription's loop *)

Ask(s) == stream' = [stream EXCEPT ![s].busy = TRUE]

\* Starts the last stream of those that wait.
Start ==
  /\ open /\ Cardinality(InProgress) < MaxInProgress
  /\ \E s \in notStarted :
     /\ \A t \in notStarted \ {s} : Precedes(t, s)
     /\ notStarted' = notStarted \ {s}
     /\ outer' = [outer EXCEPT ![s] = Pending]
     /\ Ask(s)
  /\ UNCHANGED <<expVars, told, open, ended, posted>>

\* Fault: a stream that has failed is dropped and nobody is told.
HarvestSilently(s) ==
  /\ open /\ outer[s] \in Outcomes
  /\ told' = [told EXCEPT ![s] =
       IF outer[s] \in {"chunk", "end", "error", "timeout"} THEN @ ELSE @ \cup {outer[s]}]
  /\ IF outer[s] \in {"chunk", "failed", "result"}
     THEN outer' = [outer EXCEPT ![s] = Pending] /\ Ask(s)
     ELSE outer' = [outer EXCEPT ![s] = NotAsked] /\ UNCHANGED stream
  /\ UNCHANGED <<expVars, notStarted, open, ended, posted>>

\* What a task came back with is passed on.  A stream that gave something is asked
\* for more; one that is at its end, timed out or failed is done with.
Harvest(s) ==
  /\ open /\ outer[s] \in Outcomes
  /\ told' = [told EXCEPT ![s] = IF outer[s] \in {"chunk", "end"} THEN @ ELSE @ \cup {outer[s]}]
  /\ IF outer[s] \in {"chunk", "failed", "result"}
     THEN outer' = [outer EXCEPT ![s] = Pending] /\ Ask(s)
     ELSE outer' = [outer EXCEPT ![s] = NotAsked] /\ UNCHANGED stream
  /\ UNCHANGED <<expVars, notStarted, open, ended, posted>>

Finish ==
  /\ open /\ notStarted = {} /\ InProgress = {}
  /\ open' = FALSE /\ ended' = TRUE
  /\ UNCHANGED <<expVars, notStarted, stream, outer, told, posted>>

\* The client leaves: the outer tasks are cancelled, and the generators closed.  An
\* inner task is not cancelled with its outer one and still runs its generator,
\* whose aclose() therefore fails and is passed over.
Close ==
  /\ open
  /\ open' = FALSE /\ notStarted' = {}
  /\ outer' = [s \in Slots |-> NotAsked]
  /\ stream' = [s \in Slots |->
       IF stream[s].busy THEN stream[s] ELSE [at |-> "over", busy |-> FALSE, bad |-> FALSE]]
  /\ UNCHANGED <<expVars, told, ended, posted>>

-----------------------------------------------------------------------------
(* One step of a stream, in its inner task *)

\* The generator stops at a yield, or is over, and its task gives the outcome on.
Yields(s, at, bad, outcome) ==
  /\ stream' = [stream EXCEPT ![s] = [at |-> at, busy |-> FALSE, bad |-> bad]]
  /\ outer' = [outer EXCEPT ![s] = IF @ = Pending THEN outcome ELSE @]
  /\ UNCHANGED <<notStarted, told, open, ended, posted>>

\* The model sends a piece of its answer, the first or a later one: nothing limits how
\* many it sends, and the time is taken anew for each.
Chunk(s) ==
  /\ stream[s].busy /\ stream[s].at \in {"fresh", "answering"}
  /\ Yields(s, "answering", FALSE, "chunk") /\ UNCHANGED expVars

\* An evaluator's failure, before a good answer is saved, or an evaluation, after the
\* result.
EvaluatorTells(s) ==
  /\ stream[s].busy
  /\ stream[s].at = "telling" \/ (stream[s].at = "saving" /\ ~stream[s].bad)
  /\ Yields(s, stream[s].at, stream[s].bad, "chunk") /\ UNCHANGED expVars

\* The prompt cannot be formatted, or the model's client raises.
AnswerFails(s) ==
  /\ stream[s].busy /\ stream[s].at \in {"fresh", "answering"}
  /\ Yields(s, "saving", TRUE, "failed") /\ UNCHANGED expVars

\* The answer is complete; the same step goes on to evaluate and save it.
AnswerEnds(s) ==
  /\ stream[s].busy /\ stream[s].at \in {"fresh", "answering"}
  /\ stream' = [stream EXCEPT ![s].at = "saving"]
  /\ UNCHANGED <<expVars, notStarted, outer, told, open, ended, posted>>

\* Fault: the run is upserted.
SaveAnyway(s) ==
  /\ stream[s].busy /\ stream[s].at = "saving"
  /\ Alone /\ live
  /\ WriteRun(s, ~stream[s].bad)
  /\ Yields(s, "telling", FALSE, "result")
  /\ UNCHANGED <<lock, live, evals, posting, judging, walk>>

\* Traces and run are inserted in one transaction, and the result is yielded.
Save(s) ==
  /\ stream[s].busy /\ stream[s].at = "saving"
  /\ Alone /\ live /\ runs[s] = None
  /\ WriteRun(s, ~stream[s].bad)
  /\ Yields(s, "telling", FALSE, "result")
  /\ UNCHANGED <<lock, live, evals, posting, judging, walk>>

\* The run is there already, the experiment is gone, or the database fails.
SaveFails(s) ==
  /\ stream[s].busy /\ stream[s].at = "saving"
  /\ Alone
  /\ Yields(s, "over", FALSE, "error") /\ UNCHANGED expVars

\* The model's client raised before there was a span: there is no run to save.
NothingToSave(s) ==
  /\ stream[s].busy /\ stream[s].at = "saving" /\ stream[s].bad
  /\ Yields(s, "over", FALSE, "end") /\ UNCHANGED expVars

GeneratorEnds(s) ==
  /\ stream[s].busy /\ stream[s].at = "telling"
  /\ Yields(s, "over", FALSE, "end") /\ UNCHANGED expVars

\* Fault: only the first step is timed.
TimeOutFirst(s) ==
  /\ open /\ outer[s] = Pending /\ stream[s].busy /\ stream[s].at = "fresh"
  /\ Yields(s, "over", FALSE, "timeout")
  /\ UNCHANGED expVars

\* A step takes too long: the inner task is cancelled at whatever it waits for, which
\* may be a commit that goes through.
TimeOut(s) ==
  /\ open /\ outer[s] = Pending /\ stream[s].busy
  /\ Yields(s, "over", FALSE, "timeout")
  /\ \/ UNCHANGED expVars
     \/ /\ stream[s].at = "saving" /\ Alone /\ live /\ runs[s] = None
        /\ WriteRun(s, ~stream[s].bad)
        /\ UNCHANGED <<lock, live, evals, posting, judging, walk>>

-----------------------------------------------------------------------------
(* Other requests *)

Others ==
  /\ \/ \E c \in Clients, k \in Slots, ok \in BOOLEAN :
          posted < MaxPosted /\ BeginPost(c, k, ok) /\ posted' = posted + 1
     \/ \E c \in Clients : (CommitPost(c) \/ FailPost(c)) /\ posted' = posted
     \/ DeleteExperiment /\ posted' = posted
  /\ UNCHANGED <<notStarted, stream, outer, told, open, ended>>

StreamStep(s) ==
  \/ Chunk(s) \/ EvaluatorTells(s) \/ AnswerFails(s) \/ AnswerEnds(s)
  \/ Save(s) \/ SaveFails(s) \/ NothingToSave(s) \/ GeneratorEnds(s)

PgNext ==
  \/ Start \/ Finish \/ Close \/ Others
  \/ \E s \in Slots : Harvest(s) \/ StreamStep(s) \/ TimeOut(s)

PgSpec == PgInit /\ [][PgNext]_allVars

\* The event loop runs the subscription and the timers, and its client reads what it
\* is sent.  Nothing is asked of the model, the database or other clients.
PgFairSpec ==
  /\ PgSpec
  /\ WF_allVars(Start) /\ WF_allVars(Finish)
  /\ \A s \in Slots : WF_allVars(Harvest(s)) /\ WF_allVars(TimeOut(s))

-----------------------------------------------------------------------------
(* Properties *)

PgTypeOK ==
  /\ ExpTypeOK
  /\ notStarted \in SUBSET Slots
  /\ stream \in [Slots -> [at: {"fresh", "answering", "saving", "telling", "over"},
                            busy: BOOLEAN, bad: BOOLEAN]]
  /\ outer \in [Slots -> {NotAsked, Pending} \cup Outcomes]
  /\ told \in [Slots -> SUBSET Outcomes]
  /\ open \in BOOLEAN /\ ended \in BOOLEAN /\ posted \in 0..MaxPosted

\* A subscription that came to its end has told its client something final of every
\* stream; what it has told as a result is stored while the experiment is.  Where
\* sessions take turns, it has reported a failure of all that is still incomplete.
EndTellsAll ==
  /\ PgTypeOK
  /\ ended => \A s \in Slots : told[s] \cap {"result", "failed", "timeout", "error"} # {}
  /\ live => \A s \in Slots : "result" \in told[s] => runs[s] # None
  /\ lock /\ ended /\ live =>
       \A s \in IncompleteRuns : told[s] \cap {"failed", "timeout", "error"} # {}

\* Where sessions take turns, neither a stream nor a REST client replaces a run that
\* has succeeded, as long as the experiment is there.
StreamsSpareSuccess ==
  [][lock /\ live' => \A k \in Slots : k \in Successes => runs'[k] = runs[k]]_allVars

\* The subscription comes to an end, whether models answer, fail or hang, before their
\* first chunk or after any later one.  Only chunks that keep coming hold it open: each
\* has 90 seconds of its own, and neither their number nor the whole answer has a limit.
SubscriptionEnds ==
  <>~open \/ []<><<\E s \in Slots : Chunk(s) \/ EvaluatorTells(s)>>_allVars

\* "By awaiting all tasks first, we let them process cancellation and release their
\* generators": once the subscription is closed, no task runs a stream.
CleanupReleases == ~open => \A s \in Slots : ~stream[s].busy
=============================================================================
