---------------------------- MODULE BulkInserter ----------------------------
(***************************************************************************)
(* db/bulk_inserter.py: request handlers append spans and evaluations to   *)
(* two queues and one task moves them to the database, spans first, in     *)
(* transactions of at most MaxOps.  Handlers run at every await of the     *)
(* task.  Spans come by two endpoints: addTraces tests the capacity and    *)
(* decodes in the background, createSpans does neither.                    *)
(*                                                                         *)
(* The operations queue (dataset uploads), emptied first in each round,    *)
(* touches none of this; the annotation queues are in AnnotationQueue.     *)
(* A span is sent once: insert_span's handling of duplicates is in         *)
(* TraceStore.                                                             *)
(***************************************************************************)
EXTENDS Naturals, Sequences, FiniteSets, SequencesExt

CONSTANTS
  Spans, Evals,
  SpanOf,          \* the span that an evaluation is of
  Batches,         \* the requests of addTraces: sequences of spans
  Uploads,         \* the requests of createSpans: sequences of spans
  Undecodable,     \* the spans that decode_otlp_span raises on
  LongestBatch,    \* bound on the spans of a request of addTraces
  Handlers,        \* bound on concurrent requests of addTraces
  MaxOps,          \* max_ops_per_transaction
  MaxQueue,        \* max_spans_queue_size
  Faults           \* what may happen: a savepoint or commit fails, annotations
                   \* are queued whose transaction fails, the server stops

ASSUME SpanOfAssumption == SpanOf \in [Evals -> Spans]
ASSUME KindsAssumption == Spans \cap Evals = {}
ASSUME BatchesAssumption ==
  /\ Batches \subseteq Seq(Spans) /\ LongestBatch \in Nat
  /\ \A b \in Batches : IsInjective(b) /\ Len(b) <= LongestBatch
ASSUME UploadsAssumption == Uploads \subseteq Seq(Spans) /\ \A b \in Uploads : IsInjective(b)
ASSUME UndecodableAssumption == Undecodable \subseteq Spans
ASSUME LimitsAssumption ==
  MaxOps \in Nat \ {0} /\ MaxQueue \in Nat \ {0} /\ IsFiniteSet(Handlers)
ASSUME FaultsAssumption == Faults \subseteq {"database", "annotations", "stop"}

VARIABLES
  handler,     \* per handler: what of its request is not yet enqueued
  queue,       \* self._spans
  evals,       \* self._evaluations
  pc,          \* where the task _bulk_insert is
  left,        \* num_spans_to_insert, num_evals_to_insert
  open,        \* spans or evaluations of the open transaction
  stored,      \* spans committed
  failed,      \* spans given up: savepoint or commit failed
  scored,      \* evaluations committed
  refused,     \* evaluations given up because their span is missing
  dropped,     \* evaluations given up because their transaction failed
  arrived,     \* history: every span enqueued, in order
  created,     \* history: the spans that createSpans enqueued
  lost,        \* history: spans that were answered with 200 and never enqueued
  early        \* history: evaluations that came when the next round would reach their span

sources == <<handler, arrived, created, lost>>
requests == <<sources, early>>
tables == <<stored, failed, scored, refused, dropped>>
vars == <<requests, queue, evals, pc, left, open, tables>>

Init ==
  /\ handler = [h \in Handlers |-> <<>>]
  /\ queue = <<>> /\ evals = <<>>
  /\ pc = "top" /\ left = [spans |-> 0, evals |-> 0] /\ open = {}
  /\ stored = {} /\ failed = {} /\ scored = {}
  /\ refused = {} /\ dropped = {}
  /\ arrived = <<>> /\ created = {} /\ lost = {} /\ early = {}

-----------------------------------------------------------------------------
(* Requests *)

Sent == Range(arrived) \cup lost \cup UNION {Range(handler[h]) : h \in Handlers}
EvalsSent == Range(evals) \cup scored \cup refused \cup dropped \cup open

is_full == MaxQueue <= Len(queue)

\* is_not_at_capacity, then the 200: the spans are enqueued in the background.
Accept(h) ==
  /\ handler[h] = <<>> /\ ~is_full
  /\ \E b \in Batches : Range(b) \cap Sent = {} /\ handler' = [handler EXCEPT ![h] = b]
  /\ UNCHANGED <<arrived, created, lost, early, queue, evals, pc, left, open, tables>>

\* Fault: the background work starts over and enqueues a span again.
EnqueueAgain(h) ==
  /\ handler[h] # <<>>
  /\ queue' = Append(queue, Head(handler[h]))
  /\ arrived' = Append(arrived, Head(handler[h]))
  /\ UNCHANGED <<handler, created, lost, early, evals, pc, left, open, tables>>

\* An exception of decode_otlp_span ends the background work: the span and those
\* after it in the request are lost.
Enqueue(h) ==
  /\ handler[h] # <<>>
  /\ IF Head(handler[h]) \in Undecodable
     THEN /\ handler' = [handler EXCEPT ![h] = <<>>]
          /\ lost' = lost \cup Range(handler[h])
          /\ UNCHANGED <<arrived, queue>>
     ELSE /\ handler' = [handler EXCEPT ![h] = Tail(@)]
          /\ queue' = Append(queue, Head(handler[h]))
          /\ arrived' = Append(arrived, Head(handler[h]))
          /\ UNCHANGED lost
  /\ UNCHANGED <<created, early, evals, pc, left, open, tables>>

\* createSpans: no capacity test, and nothing runs between two of its appends.
CreateSpans ==
  /\ \E b \in Uploads :
       /\ Range(b) \cap Sent = {}
       /\ queue' = queue \o b /\ arrived' = arrived \o b
       /\ created' = created \cup Range(b)
  /\ UNCHANGED <<handler, lost, early, evals, pc, left, open, tables>>

Taken == Len(arrived) - Len(queue)

\* s has been taken from the queue, or is among the next MaxOps in it.
InReach(s) == \E i \in DOMAIN arrived : arrived[i] = s /\ i <= Taken + MaxOps

SendEval(e) ==
  /\ e \notin EvalsSent
  /\ evals' = Append(evals, e)
  /\ early' = IF InReach(SpanOf[e]) THEN early \cup {e} ELSE early
  /\ UNCHANGED <<sources, queue, pc, left, open, tables>>

-----------------------------------------------------------------------------
(* The task *)

AtMost(n) == IF n < MaxOps THEN n ELSE MaxOps

\* Fault: the evaluations are counted when their turn comes, spans or not.
GrabAllEvals ==
  /\ pc = "top"
  /\ queue # <<>> \/ evals # <<>> \/ "annotations" \in Faults
  /\ left' = [spans |-> AtMost(Len(queue)), evals |-> Cardinality(Evals)]
  /\ pc' = "spans"
  /\ UNCHANGED <<requests, queue, evals, open, tables>>

\* Fault: the task waits for as many spans as it may insert at once.
GrabWhenFull ==
  /\ pc = "top"
  /\ Len(queue) >= MaxOps \/ evals # <<>>
  /\ left' = [spans |-> AtMost(Len(queue)), evals |-> AtMost(Len(evals))]
  /\ pc' = "spans"
  /\ UNCHANGED <<requests, queue, evals, open, tables>>

\* "It's important to grab the buffers at the same time."
Grab ==
  /\ pc = "top"
  /\ queue # <<>> \/ evals # <<>> \/ "annotations" \in Faults
  /\ left' = [spans |-> AtMost(Len(queue)), evals |-> AtMost(Len(evals))]
  /\ pc' = "spans"
  /\ UNCHANGED <<requests, queue, evals, open, tables>>

\* Fault: a span whose savepoint fails is forgotten.
InsertSpanQuietly ==
  /\ pc = "spans" /\ left.spans > 0 /\ queue # <<>>
  /\ left' = [left EXCEPT !.spans = @ - 1]
  /\ queue' = Tail(queue)
  /\ \/ open' = open \cup {Head(queue)}
     \/ "database" \in Faults /\ UNCHANGED open
  /\ UNCHANGED <<requests, evals, pc, tables>>

InsertSpan ==
  /\ pc = "spans" /\ left.spans > 0 /\ queue # <<>>
  /\ left' = [left EXCEPT !.spans = @ - 1]
  /\ queue' = Tail(queue)
  /\ \/ open' = open \cup {Head(queue)} /\ UNCHANGED failed
     \/ "database" \in Faults /\ failed' = failed \cup {Head(queue)} /\ UNCHANGED open
  /\ UNCHANGED <<requests, evals, pc, stored, scored, refused, dropped>>

\* The SpanInsertEvent is put in both cases.
CommitSpans ==
  /\ pc = "spans" /\ (left.spans = 0 \/ queue = <<>>)
  /\ \/ stored' = stored \cup open /\ UNCHANGED failed
     \/ "database" \in Faults /\ failed' = failed \cup open /\ UNCHANGED stored
  /\ pc' = "evals" /\ open' = {}
  /\ UNCHANGED <<requests, queue, evals, left, scored, refused, dropped>>

\* insert_evaluation raises InsertEvaluationError for a missing span.
InsertEval ==
  /\ pc = "evals" /\ left.evals > 0 /\ evals # <<>>
  /\ left' = [left EXCEPT !.evals = @ - 1]
  /\ evals' = Tail(evals)
  /\ IF SpanOf[Head(evals)] \in stored
     THEN open' = open \cup {Head(evals)} /\ UNCHANGED refused
     ELSE refused' = refused \cup {Head(evals)} /\ UNCHANGED open
  /\ UNCHANGED <<requests, queue, pc, stored, failed, scored, dropped>>

\* Any other exception ends the transaction, with what it has taken so far.
AbortEvals ==
  /\ "database" \in Faults /\ pc = "evals" /\ left.evals > 0 /\ evals # <<>>
  /\ evals' = Tail(evals)
  /\ dropped' = dropped \cup open \cup {Head(evals)}
  /\ pc' = "annotations" /\ open' = {}
  /\ UNCHANGED <<requests, queue, left, stored, failed, scored, refused>>

CommitEvals ==
  /\ pc = "evals" /\ (left.evals = 0 \/ evals = <<>>)
  /\ \/ scored' = scored \cup open /\ UNCHANGED dropped
     \/ "database" \in Faults /\ dropped' = dropped \cup open /\ UNCHANGED scored
  /\ pc' = "annotations" /\ open' = {}
  /\ UNCHANGED <<requests, queue, evals, left, stored, failed, refused>>

\* An exception of QueueInserter.insert is not caught: it ends the task.
InsertAnnotations ==
  /\ pc = "annotations"
  /\ \/ pc' = "top"
     \/ "annotations" \in Faults /\ pc' = "dead"
  /\ UNCHANGED <<requests, queue, evals, left, open, tables>>

\* __aexit__ cancels the task: the open transaction rolls back, what is queued
\* is not inserted.
Stop ==
  /\ "stop" \in Faults /\ pc \notin {"dead", "stopped"}
  /\ pc' = "stopped" /\ open' = {}
  /\ failed' = failed \cup (open \cap Spans) /\ dropped' = dropped \cup (open \cap Evals)
  /\ UNCHANGED <<requests, queue, evals, left, stored, scored, refused>>

Task == Grab \/ InsertSpan \/ CommitSpans \/ InsertEval \/ AbortEvals \/ CommitEvals
        \/ InsertAnnotations

\* Nothing left to do, or nobody left to do it.
Rest == pc \in {"top", "dead", "stopped"} /\ UNCHANGED vars

Next ==
  \/ \E h \in Handlers : Accept(h) \/ Enqueue(h)
  \/ CreateSpans
  \/ \E e \in Evals : SendEval(e)
  \/ Task \/ Stop \/ Rest

Spec == Init /\ [][Next]_vars
FairSpec == Spec /\ WF_vars(Task) /\ \A h \in Handlers : WF_vars(Enqueue(h))

-----------------------------------------------------------------------------
(* Properties *)

TypeOK ==
  /\ handler \in [Handlers -> Seq(Spans)]
  /\ queue \in Seq(Spans) /\ evals \in Seq(Evals)
  /\ pc \in {"top", "spans", "evals", "annotations", "dead", "stopped"}
  /\ left \in [spans: 0 .. MaxOps, evals: 0 .. MaxOps]
  /\ IF pc = "evals" THEN open \subseteq Evals ELSE open \subseteq Spans
  /\ stored \subseteq Spans /\ failed \subseteq Spans
  /\ scored \subseteq Evals /\ refused \subseteq Evals /\ dropped \subseteq Evals
  /\ arrived \in Seq(Spans) /\ created \subseteq Spans /\ lost \subseteq Spans
  /\ early \subseteq Evals

OpenSpans == IF pc = "spans" THEN open ELSE {}

\* First come, first served, once: the queue is the end of what arrived, and
\* each span before it is in one place, the open transaction, the table or
\* the log of failures.  A span that is lost in decoding is in none of them.
SpansAccounted ==
  /\ TypeOK
  /\ Taken >= 0 /\ queue = SubSeq(arrived, Taken + 1, Len(arrived))
  /\ Range(SubSeq(arrived, 1, Taken)) = OpenSpans \cup stored \cup failed
  /\ Cardinality(OpenSpans) + Cardinality(stored) + Cardinality(failed) = Taken
  /\ lost \cap Range(arrived) = {}

\* The spans that are accepted and not yet enqueued, by handler and place.
Pending == UNION {{h} \X DOMAIN handler[h] : h \in Handlers}

\* The places of the queue that spans of addTraces have.
Guarded == {i \in DOMAIN queue : queue[i] \notin created}

\* "The actual queue size may exceed this limit due to batch processing": is_full
\* is tested before the spans of a request are counted, and the spans arrive
\* later.  By addTraces the queue outgrows its limit by a batch per concurrent
\* handler and by no more, however many requests come and whatever createSpans
\* adds.  What createSpans itself adds has no bound: it tests nothing.
QueueBounded ==
  Cardinality(Guarded) + Cardinality(Pending)
    <= MaxQueue - 1 + Cardinality(Handlers) * LongestBatch

\* "Spans should be inserted before the evaluations, since an evaluation
\* insertion will fail if the span it references doesn't exist": an evaluation
\* that came after its span, and when at most MaxOps - 1 others were queued before
\* that, is refused only if inserting the span failed.
EvalsFindSpans == \A e \in refused \cap early : SpanOf[e] \in failed

Ended == pc \in {"dead", "stopped"}

\* The spans that are enqueued, and those that will be: no span before them in
\* their request, nor they themselves, stop the background work.
Coming ==
  Range(arrived) \cup
  UNION {{handler[h][i] : i \in {j \in DOMAIN handler[h] :
            \A k \in 1 .. j : handler[h][k] \notin Undecodable}} : h \in Handlers}

\* Every span that was accepted, by either endpoint, and that decoding reaches
\* is stored or reported as failed, and every evaluation is stored, refused or
\* dropped with its transaction, also when requests keep coming, unless the task
\* itself ends (the task's loop).  Of the other spans, those lost after the 200,
\* nothing more is heard.
EverythingDecided ==
  /\ \A s \in Spans : s \in Coming ~> s \in stored \cup failed \/ Ended
  /\ \A e \in Evals : e \in EvalsSent ~> e \in scored \cup refused \cup dropped \/ Ended
=============================================================================
