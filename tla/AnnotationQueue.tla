-------------------------- MODULE AnnotationQueue --------------------------
(***************************************************************************)
(* QueueInserter (db/insertion/types.py) with the _partition of span,      *)
(* trace, session and document annotations: annotations may come before    *)
(* their span, wait for it in a timer, and are given up after              *)
(* retry_allowance.  The four kinds differ in what they annotate, and      *)
(* document annotations in that one of a document which its span does not  *)
(* have is given up at once (NoSuchDocument, empty for the others).        *)
(*                                                                         *)
(* An annotation is in one place at a time, so the queue, which is a list  *)
(* whose order nothing depends on, is the set of those that are in it.     *)
(***************************************************************************)
EXTENDS Naturals, FiniteSets

CONSTANTS
  Annos, Keys, Spans,
  KeyOf,        \* Annos -> Keys: name, span and identifier
  SpanOf,       \* Keys -> Spans
  NoSuchDocument,  \* the keys whose document_position their span does not have
  None,
  Allowance,    \* retry_allowance
  MaxClock,     \* bound on time stamps, and on enqueues, direct writes and deleted spans
  MaxFailures,  \* bound on inserts that fail
  Faults        \* "transaction": the transaction of a round may fail

ASSUME KeysAssumption ==
  /\ IsFiniteSet(Annos) /\ KeyOf \in [Annos -> Keys] /\ SpanOf \in [Keys -> Spans]
  /\ NoSuchDocument \subseteq Keys
ASSUME BoundsAssumption ==
  Allowance \in Nat \ {0} /\ MaxClock \in Nat /\ MaxFailures \in Nat
ASSUME NoneAssumption == None \notin Nat
ASSUME FaultsAssumption == Faults \subseteq {"transaction"}

VARIABLES
  place,      \* where each annotation is
  left,       \* Postponed.retries_left; 0 for one that is just Received
  received,   \* received_at
  updated,    \* updated_at
  timers,     \* the lists that call_later will put back
  table,      \* per key the stored annotation's updated_at
  spans,      \* spans in the database
  pc,         \* the inserting task
  clock, failures,
  tries       \* history: rounds that could not store the annotation, up to
              \* Allowance + 1

parcels == <<left, received, updated>>
vars == <<place, parcels, timers, table, spans, pc, clock, failures, tries>>

Settled == {"stored", "superseded", "discarded", "rejected"}
Places == {"unsent", "queue", "hand", "timer", "lost"} \cup Settled

In(p) == {a \in Annos : place[a] = p}
Found(a) == SpanOf[KeyOf[a]] \in spans

Init ==
  /\ place = [a \in Annos |-> "unsent"]
  /\ left = [a \in Annos |-> 0]
  /\ received = [a \in Annos |-> 0] /\ updated = [a \in Annos |-> 0]
  /\ timers = {} /\ table = [k \in Keys |-> None] /\ spans = {}
  /\ pc = "idle" /\ clock = 0 /\ failures = 0
  /\ tries = [a \in Annos |-> 0]

-----------------------------------------------------------------------------
(* The world around *)

Tick == clock < MaxClock /\ clock' = clock + 1

\* as_precursor stamps updated_at; enqueue follows without an await.
Enqueue(a) ==
  /\ Tick /\ place[a] = "unsent"
  /\ place' = [place EXCEPT ![a] = "queue"]
  /\ updated' = [updated EXCEPT ![a] = clock'] /\ received' = [received EXCEPT ![a] = clock']
  /\ UNCHANGED <<left, timers, table, spans, pc, failures, tries>>

\* annotate_spans with sync=true upserts the row itself.  as_kv leaves updated_at
\* to the database: its clock's time at the transaction's start, on SQLite in whole
\* seconds, which may be before or after any other stamp.
DirectWrite(k) ==
  /\ Tick /\ SpanOf[k] \in spans /\ k \notin NoSuchDocument
  /\ \E t \in 0 .. MaxClock : table' = [table EXCEPT ![k] = t]
  /\ UNCHANGED <<place, parcels, timers, spans, pc, failures, tries>>

\* delete_span_annotations.
RowDeleted(k) ==
  /\ table[k] # None /\ table' = [table EXCEPT ![k] = None]
  /\ UNCHANGED <<place, parcels, timers, spans, pc, clock, failures, tries>>

SpanArrives(s) ==
  /\ s \notin spans /\ spans' = spans \cup {s}
  /\ UNCHANGED <<place, parcels, timers, table, pc, clock, failures, tries>>

SpanDeleted(s) ==
  /\ Tick /\ s \in spans /\ spans' = spans \ {s}
  /\ table' = [k \in Keys |-> IF SpanOf[k] = s THEN None ELSE table[k]]
  /\ UNCHANGED <<place, parcels, timers, pc, failures, tries>>

-----------------------------------------------------------------------------
(* insert: take the queue, then one transaction *)

\* The queue is copied and cleared; what is enqueued from here on stays.
Take ==
  /\ pc = "idle" /\ In("queue") # {}
  /\ place' = [a \in Annos |-> IF place[a] = "queue" THEN "hand" ELSE place[a]]
  /\ pc' = "insert"
  /\ UNCHANGED <<parcels, timers, table, spans, clock, failures, tries>>

\* Fault: stored rows are always overwritten.
NeverOld(a) == FALSE

\* Not newer than the row that is stored.
Old(a) == table[KeyOf[a]] # None /\ updated[a] <= table[KeyOf[a]]

\* "0 <= p.item.document_position < span.num_docs" is false, and no row is there.
Misplaced ==
  {a \in In("hand") : Found(a) /\ table[KeyOf[a]] = None /\ KeyOf[a] \in NoSuchDocument}

Fresh == {a \in In("hand") : Found(a) /\ ~Old(a)} \ Misplaced
Waiting == {a \in In("hand") : ~Found(a)}

\* dedup: of the annotations for a key, the one received last.
LatestOfKey(S) == {a \in S : \A b \in S : KeyOf[b] = KeyOf[a] => received[b] <= received[a]}

\* Fault: one round too few.
SpentEarly(a) == left[a] \in {1, 2}

\* Postponed as often as allowed.
Spent(a) == left[a] = 1

\* Fault: a postponed parcel gets its whole allowance again.
AllowanceAgain(a) == Allowance

NextAllowance(a) == IF left[a] = 0 THEN Allowance ELSE left[a] - 1

\* _partition and _insert.  What fails to insert was rewrapped as Received, so
\* it gets its whole allowance again.
Settle ==
  /\ pc = "insert"
  /\ \E bad \in SUBSET LatestOfKey(Fresh) :
       LET good == LatestOfKey(Fresh) \ bad
           later == {a \in Waiting : ~Spent(a)} IN
       /\ failures + Cardinality(bad) <= MaxFailures
       /\ failures' = failures + Cardinality(bad)
       /\ table' = [k \in Keys |->
            IF \E a \in good : KeyOf[a] = k
            THEN updated[CHOOSE a \in good : KeyOf[a] = k] ELSE table[k]]
       /\ place' = [a \in Annos |->
            CASE a \in good -> "stored"
              [] a \in later \cup bad -> "timer"
              [] a \in Waiting \ later -> "discarded"
              [] a \in Misplaced -> "rejected"
              [] a \in In("hand") \ (Waiting \cup Misplaced \cup good \cup bad) -> "superseded"
              [] OTHER -> place[a]]
       /\ left' = [a \in Annos |->
            CASE a \in later -> NextAllowance(a)
              [] a \in bad -> Allowance
              [] OTHER -> left[a]]
       /\ timers' = IF later \cup bad = {} THEN timers ELSE timers \cup {later \cup bad}
       /\ tries' = [a \in Annos |->
            IF a \in Waiting \cup bad /\ tries[a] <= Allowance THEN tries[a] + 1 ELSE tries[a]]
  /\ pc' = "idle"
  /\ UNCHANGED <<received, updated, spans, clock>>

\* An exception in _partition or the commit leaves insert(): the parcels in hand
\* are gone and BulkInserter's task ends.
TransactionFails ==
  /\ "transaction" \in Faults /\ pc = "insert"
  /\ place' = [a \in Annos |-> IF place[a] = "hand" THEN "lost" ELSE place[a]]
  /\ pc' = "dead"
  /\ UNCHANGED <<parcels, timers, table, spans, clock, failures, tries>>

\* _add_postponed_to_queue, after retry_delay_sec.
Fire(g) ==
  /\ timers' = timers \ {g}
  /\ place' = [a \in Annos |-> IF a \in g THEN "queue" ELSE place[a]]
  /\ UNCHANGED <<parcels, table, spans, pc, clock, failures, tries>>

World == \/ \E a \in Annos : Enqueue(a)
         \/ \E k \in Keys : DirectWrite(k) \/ RowDeleted(k)
         \/ \E s \in Spans : SpanArrives(s) \/ SpanDeleted(s)

\* Nothing is queued and no time stamp is left.
Rest == clock = MaxClock /\ UNCHANGED vars

Next == World \/ Take \/ Settle \/ TransactionFails \/ (\E g \in timers : Fire(g)) \/ Rest

Spec == Init /\ [][Next]_vars

\* The task's loop and the event loop's timers go on; nothing is assumed of the
\* world around.
FairSpec == Spec /\ WF_vars(Take) /\ WF_vars(Settle) /\ WF_vars(\E g \in timers : Fire(g))

-----------------------------------------------------------------------------
(* Properties *)

\* Types, and that the timers hold the postponed annotations, each once.
TypeOK ==
  /\ place \in [Annos -> Places] /\ left \in [Annos -> 0 .. Allowance]
  /\ received \in [Annos -> 0 .. MaxClock] /\ updated \in [Annos -> 0 .. MaxClock]
  /\ UNION timers = In("timer")
  /\ \A g, h \in timers : g # h => g \cap h = {}
  /\ table \in [Keys -> 0 .. MaxClock \cup {None}] /\ spans \subseteq Spans
  /\ pc \in {"idle", "insert", "dead"}
  /\ clock \in 0 .. MaxClock /\ failures \in 0 .. MaxFailures

\* The queue implements AnnotationTable: a row gives way to an annotation of the
\* queue only if it is older by its stamp, not to a retry that was overtaken nor to
\* the older of two that share a round; what is superseded gave way to a row or an
\* annotation at least as new by its stamp, though the annotation may fail to
\* insert; what is given up has no span, what is rejected no document.  A row that
\* is written directly has the stamp the database gave it, so an annotation sent
\* before that write may still replace it, and one sent after it be superseded.
Outcome ==
  [a \in Annos |-> IF place[a] \in {"queue", "hand", "timer"} THEN "pending" ELSE place[a]]
Table == INSTANCE AnnotationTable WITH stamp <- updated, outcome <- Outcome
TableSpec == Table!Spec

\* An annotation is given up for a missing span only after retry_allowance + 1
\* rounds that could not store it, however failed inserts and missing spans
\* alternate.  (One of a document that its span does not have is rejected by the
\* first round that finds the span.)
SpanGetsItsTime ==
  TypeOK /\ \A a \in In("discarded") : tries[a] >= Allowance + 1

\* Every annotation is stored, superseded, given up or rejected, whether its span
\* comes or not, if inserts do not fail for ever and the task does not end.
EveryAnnotationSettles ==
  \A a \in Annos : place[a] = "queue" ~> place[a] \in Settled \/ pc = "dead"
=============================================================================
