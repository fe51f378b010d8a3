-------------------------- MODULE AnnotationTable ---------------------------
(***************************************************************************)
(* What the table of annotations promises those who send them: what is     *)
(* sent replaces only a row with an older stamp, and what is not stored    *)
(* gave way to one at least as new, had no span or no such document, or    *)
(* was lost with a transaction that failed.  Rows written past the queue   *)
(* have any stamp.                                                         *)
(***************************************************************************)
EXTENDS Naturals

CONSTANTS Annos, Keys, Spans, KeyOf, SpanOf, NoSuchDocument, None

VARIABLES
  table,    \* per key the time stamp of the stored annotation, or None
  spans,
  stamp,    \* the time stamp of each annotation
  outcome   \* what has become of it
tableVars == <<table, spans, stamp, outcome>>

Init == /\ table = [k \in Keys |-> None] /\ spans = {}
        /\ stamp = [a \in Annos |-> 0] /\ outcome = [a \in Annos |-> "unsent"]

\* The stamps of what is sent follow the order of requests.
Send(a) ==
  /\ outcome[a] = "unsent" /\ outcome' = [outcome EXCEPT ![a] = "pending"]
  /\ stamp'[a] \in Nat /\ \A b \in Annos : stamp[b] < stamp'[a]
  /\ stamp' = [stamp EXCEPT ![a] = stamp'[a]]
  /\ UNCHANGED <<table, spans>>

\* A row is written or deleted directly, with whatever stamp.
Write(k) ==
  /\ table'[k] # None => table'[k] \in Nat /\ SpanOf[k] \in spans /\ k \notin NoSuchDocument
  /\ table' = [table EXCEPT ![k] = table'[k]]
  /\ UNCHANGED <<spans, stamp, outcome>>

Arrive(s) == spans' = spans \cup {s} /\ UNCHANGED <<table, stamp, outcome>>

Delete(s) ==
  /\ spans' = spans \ {s}
  /\ table' = [k \in Keys |-> IF SpanOf[k] = s THEN None ELSE table[k]]
  /\ UNCHANGED <<stamp, outcome>>

\* Under the annotation's key is, or is still to come, one that is at least as new.
GivesWay(a) ==
  \/ table[KeyOf[a]] # None /\ stamp[a] <= table[KeyOf[a]]
  \/ \E b \in Annos : KeyOf[b] = KeyOf[a] /\ outcome[b] = "pending" /\ stamp[a] < stamp[b]

\* Some annotations, one or many, are decided at once.
Decide ==
  LET now(o) == {a \in Annos : outcome[a] # outcome'[a] /\ outcome'[a] = o} IN
  /\ outcome' = [a \in Annos |-> outcome'[a]] /\ table' = [k \in Keys |-> table'[k]]
  /\ \A a \in Annos : outcome[a] # outcome'[a] =>
       outcome[a] = "pending" /\ outcome'[a] \in {"stored", "superseded", "discarded", "rejected"}
  /\ \A a \in now("stored") :
       /\ SpanOf[KeyOf[a]] \in spans /\ table'[KeyOf[a]] = stamp[a]
       /\ table[KeyOf[a]] # None => table[KeyOf[a]] < stamp[a]
  /\ \A k \in Keys : table'[k] # table[k] => \E a \in now("stored") : KeyOf[a] = k
  /\ \A a \in now("superseded") : GivesWay(a)'
  /\ \A a \in now("discarded") : SpanOf[KeyOf[a]] \notin spans
  /\ \A a \in now("rejected") : SpanOf[KeyOf[a]] \in spans /\ KeyOf[a] \in NoSuchDocument
  /\ UNCHANGED <<spans, stamp>>

\* A failing transaction takes along all that it had in hand.
Lose ==
  /\ outcome' = [a \in Annos |-> outcome'[a]]
  /\ \A a \in Annos : outcome[a] # outcome'[a] => outcome[a] = "pending" /\ outcome'[a] = "lost"
  /\ UNCHANGED <<table, spans, stamp>>

Next == \/ \E a \in Annos : Send(a)
        \/ \E k \in Keys : Write(k)
        \/ \E s \in Spans : Arrive(s) \/ Delete(s)
        \/ Decide \/ Lose

Spec == Init /\ [][Next]_tableVars
=============================================================================
