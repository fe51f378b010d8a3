------------------------------- MODULE Paging -------------------------------
(***************************************************************************)
(* A client that walks through a listing page by page while rows come, go  *)
(* and change.  `listing` is one of the three forms that the code has:      *)
(*                                                                         *)
(*   "id"    spans, sessions, projects: ordered by row id, and next_cursor *)
(*           is the id of the first row of the next page                   *)
(*   "time"  traces of a project over REST: ordered by start_time (or      *)
(*           latency) and row id; next_cursor is an id as well             *)
(*   "root"  one root span per trace over GraphQL: ordered by start_time   *)
(*           and row id; the cursor holds both, of the last trace shown,   *)
(*           and traces without a root span are made up for by more queries*)
(***************************************************************************)
EXTENDS Naturals, Sequences, SequencesExt, FiniteSetsExt

CONSTANTS
  Listings,        \* the forms in use
  MaxId, MaxTime,  \* bounds on row ids and start times
  Limit,           \* limit, or first
  Batch,           \* batch_size of a further query, max(first, 1000)
  Retries,         \* retries
  MaxShown,        \* bound on rows shown, of a walk by time that goes in circles
  MaxRowChanges    \* bound on changes of rows while the client walks

ASSUME ListingsAssumption == Listings \subseteq {"id", "time", "root"}
ASSUME SizesAssumption == Limit \in Nat \ {0} /\ Batch \in Nat /\ Limit <= Batch /\ Retries \in Nat
ASSUME BoundsAssumption == {MaxId, MaxTime, MaxShown, MaxRowChanges} \subseteq Nat

VARIABLES
  listing,
  rows,      \* row id -> start_time, and whether the trace has a root span
  order,     \* "asc" or "desc"
  cursor,    \* <<>> before the first page, else start_time and row id
  pc,        \* "ask", "more" between two queries of one answer, or "done"
  edges,     \* the answer so far
  retries,   \* further queries that this answer may still make
  seen,      \* what the client was shown
  steady,    \* history: rows that were listed, and kept their place, throughout
  changes
walkVars == <<listing, rows, order, cursor, pc, edges, retries, seen, steady, changes>>

RowRecords == [start : 0 .. MaxTime, rooted : BOOLEAN]

\* Where a row is in the order of the listing.
Place(i) == IF listing = "id" THEN <<0, i>> ELSE <<rows[i].start, i>>
Less(p, q) == p[1] < q[1] \/ (p[1] = q[1] /\ p[2] < q[2])
Ahead(p, q) == IF order = "asc" THEN Less(p, q) ELSE Less(q, p)

Listed == {i \in DOMAIN rows : listing = "root" => rows[i].rooted}

WalkInit ==
  /\ listing \in Listings
  /\ rows \in UNION {[S -> RowRecords] : S \in SUBSET (1 .. MaxId - 1)}
  /\ order \in {"asc", "desc"}
  /\ cursor = <<>> /\ pc = "ask" /\ edges = <<>> /\ retries = 0 /\ seen = <<>>
  /\ steady = Listed
  /\ changes = 0

-----------------------------------------------------------------------------
(* What other requests do to the rows *)

Change ==
  /\ changes < MaxRowChanges /\ changes' = changes + 1 /\ pc # "done"
  /\ UNCHANGED <<listing, order, cursor, pc, edges, retries, seen>>

\* SQLite gives the row the id after the largest that is there.
Insert ==
  /\ Change
  /\ LET new == Max(DOMAIN rows \cup {0}) + 1 IN
       /\ new <= MaxId
       /\ \E r \in RowRecords : rows' = [i \in DOMAIN rows \cup {new} |-> IF i = new THEN r ELSE rows[i]]
  /\ UNCHANGED steady

Delete(i) ==
  /\ Change
  /\ rows' = [j \in DOMAIN rows \ {i} |-> rows[j]] /\ steady' = steady \ {i}

\* A span that starts earlier arrives, or the root span comes or goes.
Update(i, r) ==
  /\ Change /\ r.start <= rows[i].start
  /\ rows' = [rows EXCEPT ![i] = r]
  /\ steady' = IF Place(i)' = Place(i) /\ i \in Listed' THEN steady ELSE steady \ {i}

-----------------------------------------------------------------------------
(* Queries *)

\* By id, from the row that the cursor names, in the order's direction.
FromId(i) == cursor = <<>> \/ ~Ahead(<<0, i>>, <<0, cursor[2]>>)

\* Fault: the trace that the cursor names is in the page again.
FromPlace(i) == cursor = <<>> \/ ~Ahead(Place(i), cursor)

\* By start_time and id, after the trace that the cursor names.
AfterPlace(i) == cursor = <<>> \/ Ahead(cursor, Place(i))

\* How many of the rows S come before row i, and the rows S in their order: the
\* n-th is the one that n - 1 come before.
Before(S, i) == Cardinality({j \in S : Ahead(Place(j), Place(i))})
InOrder(S) == [n \in 1 .. Cardinality(S) |-> CHOOSE i \in S : Before(S, i) = n - 1]

\* limit(n) of the rows in order; one more than asked for is fetched.
FirstOf(s, n) == SubSeq(s, 1, n)

\* Bound: the client has seen enough of a walk that repeats itself.
Circles == listing = "time" /\ Len(seen) >= MaxShown

\* A page of spans, sessions, projects or traces over REST.
RestPage ==
  /\ listing # "root" /\ pc = "ask" /\ ~Circles
  /\ LET found == InOrder({i \in DOMAIN rows : FromId(i)}) IN
       IF Len(found) > Limit
       THEN /\ seen' = seen \o FirstOf(found, Limit)
            /\ cursor' = Place(found[Limit + 1]) /\ pc' = "ask"
       ELSE seen' = seen \o found /\ cursor' = <<>> /\ pc' = "done"
  /\ UNCHANGED <<listing, rows, order, edges, retries, steady, changes>>

\* One query of _paginate_span_by_trace_start_time: n traces, the edges of those
\* that have a root span, the place of the last and whether there are more.
Query(n) ==
  LET found == InOrder({i \in DOMAIN rows : AfterPlace(i)})
      taken == FirstOf(found, IF Len(found) < n THEN Len(found) ELSE n) IN
  [edges |-> InOrder({i \in ToSet(taken) : rows[i].rooted}),
   end   |-> IF taken = <<>> THEN <<>> ELSE Place(Last(taken)),
   more  |-> Len(found) > n]

\* Answers with the edges e, or goes on to another query.
AnswerOrGoOn(e, end, more, left) ==
  /\ cursor' = end
  /\ IF Len(e) < Limit /\ more /\ left > 0
     THEN pc' = "more" /\ edges' = e /\ retries' = left /\ seen' = seen
     ELSE /\ pc' = IF more THEN "ask" ELSE "done"
          /\ edges' = <<>> /\ retries' = 0 /\ seen' = seen \o e

RootPage ==
  /\ listing = "root" /\ pc = "ask"
  /\ LET q == Query(Limit) IN AnswerOrGoOn(q.edges, q.end, q.more, Retries)
  /\ UNCHANGED <<listing, rows, order, steady, changes>>

\* Fault: the cursor is the last trace that was read, not the last shown.
NextEndRead(e, q) == q.end

\* With a full answer, the cursor is the last edge's.
NextEnd(e, q) == IF Len(e) < Limit THEN q.end ELSE Place(Last(e))

\* The loop that makes up for traces without a root span.
MoreRoots ==
  /\ pc = "more"
  /\ LET q == Query(Batch)
         needed == Limit - Len(edges)
         e == edges \o FirstOf(q.edges, IF Len(q.edges) < needed THEN Len(q.edges) ELSE needed) IN
       AnswerOrGoOn(e, NextEnd(e, q), Len(q.edges) > needed \/ q.more, retries - 1)
  /\ UNCHANGED <<listing, rows, order, steady, changes>>

\* The client has its last page, or enough.
Over == (pc = "done" \/ Circles) /\ UNCHANGED walkVars

WalkNext ==
  \/ Insert \/ \E i \in DOMAIN rows : Delete(i) \/ \E r \in RowRecords : Update(i, r)
  \/ RestPage \/ RootPage \/ MoreRoots \/ Over

WalkSpec == WalkInit /\ [][WalkNext]_walkVars

-----------------------------------------------------------------------------
(* Properties *)

\* Types, and that edges are held only while an answer is short of some.
WalkTypeOK ==
  /\ listing \in Listings
  /\ DOMAIN rows \subseteq 1 .. MaxId /\ \A i \in DOMAIN rows : rows[i] \in RowRecords
  /\ order \in {"asc", "desc"} /\ pc \in {"ask", "more", "done"}
  /\ cursor \in {<<>>} \cup (0 .. MaxTime) \X (1 .. MaxId)
  /\ edges \in Seq(1 .. MaxId) /\ seen \in Seq(1 .. MaxId)
  /\ Len(edges) < Limit /\ (pc # "more" => edges = <<>>)
  /\ pc = "more" => listing = "root" /\ retries > 0
  /\ retries \in 0 .. Retries /\ steady \subseteq DOMAIN rows /\ changes \in 0 .. MaxRowChanges

\* Traces over REST have a cursor by id in an order by time: it fits as long as
\* the ids follow the start times, which nothing but luck ensures.
CursorFits ==
  listing = "time" =>
    changes = 0 /\ \A i, j \in DOMAIN rows : i < j => rows[i].start <= rows[j].start

\* What keeps its place is shown in the listing's order, and never twice: not at
\* the border of two pages, nor when rows come or go around the cursor.
ShownInOrder ==
  CursorFits =>
    \A m, n \in DOMAIN seen :
      m < n /\ {seen[m], seen[n]} \subseteq steady => Ahead(Place(seen[m]), Place(seen[n]))

\* Who follows next_cursor to the end was shown all that kept its place.
NothingSkipped ==
  WalkTypeOK /\ (pc = "done" /\ CursorFits => steady \subseteq ToSet(seen))
=============================================================================
