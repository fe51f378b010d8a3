------------------------- MODULE BulkInserter_proofs -------------------------
(***************************************************************************)
(* Where every span is, how long the queue gets and which evaluations find *)
(* their span, for any requests, handlers, limits and faults.              *)
(***************************************************************************)
EXTENDS BulkInserter, SequenceTheorems, FiniteSetTheorems, FunctionTheorems, TLAPS

-----------------------------------------------------------------------------
(* Sequences *)

\* What the two ends of a queue do, element by element.
LEMMA TailElements ==
  ASSUME NEW S, NEW s \in Seq(S), s # <<>>
  PROVE  /\ Len(s) \in Nat \ {0} /\ Head(s) = s[1] /\ Head(s) \in S
         /\ Tail(s) \in Seq(S) /\ Len(Tail(s)) = Len(s) - 1
         /\ DOMAIN Tail(s) = 1 .. Len(s) - 1
         /\ \A i \in 1 .. Len(s) - 1 : Tail(s)[i] = s[i + 1]
<1>1. Len(s) \in Nat \ {0} /\ DOMAIN s = 1 .. Len(s)
  BY EmptySeq, LenProperties
<1>2. /\ Head(s) \in S /\ Tail(s) \in Seq(S) /\ Len(Tail(s)) = Len(s) - 1
      /\ \A i \in 1 .. Len(Tail(s)) : Tail(s)[i] = s[i + 1]
  BY HeadTailProperties
<1>3. DOMAIN Tail(s) = 1 .. Len(s) - 1
  BY <1>2, LenProperties
<1>4. Head(s) = s[1]
  OBVIOUS
<1> QED
  BY <1>1, <1>2, <1>3, <1>4

LEMMA AppendElements ==
  ASSUME NEW S, NEW s \in Seq(S), NEW x \in S
  PROVE  /\ Append(s, x) \in Seq(S) /\ Len(Append(s, x)) = Len(s) + 1
         /\ Len(s) \in Nat /\ DOMAIN s = 1 .. Len(s)
         /\ DOMAIN Append(s, x) = 1 .. Len(s) + 1
         /\ \A i \in 1 .. Len(s) : Append(s, x)[i] = s[i]
         /\ Append(s, x)[Len(s) + 1] = x
<1>1. /\ Append(s, x) \in Seq(S) /\ Len(Append(s, x)) = Len(s) + 1
      /\ \A i \in 1 .. Len(s) : Append(s, x)[i] = s[i]
      /\ Append(s, x)[Len(s) + 1] = x
  BY AppendProperties
<1> QED
  BY <1>1, LenProperties

LEMMA ConcatElements ==
  ASSUME NEW S, NEW s \in Seq(S), NEW t \in Seq(S)
  PROVE  /\ s \o t \in Seq(S) /\ Len(s \o t) = Len(s) + Len(t)
         /\ DOMAIN (s \o t) = 1 .. Len(s) + Len(t)
         /\ \A i \in 1 .. Len(s) : (s \o t)[i] = s[i]
         /\ \A i \in Len(s) + 1 .. Len(s) + Len(t) : (s \o t)[i] = t[i - Len(s)]
<1>1. Len(s) \in Nat /\ Len(t) \in Nat
  BY LenProperties
<1>2. /\ s \o t \in Seq(S) /\ Len(s \o t) = Len(s) + Len(t)
      /\ \A i \in 1 .. Len(s) + Len(t) : (s \o t)[i] = IF i <= Len(s) THEN s[i] ELSE t[i - Len(s)]
  BY ConcatProperties
<1>3. DOMAIN (s \o t) = 1 .. Len(s) + Len(t)
  BY <1>2, LenProperties
<1> QED
  BY <1>1, <1>2, <1>3

\* The first n of a sequence without repetition are n.
LEMMA CountOfFirst ==
  ASSUME NEW S, NEW s \in Seq(S), IsInjective(s), NEW n \in 0 .. Len(s),
         NEW R, \A x : x \in R <=> \E i \in 1 .. n : x = s[i]
  PROVE  Range(SubSeq(s, 1, n)) = R /\ IsFiniteSet(R) /\ Cardinality(R) = n
<1>1. DOMAIN s = 1 .. Len(s) /\ Len(s) \in Nat
  BY LenProperties
<1>2. \A i \in 1 .. n : s[i] \in S
  BY <1>1, ElementOfSeq
<1>3. /\ SubSeq(s, 1, n) \in Seq(S)
      /\ Len(SubSeq(s, 1, n)) = n
      /\ \A i \in 1 .. n : SubSeq(s, 1, n)[i] = s[i]
  <2>1. /\ SubSeq(s, 1, n) \in Seq(S)
        /\ Len(SubSeq(s, 1, n)) = IF 1 <= n THEN n - 1 + 1 ELSE 0
        /\ \A i \in 1 .. n - 1 + 1 : SubSeq(s, 1, n)[i] = s[1 + i - 1]
    BY <1>2, SubSeqProperties
  <2>2. \A i \in 1 .. n : i \in 1 .. n - 1 + 1 /\ 1 + i - 1 = i
    OBVIOUS
  <2> QED
    BY <2>1, <2>2
<1>4. Range(SubSeq(s, 1, n)) = {s[i] : i \in 1 .. n}
  <2>1. DOMAIN SubSeq(s, 1, n) = 1 .. n
    BY <1>3, LenProperties
  <2> QED
    BY <1>3, <2>1 DEF Range
<1> DEFINE f == [i \in 1 .. n |-> s[i]]
<1>5. f \in Bijection(1 .. n, R)
  <2>1. f \in [1 .. n -> R]
    OBVIOUS
  <2>2. \A a, b \in 1 .. n : f[a] = f[b] => a = b
    <3> SUFFICES ASSUME NEW a \in 1 .. n, NEW b \in 1 .. n, f[a] = f[b] PROVE a = b
      OBVIOUS
    <3>1. a \in DOMAIN s /\ b \in DOMAIN s /\ s[a] = s[b]
      BY <1>1
    <3> QED
      BY <3>1 DEF IsInjective
  <2>3. \A r \in R : \E i \in 1 .. n : f[i] = r
    OBVIOUS
  <2> HIDE DEF f
  <2> QED
    BY <2>1, <2>2, <2>3, Fun_IsBij
<1>6. IsFiniteSet(1 .. n) /\ Cardinality(1 .. n) = n
  BY FS_Interval
<1>7. ExistsBijection(1 .. n, R)
  BY <1>5 DEF ExistsBijection
<1>8. IsFiniteSet(R) /\ Cardinality(R) = Cardinality(1 .. n)
  BY <1>6, <1>7, FS_Bijection
<1> QED
  BY <1>4, <1>6, <1>8

-----------------------------------------------------------------------------
(* The inductive invariant *)

OpenFits == pc \notin {"spans", "evals"} => open = {}

\* The queue is the end of what arrived.
QueueFits ==
  /\ Len(queue) <= Len(arrived)
  /\ \A i \in 1 .. Len(queue) : queue[i] = arrived[Taken + i]

\* No span is sent twice, and none that is lost arrives.
SentOnce ==
  /\ IsInjective(arrived) /\ lost \cap Range(arrived) = {}
  /\ \A h \in Handlers : /\ IsInjective(handler[h])
                         /\ Range(handler[h]) \cap (Range(arrived) \cup lost) = {}
  /\ \A h, g \in Handlers : h # g => Range(handler[h]) \cap Range(handler[g]) = {}

TakenSpans == {arrived[i] : i \in 1 .. Taken}

\* What was taken from the queue is in one place.
Placed ==
  /\ TakenSpans = OpenSpans \cup stored \cup failed
  /\ OpenSpans \cap (stored \cup failed) = {} /\ stored \cap failed = {}

\* s is among the first n that arrived.
Within(s, n) == \E i \in DOMAIN arrived : arrived[i] = s /\ i <= n

\* Of the evaluations that are early, those of this round have their spans in this
\* round, and the others in the next at the latest.
RoundFits ==
  /\ pc \in {"spans", "evals"} => left.evals <= Len(evals)
  /\ \A i \in DOMAIN evals : evals[i] \in early => InReach(SpanOf[evals[i]])
  /\ pc = "spans" => \A i \in 1 .. left.evals :
       evals[i] \in early => Within(SpanOf[evals[i]], Taken + left.spans)
  /\ pc = "evals" => \A i \in 1 .. left.evals :
       evals[i] \in early => SpanOf[evals[i]] \in stored \cup failed

EarlySent == early \subseteq EvalsSent

ShortBatches == \A h \in Handlers : Len(handler[h]) <= LongestBatch

BulkInv ==
  /\ TypeOK /\ OpenFits /\ QueueFits /\ SentOnce /\ Placed /\ RoundFits /\ EvalsFindSpans
  /\ EarlySent /\ ShortBatches /\ QueueBounded

LEMMA InitBulk == Init => BulkInv
<1> SUFFICES ASSUME Init PROVE BulkInv
  OBVIOUS
<1>1. Len(<<>>) = 0 /\ DOMAIN <<>> = {} /\ Range(<<>>) = {} /\ IsInjective(<<>>)
  BY DEF Range, IsInjective
<1>2. TypeOK /\ OpenFits
  BY LimitsAssumption DEF Init, TypeOK, OpenFits
<1>3. QueueFits /\ SentOnce /\ ShortBatches /\ RoundFits /\ EvalsFindSpans /\ EarlySent
  BY <1>1, BatchesAssumption
  DEF Init, QueueFits, SentOnce, ShortBatches, RoundFits, EvalsFindSpans, EarlySent
<1>4. Placed
  BY <1>1 DEF Init, Placed, TakenSpans, Taken, OpenSpans
<1>5. QueueBounded
  <2>1. Pending = {} /\ Guarded = {}
    BY <1>1 DEF Init, Pending, Guarded
  <2>2. Cardinality(Handlers) * LongestBatch \in Nat
    BY FS_CardinalityType, LimitsAssumption, BatchesAssumption
  <2> QED
    BY <1>1, <2>1, <2>2, FS_EmptySet, LimitsAssumption DEF Init, QueueBounded
<1> QED
  BY <1>2, <1>3, <1>4, <1>5 DEF BulkInv

-----------------------------------------------------------------------------
(* Requests *)

\* No more is pending than every handler's longest batch.
LEMMA PendingBound ==
  ASSUME NEW f \in [Handlers -> Seq(Spans)], \A h \in Handlers : Len(f[h]) <= LongestBatch
  PROVE  LET waiting == UNION {{h} \X DOMAIN f[h] : h \in Handlers} IN
         /\ IsFiniteSet(waiting)
         /\ Cardinality(waiting) \in Nat
         /\ Cardinality(waiting) <= Cardinality(Handlers) * LongestBatch
<1> DEFINE L == 1 .. LongestBatch
           waiting == UNION {{h} \X DOMAIN f[h] : h \in Handlers}
<1>1. IsFiniteSet(L) /\ Cardinality(L) = LongestBatch
  BY FS_Interval, BatchesAssumption
<1>2. IsFiniteSet(Handlers \X L) /\ Cardinality(Handlers \X L) = Cardinality(Handlers) * LongestBatch
  <2> HIDE DEF L
  <2> QED
    BY <1>1, FS_Product, LimitsAssumption
<1>3. waiting \subseteq Handlers \X L
  <2> SUFFICES ASSUME NEW h \in Handlers PROVE DOMAIN f[h] \subseteq L
    OBVIOUS
  <2>1. DOMAIN f[h] = 1 .. Len(f[h]) /\ Len(f[h]) \in Nat
    BY LenProperties
  <2> QED
    BY <2>1, BatchesAssumption
<1> HIDE DEF L, waiting
<1>4. IsFiniteSet(waiting) /\ Cardinality(waiting) <= Cardinality(Handlers \X L)
  BY <1>2, <1>3, FS_Subset
<1>5. Cardinality(waiting) \in Nat
  BY <1>4, FS_CardinalityType
<1> QED
  BY <1>2, <1>4, <1>5 DEF waiting

\* The places of a queue that some spans do not have are places of the queue.
LEMMA GuardedBound ==
  ASSUME NEW q \in Seq(Spans), NEW free
  PROVE  LET places == {i \in DOMAIN q : q[i] \notin free} IN
         IsFiniteSet(places) /\ Cardinality(places) \in Nat /\ Cardinality(places) <= Len(q)
<1> DEFINE places == {i \in DOMAIN q : q[i] \notin free}
<1>1. Len(q) \in Nat /\ DOMAIN q = 1 .. Len(q)
  BY LenProperties
<1>2. \A n \in Nat : IsFiniteSet(1 .. n) /\ Cardinality(1 .. n) = n
  BY FS_Interval
<1>3. places \subseteq 1 .. Len(q)
  BY <1>1
<1> HIDE DEF places
<1>4. IsFiniteSet(1 .. Len(q)) /\ Cardinality(1 .. Len(q)) = Len(q)
  BY <1>1, <1>2
<1>5. IsFiniteSet(places) /\ Cardinality(places) <= Len(q)
  BY <1>3, <1>4, FS_Subset
<1>6. Cardinality(places) \in Nat
  BY <1>5, FS_CardinalityType
<1> QED
  BY <1>5, <1>6 DEF places

LEMMA AcceptKeeps ==
  ASSUME BulkInv, NEW h \in Handlers, Accept(h)
  PROVE  BulkInv'
<1>1. PICK b \in Batches :
        Range(b) \cap Sent = {} /\ handler' = [handler EXCEPT ![h] = b]
  BY DEF Accept
<1>2. b \in Seq(Spans) /\ IsInjective(b) /\ Len(b) <= LongestBatch
  BY BatchesAssumption
<1>3. /\ handler' \in [Handlers -> Seq(Spans)] /\ handler'[h] = b
      /\ \A g \in Handlers : g # h => handler'[g] = handler[g]
  BY <1>1, <1>2 DEF BulkInv, TypeOK
<1>4. UNCHANGED <<arrived, created, lost, early, queue, evals, pc, left, open, tables>>
  BY DEF Accept
<1>5. /\ TypeOK' /\ OpenFits' /\ QueueFits' /\ Placed' /\ RoundFits' /\ EvalsFindSpans'
      /\ EarlySent'
  <2>1. TypeOK' /\ OpenFits'
    BY <1>3, <1>4 DEF BulkInv, TypeOK, OpenFits, tables
  <2>2. QueueFits' /\ Placed' /\ EvalsFindSpans' /\ EarlySent'
    BY <1>4 DEF BulkInv, QueueFits, Placed, EvalsFindSpans, Taken, TakenSpans, OpenSpans,
                EarlySent, EvalsSent, tables
  <2>3. RoundFits'
    BY <1>4 DEF BulkInv, RoundFits, Taken, InReach, Within, tables
  <2> QED
    BY <2>1, <2>2, <2>3
<1>6. SentOnce'
  <2>1. Range(b) \cap (Range(arrived) \cup lost) = {}
    BY <1>1 DEF Sent
  <2>2. \A g \in Handlers : Range(b) \cap Range(handler[g]) = {}
    BY <1>1 DEF Sent
  <2> QED
    BY <1>2, <1>3, <1>4, <2>1, <2>2 DEF BulkInv, SentOnce
<1>7. ShortBatches'
  BY <1>2, <1>3 DEF BulkInv, ShortBatches
<1>8. QueueBounded'
  <2>1. /\ Cardinality(Pending') \in Nat
        /\ Cardinality(Pending') <= Cardinality(Handlers) * LongestBatch
    BY <1>3, <1>7, PendingBound DEF ShortBatches, Pending
  <2>2. Len(queue) <= MaxQueue - 1 /\ Len(queue) \in Nat
    <3>1. Len(queue) \in Nat
      BY LenProperties DEF BulkInv, TypeOK
    <3> QED
      BY <3>1, LimitsAssumption DEF Accept, is_full
  <2>3. Cardinality(Handlers) * LongestBatch \in Nat
    BY FS_CardinalityType, LimitsAssumption, BatchesAssumption
  <2>4. /\ Cardinality(Guarded) \in Nat /\ Cardinality(Guarded) <= Len(queue)
        /\ Guarded' = Guarded
    BY <1>4, GuardedBound DEF BulkInv, TypeOK, Guarded
  <2> QED
    BY <2>1, <2>2, <2>3, <2>4, LimitsAssumption DEF QueueBounded
<1> QED
  BY <1>5, <1>6, <1>7, <1>8 DEF BulkInv

LEMMA DecodedKeeps ==
  ASSUME BulkInv, NEW h \in Handlers, Enqueue(h), Head(handler[h]) \notin Undecodable
  PROVE  BulkInv'
<1> DEFINE s == Head(handler[h])
<1>1. /\ handler[h] \in Seq(Spans) /\ handler[h] # <<>> /\ queue \in Seq(Spans)
      /\ arrived \in Seq(Spans) /\ handler \in [Handlers -> Seq(Spans)]
  BY DEF BulkInv, TypeOK, Enqueue
<1>2. /\ handler' = [handler EXCEPT ![h] = Tail(handler[h])]
      /\ queue' = Append(queue, s) /\ arrived' = Append(arrived, s)
      /\ UNCHANGED <<created, lost, early, evals, pc, left, open, tables>>
  BY DEF Enqueue
<1>3. /\ Len(handler[h]) \in Nat \ {0} /\ s = handler[h][1] /\ s \in Spans
      /\ DOMAIN handler[h] = 1 .. Len(handler[h])
      /\ Tail(handler[h]) \in Seq(Spans) /\ Len(Tail(handler[h])) = Len(handler[h]) - 1
      /\ DOMAIN Tail(handler[h]) = 1 .. Len(handler[h]) - 1
      /\ \A i \in 1 .. Len(handler[h]) - 1 : Tail(handler[h])[i] = handler[h][i + 1]
  BY <1>1, TailElements, LenProperties
<1>4. /\ queue' \in Seq(Spans) /\ Len(queue') = Len(queue) + 1 /\ Len(queue) \in Nat
      /\ \A i \in 1 .. Len(queue) : queue'[i] = queue[i]
      /\ queue'[Len(queue) + 1] = s
  BY <1>1, <1>2, <1>3, AppendElements
<1>5. /\ arrived' \in Seq(Spans) /\ Len(arrived') = Len(arrived) + 1 /\ Len(arrived) \in Nat
      /\ DOMAIN arrived = 1 .. Len(arrived) /\ DOMAIN arrived' = 1 .. Len(arrived) + 1
      /\ \A i \in 1 .. Len(arrived) : arrived'[i] = arrived[i]
      /\ arrived'[Len(arrived) + 1] = s
  BY <1>1, <1>2, <1>3, AppendElements
<1>6. /\ handler' \in [Handlers -> Seq(Spans)] /\ handler'[h] = Tail(handler[h])
      /\ \A g \in Handlers : g # h => handler'[g] = handler[g]
  BY <1>1, <1>2, <1>3
<1> HIDE DEF s
<1>7. TypeOK' /\ OpenFits'
  BY <1>2, <1>4, <1>5, <1>6 DEF BulkInv, TypeOK, OpenFits, tables
<1>8. Taken' = Taken /\ Taken \in Nat /\ Taken <= Len(arrived)
  BY <1>4, <1>5 DEF BulkInv, Taken, QueueFits
<1>9. QueueFits'
  <2> SUFFICES ASSUME NEW i \in 1 .. Len(queue') PROVE queue'[i] = arrived'[Taken' + i]
    BY <1>4, <1>5 DEF BulkInv, QueueFits
  <2>1. CASE i = Len(queue) + 1
    BY <1>4, <1>5, <1>8, <2>1 DEF Taken
  <2>2. CASE i \in 1 .. Len(queue)
    <3>1. Taken + i \in 1 .. Len(arrived)
      BY <1>4, <1>5, <1>8, <2>2 DEF Taken
    <3> QED
      BY <1>4, <1>5, <1>8, <2>2, <3>1 DEF BulkInv, QueueFits
  <2> QED
    BY <1>4, <2>1, <2>2
<1>10. /\ Range(arrived') = Range(arrived) \cup {s}
       /\ Range(handler'[h]) = Range(handler[h]) \ {s} /\ s \in Range(handler[h])
       /\ IsInjective(handler'[h])
  <2>1. IsInjective(handler[h])
    BY DEF BulkInv, SentOnce
  <2>2. Range(arrived') = Range(arrived) \cup {s}
    BY <1>5 DEF Range
  <2>3. s \in Range(handler[h])
    BY <1>3 DEF Range
  <2>4. ASSUME NEW x \in Range(handler'[h]) PROVE x \in Range(handler[h]) /\ x # s
    <3>1. PICK i \in 1 .. Len(handler[h]) - 1 : x = handler[h][i + 1]
      BY <1>3, <1>6, <2>4 DEF Range
    <3>2. i + 1 \in DOMAIN handler[h] /\ 1 \in DOMAIN handler[h] /\ i + 1 # 1
      BY <1>3, <3>1
    <3> QED
      BY <1>3, <2>1, <3>1, <3>2 DEF Range, IsInjective
  <2>5. ASSUME NEW x \in Range(handler[h]), x # s PROVE x \in Range(handler'[h])
    <3>1. PICK i \in 1 .. Len(handler[h]) : x = handler[h][i]
      BY <1>3, <2>5 DEF Range
    <3>2. i # 1 /\ i - 1 \in 1 .. Len(handler[h]) - 1 /\ (i - 1) + 1 = i
      BY <1>3, <2>5, <3>1
    <3>3. handler'[h][i - 1] = x
      BY <1>3, <1>6, <3>1, <3>2
    <3> QED
      BY <1>3, <1>6, <3>2, <3>3 DEF Range
  <2>6. IsInjective(handler'[h])
    <3> SUFFICES ASSUME NEW i \in DOMAIN handler'[h], NEW j \in DOMAIN handler'[h],
                        handler'[h][i] = handler'[h][j]
                 PROVE  i = j
      BY DEF IsInjective
    <3>1. /\ i + 1 \in DOMAIN handler[h] /\ j + 1 \in DOMAIN handler[h]
          /\ i \in Nat /\ j \in Nat
      BY <1>3, <1>6
    <3>2. handler[h][i + 1] = handler[h][j + 1]
      BY <1>3, <1>6
    <3>3. i + 1 = j + 1
      BY <2>1, <3>1, <3>2 DEF IsInjective
    <3> QED
      BY <3>1, <3>3
  <2> QED
    BY <2>2, <2>3, <2>4, <2>5, <2>6
<1>11. SentOnce'
  <2>1. s \notin Range(arrived) /\ s \notin lost
    BY <1>10 DEF BulkInv, SentOnce
  <2>2. IsInjective(arrived')
    <3> SUFFICES ASSUME NEW i \in DOMAIN arrived', NEW j \in DOMAIN arrived',
                        arrived'[i] = arrived'[j]
                 PROVE  i = j
      BY DEF IsInjective
    <3>1. IsInjective(arrived)
      BY DEF BulkInv, SentOnce
    <3>2. \A k \in 1 .. Len(arrived) : arrived'[k] = arrived[k] /\ arrived[k] # s
      BY <1>5, <2>1 DEF Range
    <3>3. CASE i \in 1 .. Len(arrived) /\ j \in 1 .. Len(arrived)
      BY <1>5, <3>1, <3>2, <3>3 DEF IsInjective
    <3>4. CASE i = Len(arrived) + 1
      BY <1>5, <3>2, <3>4
    <3>5. CASE j = Len(arrived) + 1
      BY <1>5, <3>2, <3>5
    <3> QED
      BY <1>5, <3>3, <3>4, <3>5
  <2>3. \A g \in Handlers : g # h => s \notin Range(handler[g])
    BY <1>10 DEF BulkInv, SentOnce
  <2>4. ASSUME NEW g \in Handlers
        PROVE  /\ IsInjective(handler'[g])
               /\ Range(handler'[g]) \cap (Range(arrived') \cup lost') = {}
    <3>1. CASE g = h
      BY <1>2, <1>10, <3>1 DEF BulkInv, SentOnce
    <3>2. CASE g # h
      BY <1>2, <1>6, <1>10, <2>3, <3>2 DEF BulkInv, SentOnce
    <3> QED
      BY <3>1, <3>2
  <2>5. \A g, k \in Handlers : g # k => Range(handler'[g]) \cap Range(handler'[k]) = {}
    <3>1. \A g \in Handlers : Range(handler'[g]) \subseteq Range(handler[g])
      BY <1>6, <1>10
    <3> QED
      BY <3>1 DEF BulkInv, SentOnce
  <2>6. (lost \cap Range(arrived) = {})'
    BY <1>2, <1>10, <2>1 DEF BulkInv, SentOnce
  <2> QED
    BY <2>2, <2>4, <2>5, <2>6 DEF SentOnce
<1>12. Placed'
  <2>1. \A i \in 1 .. Taken : arrived'[i] = arrived[i]
    BY <1>5, <1>8
  <2>2. TakenSpans' = TakenSpans
    BY <1>8, <2>1 DEF TakenSpans
  <2> QED
    BY <1>2, <2>2 DEF BulkInv, Placed, OpenSpans, tables
<1>13. \A x, n : Within(x, n) => Within(x, n)'
  BY <1>5 DEF Within
<1>14. RoundFits'
  <2>1. \A x : InReach(x) => InReach(x)'
    BY <1>5, <1>8 DEF InReach
  <2> QED
    BY <1>2, <1>8, <1>13, <2>1 DEF BulkInv, RoundFits, tables
<1>15. EvalsFindSpans' /\ EarlySent' /\ ShortBatches'
  <2>1. \A g \in Handlers : Len(handler[g]) \in Nat
    BY <1>1, LenProperties
  <2> QED
    BY <1>2, <1>3, <1>6, <2>1, BatchesAssumption
    DEF BulkInv, EvalsFindSpans, ShortBatches, EarlySent, EvalsSent, tables
<1>16. QueueBounded'
  <2>1. Pending' = Pending \ {<<h, Len(handler[h])>>} /\ <<h, Len(handler[h])>> \in Pending
    <3>1. DOMAIN handler'[h] = DOMAIN handler[h] \ {Len(handler[h])}
      BY <1>3, <1>6
    <3>2. Len(handler[h]) \in DOMAIN handler[h]
      BY <1>3
    <3> QED
      BY <1>6, <3>1, <3>2 DEF Pending
  <2>2. IsFiniteSet(Pending) /\ Cardinality(Pending) \in Nat
    BY <1>1, PendingBound DEF BulkInv, ShortBatches, Pending
  <2>3. Cardinality(Pending') = Cardinality(Pending) - 1
    BY <2>1, <2>2, FS_RemoveElement
  <2>4. /\ IsFiniteSet(Guarded) /\ Cardinality(Guarded) \in Nat
        /\ Cardinality(Guarded') \in Nat
    BY <1>7, GuardedBound DEF BulkInv, TypeOK, Guarded
  <2>5. Cardinality(Guarded') <= Cardinality(Guarded) + 1
    <3> DEFINE G == Guarded \cup {Len(queue) + 1}
    <3>1. IsFiniteSet(G) /\ Cardinality(G) <= Cardinality(Guarded) + 1
      <4>1. IsFiniteSet(G)
        BY <2>4, FS_AddElement
      <4>2. Cardinality(G) = Cardinality(Guarded) \/ Cardinality(G) = Cardinality(Guarded) + 1
        BY <2>4, FS_AddElement
      <4> QED
        BY <2>4, <4>1, <4>2
    <3>2. Guarded' \subseteq G
      <4>1. DOMAIN queue = 1 .. Len(queue) /\ DOMAIN queue' = 1 .. Len(queue) + 1
        BY <1>1, <1>4, LenProperties
      <4> QED
        BY <1>2, <1>4, <4>1 DEF Guarded
    <3> HIDE DEF G
    <3>3. Cardinality(Guarded') <= Cardinality(G) /\ Cardinality(G) \in Nat
      BY <3>1, <3>2, FS_Subset, FS_CardinalityType
    <3> QED
      BY <2>4, <3>1, <3>3
  <2>6. Cardinality(Handlers) * LongestBatch \in Nat
    BY FS_CardinalityType, LimitsAssumption, BatchesAssumption
  <2> QED
    BY <2>2, <2>3, <2>4, <2>5, <2>6, LimitsAssumption DEF BulkInv, QueueBounded
<1> QED
  BY <1>7, <1>9, <1>11, <1>12, <1>14, <1>15, <1>16 DEF BulkInv

LEMMA LostKeeps ==
  ASSUME BulkInv, NEW h \in Handlers, Enqueue(h), Head(handler[h]) \in Undecodable
  PROVE  BulkInv'
<1>1. handler \in [Handlers -> Seq(Spans)] /\ handler[h] \in Seq(Spans)
  BY DEF BulkInv, TypeOK
<1>2. /\ handler' = [handler EXCEPT ![h] = <<>>]
      /\ lost' = lost \cup Range(handler[h])
      /\ UNCHANGED <<arrived, queue, created, early, evals, pc, left, open, tables>>
  BY DEF Enqueue
<1>3. /\ handler' \in [Handlers -> Seq(Spans)] /\ handler'[h] = <<>>
      /\ \A g \in Handlers : g # h => handler'[g] = handler[g]
  BY <1>1, <1>2
<1>4. Range(handler[h]) \subseteq Spans
  <2>1. DOMAIN handler[h] = 1 .. Len(handler[h])
    BY <1>1, LenProperties
  <2>2. \A i \in DOMAIN handler[h] : handler[h][i] \in Spans
    BY <1>1, <2>1, ElementOfSeq
  <2> QED
    BY <2>2 DEF Range
<1>5. Len(<<>>) = 0 /\ DOMAIN <<>> = {} /\ Range(<<>>) = {} /\ IsInjective(<<>>)
  BY DEF Range, IsInjective
<1>6. /\ TypeOK' /\ OpenFits' /\ QueueFits' /\ Placed' /\ RoundFits' /\ EvalsFindSpans'
      /\ EarlySent'
  <2>1. TypeOK' /\ OpenFits'
    BY <1>2, <1>3, <1>4 DEF BulkInv, TypeOK, OpenFits, tables
  <2>2. QueueFits' /\ Placed' /\ EvalsFindSpans' /\ EarlySent'
    BY <1>2 DEF BulkInv, QueueFits, Placed, EvalsFindSpans, Taken, TakenSpans, OpenSpans,
                EarlySent, EvalsSent, tables
  <2>3. RoundFits'
    BY <1>2 DEF BulkInv, RoundFits, Taken, InReach, Within, tables
  <2> QED
    BY <2>1, <2>2, <2>3
<1>7. SentOnce'
  <2>1. \A g \in Handlers : Range(handler'[g]) \subseteq Range(handler[g])
    BY <1>3, <1>5
  <2>2. \A g \in Handlers : IsInjective(handler'[g])
    BY <1>3, <1>5 DEF BulkInv, SentOnce
  <2>3. (lost \cap Range(arrived) = {})'
    BY <1>2 DEF BulkInv, SentOnce
  <2>4. \A g \in Handlers : Range(handler'[g]) \cap (Range(arrived') \cup lost') = {}
    BY <1>2, <1>3, <1>5 DEF BulkInv, SentOnce
  <2> QED
    BY <1>2, <2>1, <2>2, <2>3, <2>4 DEF BulkInv, SentOnce
<1>8. ShortBatches'
  <2>1. 0 <= LongestBatch
    BY BatchesAssumption
  <2> QED
    BY <1>3, <1>5, <2>1 DEF BulkInv, ShortBatches
<1>9. QueueBounded'
  <2>1. Guarded' = Guarded /\ Cardinality(Guarded) \in Nat
    BY <1>2, GuardedBound DEF BulkInv, TypeOK, Guarded
  <2>2. Pending' \subseteq Pending
    BY <1>3, <1>5 DEF Pending
  <2>3. IsFiniteSet(Pending) /\ Cardinality(Pending) \in Nat
    BY <1>1, PendingBound DEF BulkInv, ShortBatches, Pending
  <2>4. IsFiniteSet(Pending') /\ Cardinality(Pending') <= Cardinality(Pending)
    BY <2>2, <2>3, FS_Subset
  <2>5. Cardinality(Pending') \in Nat /\ Cardinality(Handlers) * LongestBatch \in Nat
    BY <2>4, FS_CardinalityType, LimitsAssumption, BatchesAssumption
  <2> QED
    BY <2>1, <2>3, <2>4, <2>5, LimitsAssumption DEF BulkInv, QueueBounded
<1> QED
  BY <1>6, <1>7, <1>8, <1>9 DEF BulkInv

LEMMA EnqueueKeeps ==
  ASSUME BulkInv, NEW h \in Handlers, Enqueue(h)
  PROVE  BulkInv'
BY DecodedKeeps, LostKeeps

LEMMA CreateSpansKeeps ==
  ASSUME BulkInv, CreateSpans
  PROVE  BulkInv'
<1>1. PICK b \in Uploads :
        /\ Range(b) \cap Sent = {}
        /\ queue' = queue \o b /\ arrived' = arrived \o b /\ created' = created \cup Range(b)
  BY DEF CreateSpans
<1>2. UNCHANGED <<handler, lost, early, evals, pc, left, open, tables>>
  BY DEF CreateSpans
<1>3. /\ b \in Seq(Spans) /\ IsInjective(b) /\ queue \in Seq(Spans) /\ arrived \in Seq(Spans)
      /\ handler \in [Handlers -> Seq(Spans)]
  BY UploadsAssumption DEF BulkInv, TypeOK
<1>4. /\ Len(b) \in Nat /\ DOMAIN b = 1 .. Len(b)
      /\ Len(queue) \in Nat /\ DOMAIN queue = 1 .. Len(queue)
      /\ Len(arrived) \in Nat /\ DOMAIN arrived = 1 .. Len(arrived)
  BY <1>3, LenProperties
<1>5. Range(b) \subseteq Spans
  <2>1. \A i \in DOMAIN b : b[i] \in Spans
    BY <1>3, <1>4, ElementOfSeq
  <2> QED
    BY <2>1 DEF Range
<1>6. /\ queue' \in Seq(Spans) /\ Len(queue') = Len(queue) + Len(b)
      /\ DOMAIN queue' = 1 .. Len(queue) + Len(b)
      /\ \A i \in 1 .. Len(queue) : queue'[i] = queue[i]
      /\ \A i \in Len(queue) + 1 .. Len(queue) + Len(b) : queue'[i] = b[i - Len(queue)]
  BY <1>1, <1>3, ConcatElements
<1>7. /\ arrived' \in Seq(Spans) /\ Len(arrived') = Len(arrived) + Len(b)
      /\ DOMAIN arrived' = 1 .. Len(arrived) + Len(b)
      /\ \A i \in 1 .. Len(arrived) : arrived'[i] = arrived[i]
      /\ \A i \in Len(arrived) + 1 .. Len(arrived) + Len(b) : arrived'[i] = b[i - Len(arrived)]
  BY <1>1, <1>3, ConcatElements
<1>8. TypeOK' /\ OpenFits'
  BY <1>1, <1>2, <1>5, <1>6, <1>7 DEF BulkInv, TypeOK, OpenFits, tables
<1>9. Taken' = Taken /\ Taken \in Nat /\ Taken <= Len(arrived)
  BY <1>4, <1>6, <1>7 DEF BulkInv, Taken, QueueFits
<1>10. QueueFits'
  <2> SUFFICES ASSUME NEW i \in 1 .. Len(queue') PROVE queue'[i] = arrived'[Taken' + i]
    BY <1>4, <1>6, <1>7 DEF BulkInv, QueueFits
  <2>1. CASE i \in 1 .. Len(queue)
    <3>1. Taken + i \in 1 .. Len(arrived)
      BY <1>4, <1>9, <2>1 DEF Taken
    <3> QED
      BY <1>6, <1>7, <1>9, <2>1, <3>1 DEF BulkInv, QueueFits
  <2>2. CASE i \in Len(queue) + 1 .. Len(queue) + Len(b)
    <3>1. /\ Taken + i \in Len(arrived) + 1 .. Len(arrived) + Len(b)
          /\ (Taken + i) - Len(arrived) = i - Len(queue)
      BY <1>4, <1>9, <2>2 DEF Taken
    <3> QED
      BY <1>6, <1>7, <1>9, <2>2, <3>1
  <2> QED
    BY <1>4, <1>6, <2>1, <2>2
<1>11. Range(arrived') = Range(arrived) \cup Range(b)
  <2>1. ASSUME NEW x \in Range(arrived') PROVE x \in Range(arrived) \cup Range(b)
    <3>1. PICK i \in 1 .. Len(arrived) + Len(b) : x = arrived'[i]
      BY <1>7, <2>1 DEF Range
    <3>2. CASE i \in 1 .. Len(arrived)
      BY <1>4, <1>7, <3>1, <3>2 DEF Range
    <3>3. CASE i \in Len(arrived) + 1 .. Len(arrived) + Len(b)
      <4>1. i - Len(arrived) \in DOMAIN b /\ x = b[i - Len(arrived)]
        BY <1>4, <1>7, <3>1, <3>3
      <4> QED
        BY <4>1 DEF Range
    <3> QED
      BY <1>4, <3>1, <3>2, <3>3
  <2>2. ASSUME NEW x \in Range(arrived) PROVE x \in Range(arrived')
    <3>1. PICK i \in 1 .. Len(arrived) : x = arrived[i]
      BY <1>4, <2>2 DEF Range
    <3>2. i \in DOMAIN arrived' /\ x = arrived'[i]
      BY <1>4, <1>7, <3>1
    <3> QED
      BY <3>2 DEF Range
  <2>3. ASSUME NEW x \in Range(b) PROVE x \in Range(arrived')
    <3>1. PICK i \in 1 .. Len(b) : x = b[i]
      BY <1>4, <2>3 DEF Range
    <3>2. /\ Len(arrived) + i \in Len(arrived) + 1 .. Len(arrived) + Len(b)
          /\ Len(arrived) + i \in DOMAIN arrived' /\ (Len(arrived) + i) - Len(arrived) = i
      BY <1>4, <1>7, <3>1
    <3>3. x = arrived'[Len(arrived) + i]
      BY <1>7, <3>1, <3>2
    <3> QED
      BY <3>2, <3>3 DEF Range
  <2> QED
    BY <2>1, <2>2, <2>3
<1>12. SentOnce'
  <2>1. /\ Range(b) \cap Range(arrived) = {} /\ Range(b) \cap lost = {}
        /\ \A g \in Handlers : Range(b) \cap Range(handler[g]) = {}
    BY <1>1 DEF Sent
  <2>2. IsInjective(arrived')
    <3>1. \A i \in 1 .. Len(arrived) : arrived'[i] \in Range(arrived)
      BY <1>4, <1>7 DEF Range
    <3>2. \A i \in Len(arrived) + 1 .. Len(arrived) + Len(b) :
            i - Len(arrived) \in DOMAIN b /\ arrived'[i] = b[i - Len(arrived)]
      BY <1>4, <1>7
    <3>3. \A i \in Len(arrived) + 1 .. Len(arrived) + Len(b) : arrived'[i] \in Range(b)
      BY <3>2 DEF Range
    <3> SUFFICES ASSUME NEW i \in DOMAIN arrived', NEW j \in DOMAIN arrived',
                        arrived'[i] = arrived'[j]
                 PROVE  i = j
      BY DEF IsInjective
    <3>4. CASE i \in 1 .. Len(arrived) /\ j \in 1 .. Len(arrived)
      <4>1. IsInjective(arrived) /\ arrived[i] = arrived[j]
        BY <1>7, <3>4 DEF BulkInv, SentOnce
      <4> QED
        BY <1>4, <3>4, <4>1 DEF IsInjective
    <3>5. CASE /\ i \in Len(arrived) + 1 .. Len(arrived) + Len(b)
               /\ j \in Len(arrived) + 1 .. Len(arrived) + Len(b)
      <4>1. i - Len(arrived) = j - Len(arrived)
        BY <1>3, <3>2, <3>5 DEF IsInjective
      <4> QED
        BY <1>4, <3>5, <4>1
    <3>6. CASE i \in 1 .. Len(arrived) /\ j \in Len(arrived) + 1 .. Len(arrived) + Len(b)
      BY <2>1, <3>1, <3>3, <3>6
    <3>7. CASE j \in 1 .. Len(arrived) /\ i \in Len(arrived) + 1 .. Len(arrived) + Len(b)
      BY <2>1, <3>1, <3>3, <3>7
    <3> QED
      BY <1>4, <1>7, <3>4, <3>5, <3>6, <3>7
  <2> QED
    BY <1>2, <1>11, <2>1, <2>2 DEF BulkInv, SentOnce
<1>13. Placed'
  <2>1. \A i \in 1 .. Taken : arrived'[i] = arrived[i]
    BY <1>4, <1>7, <1>9
  <2>2. TakenSpans' = TakenSpans
    BY <1>9, <2>1 DEF TakenSpans
  <2> QED
    BY <1>2, <2>2 DEF BulkInv, Placed, OpenSpans, tables
<1>14. RoundFits'
  <2>1. \A i \in DOMAIN arrived : i \in DOMAIN arrived' /\ arrived'[i] = arrived[i]
    BY <1>4, <1>7
  <2>2. \A x, n : Within(x, n) => Within(x, n)'
    BY <2>1 DEF Within
  <2>3. \A x : InReach(x) => InReach(x)'
    BY <1>9, <2>1 DEF InReach
  <2> QED
    BY <1>2, <1>9, <2>2, <2>3 DEF BulkInv, RoundFits, tables
<1>15. EvalsFindSpans' /\ EarlySent' /\ ShortBatches'
  BY <1>2 DEF BulkInv, EvalsFindSpans, EarlySent, EvalsSent, ShortBatches, tables
<1>16. QueueBounded'
  <2>1. Guarded' \subseteq Guarded
    <3> SUFFICES ASSUME NEW i \in Guarded' PROVE i \in Guarded
      OBVIOUS
    <3>1. i \in 1 .. Len(queue) + Len(b) /\ queue'[i] \notin created \cup Range(b)
      BY <1>1, <1>6 DEF Guarded
    <3>2. i \notin Len(queue) + 1 .. Len(queue) + Len(b)
      <4> SUFFICES ASSUME i \in Len(queue) + 1 .. Len(queue) + Len(b) PROVE FALSE
        OBVIOUS
      <4>1. queue'[i] = b[i - Len(queue)] /\ i - Len(queue) \in DOMAIN b
        BY <1>4, <1>6
      <4> QED
        BY <3>1, <4>1 DEF Range
    <3>3. i \in 1 .. Len(queue)
      BY <1>4, <3>1, <3>2
    <3> QED
      BY <1>4, <1>6, <3>1, <3>3 DEF Guarded
  <2>2. Pending' = Pending
    BY <1>2 DEF Pending
  <2>3. Cardinality(Pending) \in Nat
    BY <1>3, PendingBound DEF BulkInv, ShortBatches, Pending
  <2>4. IsFiniteSet(Guarded) /\ Cardinality(Guarded) \in Nat /\ Cardinality(Guarded') \in Nat
    BY <1>8, GuardedBound DEF BulkInv, TypeOK, Guarded
  <2>5. Cardinality(Guarded') <= Cardinality(Guarded)
    BY <2>1, <2>4, FS_Subset
  <2>6. Cardinality(Handlers) * LongestBatch \in Nat
    BY FS_CardinalityType, LimitsAssumption, BatchesAssumption
  <2> QED
    BY <2>2, <2>3, <2>4, <2>5, <2>6, LimitsAssumption DEF BulkInv, QueueBounded
<1> QED
  BY <1>8, <1>10, <1>12, <1>13, <1>14, <1>15, <1>16 DEF BulkInv

LEMMA SendEvalKeeps ==
  ASSUME BulkInv, NEW e \in Evals, SendEval(e)
  PROVE  BulkInv'
<1>1. /\ evals \in Seq(Evals) /\ arrived \in Seq(Spans) /\ queue \in Seq(Spans)
      /\ left \in [spans: 0 .. MaxOps, evals: 0 .. MaxOps]
  BY DEF BulkInv, TypeOK
<1>2. /\ evals' = Append(evals, e) /\ e \notin EvalsSent
      /\ early' = IF InReach(SpanOf[e]) THEN early \cup {e} ELSE early
      /\ UNCHANGED <<sources, queue, pc, left, open, tables>>
  BY DEF SendEval
<1>3. /\ evals' \in Seq(Evals) /\ Len(evals') = Len(evals) + 1 /\ Len(evals) \in Nat
      /\ DOMAIN evals = 1 .. Len(evals) /\ DOMAIN evals' = 1 .. Len(evals) + 1
      /\ \A i \in 1 .. Len(evals) : evals'[i] = evals[i]
      /\ evals'[Len(evals) + 1] = e
  BY <1>1, <1>2, AppendElements
<1>4. TypeOK' /\ OpenFits'
  BY <1>2, <1>3 DEF BulkInv, TypeOK, OpenFits, sources, tables
<1>5. QueueFits' /\ SentOnce' /\ Placed' /\ ShortBatches' /\ QueueBounded'
  BY <1>2 DEF BulkInv, QueueFits, SentOnce, Placed, ShortBatches, QueueBounded, Taken, TakenSpans,
              OpenSpans, Guarded, Pending, sources, tables
<1>6. e \notin refused /\ \A i \in 1 .. Len(evals) : evals[i] # e
  BY <1>2, <1>3 DEF EvalsSent, Range
<1>7. \A i \in 1 .. Len(evals) : evals'[i] \in early' => evals[i] \in early
  BY <1>2, <1>3, <1>6
<1>8. EvalsFindSpans' /\ EarlySent'
  <2>1. EvalsFindSpans'
    BY <1>2, <1>6 DEF BulkInv, EvalsFindSpans, tables
  <2>2. Range(evals') = Range(evals) \cup {e}
    BY <1>3 DEF Range
  <2> QED
    BY <1>2, <2>1, <2>2 DEF BulkInv, EarlySent, EvalsSent, tables
<1>9. Taken' = Taken /\ arrived' = arrived
  BY <1>2 DEF Taken, sources
<1>10. RoundFits'
  <2>1. pc' \in {"spans", "evals"} => left'.evals <= Len(evals) /\ left'.evals <= Len(evals')
    BY <1>1, <1>2, <1>3 DEF BulkInv, RoundFits
  <2>2. ASSUME NEW i \in DOMAIN evals', evals'[i] \in early'
        PROVE  \E j \in DOMAIN arrived : arrived[j] = SpanOf[evals'[i]] /\ j <= Taken + MaxOps
    <3>1. CASE i \in 1 .. Len(evals)
      BY <1>3, <1>7, <2>2, <3>1 DEF BulkInv, RoundFits, InReach
    <3>2. CASE i = Len(evals) + 1
      <4>1. evals'[i] = e /\ e \in early'
        BY <1>3, <2>2, <3>2
      <4>2. CASE InReach(SpanOf[e])
        BY <4>1, <4>2 DEF InReach
      <4>3. CASE ~InReach(SpanOf[e])
        <5>1. e \in early
          BY <1>2, <4>1, <4>3
        <5> QED
          BY <1>2, <5>1 DEF BulkInv, EarlySent
      <4> QED
        BY <4>2, <4>3
    <3> QED
      BY <1>3, <3>1, <3>2
  <2>3. (\A i \in DOMAIN evals : evals[i] \in early => InReach(SpanOf[evals[i]]))'
    BY <1>2, <1>9, <2>2 DEF InReach
  <2>4. ASSUME pc = "spans", NEW i \in 1 .. left'.evals, evals'[i] \in early'
        PROVE  \E j \in DOMAIN arrived :
                 arrived[j] = SpanOf[evals'[i]] /\ j <= Taken + left.spans
    <3>1. left' = left /\ i \in 1 .. Len(evals)
      BY <1>1, <1>2, <1>3, <2>1, <2>4
    <3>2. evals'[i] = evals[i] /\ evals[i] \in early
      BY <1>3, <1>7, <2>4, <3>1
    <3> QED
      BY <2>4, <3>1, <3>2 DEF BulkInv, RoundFits, Within
  <2>5. (pc = "spans" => \A i \in 1 .. left.evals :
           evals[i] \in early => Within(SpanOf[evals[i]], Taken + left.spans))'
    BY <1>2, <1>9, <2>4 DEF Within
  <2>6. ASSUME pc = "evals", NEW i \in 1 .. left'.evals, evals'[i] \in early'
        PROVE  SpanOf[evals'[i]] \in stored \cup failed
    <3>1. left' = left /\ i \in 1 .. Len(evals)
      BY <1>1, <1>2, <1>3, <2>1, <2>6
    <3>2. evals'[i] = evals[i] /\ evals[i] \in early
      BY <1>3, <1>7, <2>6, <3>1
    <3> QED
      BY <2>6, <3>1, <3>2 DEF BulkInv, RoundFits
  <2> QED
    BY <1>2, <2>1, <2>3, <2>5, <2>6 DEF RoundFits, tables
<1> QED
  BY <1>4, <1>5, <1>8, <1>10 DEF BulkInv

-----------------------------------------------------------------------------
(* The task *)

LEMMA GrabKeeps ==
  ASSUME BulkInv, Grab
  PROVE  BulkInv'
<1>1. /\ evals \in Seq(Evals) /\ arrived \in Seq(Spans) /\ queue \in Seq(Spans)
  BY DEF BulkInv, TypeOK
<1>2. /\ Len(evals) \in Nat /\ DOMAIN evals = 1 .. Len(evals)
      /\ Len(queue) \in Nat /\ Len(arrived) \in Nat /\ DOMAIN arrived = 1 .. Len(arrived)
  BY <1>1, LenProperties
<1>3. /\ left' = [spans |-> AtMost(Len(queue)), evals |-> AtMost(Len(evals))]
      /\ pc = "top" /\ pc' = "spans"
      /\ UNCHANGED <<requests, queue, evals, open, tables>>
  BY DEF Grab
<1>4. \A n \in Nat : AtMost(n) \in 0 .. MaxOps /\ AtMost(n) <= n
  BY LimitsAssumption DEF AtMost
<1>5. open = {}
  BY <1>3 DEF BulkInv, OpenFits
<1>6. TypeOK' /\ OpenFits'
  BY <1>2, <1>3, <1>4, <1>5 DEF BulkInv, TypeOK, OpenFits, requests, sources, tables
<1>7. /\ QueueFits' /\ SentOnce' /\ Placed' /\ ShortBatches' /\ QueueBounded' /\ EvalsFindSpans'
      /\ EarlySent'
  <2>1. QueueFits' /\ SentOnce' /\ ShortBatches' /\ QueueBounded'
    BY <1>3 DEF BulkInv, QueueFits, SentOnce, ShortBatches, QueueBounded, Taken, Guarded, Pending, requests, sources
  <2>2. Placed'
    BY <1>3, <1>5 DEF BulkInv, Placed, TakenSpans, Taken, OpenSpans, requests, sources, tables
  <2>3. EvalsFindSpans' /\ EarlySent'
    BY <1>3 DEF BulkInv, EvalsFindSpans, EarlySent, EvalsSent, requests, sources, tables
  <2> QED
    BY <2>1, <2>2, <2>3
<1>8. RoundFits'
  <2>1. left'.evals <= Len(evals')
    BY <1>2, <1>3, <1>4
  <2>2. \A x : InReach(x)' = InReach(x)
    BY <1>3 DEF InReach, Taken, requests, sources
  <2>3. ASSUME NEW x, InReach(x) PROVE Within(x, Taken + left.spans)'
    <3>1. PICK i \in DOMAIN arrived : arrived[i] = x /\ i <= Taken + MaxOps
      BY <2>3 DEF InReach
    <3>2. left'.spans = MaxOps \/ left'.spans = Len(queue)
      BY <1>2, <1>3, LimitsAssumption DEF AtMost
    <3>3. i <= Taken + Len(queue)
      BY <1>2 DEF Taken
    <3>4. i <= Taken + left'.spans
      BY <3>1, <3>2, <3>3
    <3> QED
      BY <1>3, <3>1, <3>4 DEF Within, Taken, requests, sources
  <2>4. \A i \in 1 .. left'.evals : i \in DOMAIN evals
    BY <1>2, <1>3, <1>4
  <2> QED
    BY <1>3, <2>1, <2>2, <2>3, <2>4 DEF BulkInv, RoundFits, requests, sources
<1> QED
  BY <1>6, <1>7, <1>8 DEF BulkInv

\* A span leaves the queue: what every step that takes one has in common.
LEMMA TakeSpan ==
  ASSUME BulkInv, queue # <<>>, queue' = Tail(queue), UNCHANGED arrived
  PROVE  /\ queue' \in Seq(Spans) /\ Len(queue) \in Nat \ {0} /\ Len(queue') = Len(queue) - 1
         /\ Taken \in Nat /\ Taken' = Taken + 1 /\ Taken' <= Len(arrived)
         /\ QueueFits' /\ Head(queue) \in Spans
         /\ TakenSpans' = TakenSpans \cup {Head(queue)} /\ Head(queue) \notin TakenSpans
<1>1. arrived \in Seq(Spans) /\ queue \in Seq(Spans) /\ QueueFits /\ IsInjective(arrived)
  BY DEF BulkInv, TypeOK, SentOnce
<1>2. Len(arrived) \in Nat /\ DOMAIN arrived = 1 .. Len(arrived)
  BY <1>1, LenProperties
<1>3. /\ queue' \in Seq(Spans) /\ Len(queue) \in Nat \ {0} /\ Len(queue') = Len(queue) - 1
      /\ Head(queue) = queue[1] /\ Head(queue) \in Spans
      /\ \A i \in 1 .. Len(queue) - 1 : queue'[i] = queue[i + 1]
  BY <1>1, TailElements
<1>4. Taken \in Nat /\ Taken' = Taken + 1 /\ Taken' <= Len(arrived)
  BY <1>1, <1>2, <1>3 DEF Taken, QueueFits
<1>5. Head(queue) = arrived[Taken + 1]
  BY <1>1, <1>3 DEF QueueFits
<1>6. QueueFits'
  <2> SUFFICES ASSUME NEW i \in 1 .. Len(queue') PROVE queue'[i] = arrived[Taken' + i]
    BY <1>1, <1>2, <1>3 DEF QueueFits
  <2>1. queue'[i] = queue[i + 1] /\ i + 1 \in 1 .. Len(queue)
    BY <1>3
  <2>2. queue[i + 1] = arrived[Taken + (i + 1)]
    BY <1>1, <2>1 DEF QueueFits
  <2>3. Taken + (i + 1) = Taken' + i
    BY <1>3, <1>4
  <2> QED
    BY <2>1, <2>2, <2>3
<1>7. TakenSpans' = TakenSpans \cup {Head(queue)}
  <2>1. 1 .. Taken + 1 = (1 .. Taken) \cup {Taken + 1}
    BY <1>4
  <2> QED
    BY <1>4, <1>5, <2>1 DEF TakenSpans
<1>8. Head(queue) \notin TakenSpans
  <2> SUFFICES ASSUME NEW i \in 1 .. Taken, arrived[i] = Head(queue) PROVE FALSE
    BY DEF TakenSpans
  <2>1. i \in DOMAIN arrived /\ Taken + 1 \in DOMAIN arrived /\ i # Taken + 1
    BY <1>2, <1>4
  <2> QED
    BY <1>1, <1>5, <2>1 DEF IsInjective
<1> QED
  BY <1>3, <1>4, <1>6, <1>7, <1>8

LEMMA InsertSpanKeeps ==
  ASSUME BulkInv, InsertSpan
  PROVE  BulkInv'
<1>1. /\ pc = "spans" /\ queue # <<>> /\ queue' = Tail(queue) /\ left.spans > 0
      /\ left' = [left EXCEPT !.spans = @ - 1]
      /\ UNCHANGED <<handler, arrived, created, lost, early, evals, pc, stored, scored, refused, dropped>>
  BY DEF InsertSpan, requests, sources
<1>2. \/ open' = open \cup {Head(queue)} /\ failed' = failed
      \/ open' = open /\ failed' = failed \cup {Head(queue)}
  BY DEF InsertSpan
<1>3. /\ queue' \in Seq(Spans) /\ Len(queue) \in Nat \ {0} /\ Len(queue') = Len(queue) - 1
      /\ Taken \in Nat /\ Taken' = Taken + 1
      /\ QueueFits' /\ Head(queue) \in Spans
      /\ TakenSpans' = TakenSpans \cup {Head(queue)} /\ Head(queue) \notin TakenSpans
  BY <1>1, TakeSpan
<1>4. /\ left \in [spans: 0 .. MaxOps, evals: 0 .. MaxOps] /\ evals \in Seq(Evals)
      /\ left' \in [spans: 0 .. MaxOps, evals: 0 .. MaxOps]
      /\ left'.spans = left.spans - 1 /\ left'.evals = left.evals
  <2>1. left \in [spans: 0 .. MaxOps, evals: 0 .. MaxOps] /\ evals \in Seq(Evals)
    BY DEF BulkInv, TypeOK
  <2>2. left.spans \in 1 .. MaxOps /\ left.evals \in 0 .. MaxOps
    BY <1>1, <2>1, LimitsAssumption
  <2>3. left' = [spans |-> left.spans - 1, evals |-> left.evals]
    BY <1>1, <2>1
  <2>4. left.spans - 1 \in 0 .. MaxOps
    BY <2>2, LimitsAssumption
  <2> QED
    BY <2>1, <2>2, <2>3, <2>4
<1>5. TypeOK' /\ OpenFits'
  BY <1>1, <1>2, <1>3, <1>4 DEF BulkInv, TypeOK, OpenFits
<1>6. SentOnce' /\ ShortBatches'
  BY <1>1 DEF BulkInv, SentOnce, ShortBatches
<1>7. Placed'
  BY <1>1, <1>2, <1>3 DEF BulkInv, Placed, OpenSpans
<1>8. EvalsFindSpans' /\ EarlySent'
  BY <1>1, <1>2 DEF BulkInv, EvalsFindSpans, EarlySent, EvalsSent
<1>9. RoundFits'
  <2>1. ASSUME NEW x, InReach(x) PROVE InReach(x)'
    <3>1. PICK i \in DOMAIN arrived : arrived[i] = x /\ i <= Taken + MaxOps
      BY <2>1 DEF InReach
    <3>2. i \in Nat
      BY <3>1, LenProperties DEF BulkInv, TypeOK
    <3>3. i <= Taken' + MaxOps
      BY <1>3, <3>1, <3>2, LimitsAssumption
    <3> QED
      BY <1>1, <3>1, <3>3 DEF InReach
  <2>2. Taken' + left'.spans = Taken + left.spans
    BY <1>3, <1>4
  <2>3. \A x : Within(x, Taken + left.spans)' <=> Within(x, Taken + left.spans)
    BY <1>1, <2>2 DEF Within
  <2> QED
    BY <1>1, <1>4, <2>1, <2>3 DEF BulkInv, RoundFits
<1>10. QueueBounded'
  <2>1. Pending' = Pending
    BY <1>1 DEF Pending
  <2>2. Cardinality(Pending) \in Nat
    BY PendingBound DEF BulkInv, TypeOK, ShortBatches, Pending
  <2>3. Cardinality(Handlers) * LongestBatch \in Nat
    BY FS_CardinalityType, LimitsAssumption, BatchesAssumption
  <2>4. IsFiniteSet(Guarded) /\ Cardinality(Guarded) \in Nat /\ Cardinality(Guarded') \in Nat
    BY <1>5, GuardedBound DEF BulkInv, TypeOK, Guarded
  <2>5. Cardinality(Guarded') <= Cardinality(Guarded)
    <3> DEFINE up == [i \in Guarded' |-> i + 1]
    <3>1. \A i \in Guarded' : i \in Nat /\ i + 1 \in Guarded
      <4> SUFFICES ASSUME NEW i \in Guarded' PROVE i \in Nat /\ i + 1 \in Guarded
        OBVIOUS
      <4>1. queue \in Seq(Spans) /\ DOMAIN queue = 1 .. Len(queue)
        BY LenProperties DEF BulkInv, TypeOK
      <4>2. /\ DOMAIN queue' = 1 .. Len(queue) - 1
            /\ \A j \in 1 .. Len(queue) - 1 : queue'[j] = queue[j + 1]
        BY <1>1, <4>1, TailElements
      <4>3. i \in 1 .. Len(queue) - 1 /\ queue'[i] \notin created
        BY <1>1, <4>2 DEF Guarded
      <4> QED
        BY <1>3, <4>1, <4>2, <4>3 DEF Guarded
    <3>2. up \in [Guarded' -> Guarded]
      BY <3>1
    <3>3. \A i, j \in Guarded' : up[i] = up[j] => i = j
      <4> SUFFICES ASSUME NEW i \in Guarded', NEW j \in Guarded', up[i] = up[j] PROVE i = j
        OBVIOUS
      <4>1. i \in Nat /\ j \in Nat /\ i + 1 = j + 1
        BY <3>1
      <4> QED
        BY <4>1
    <3>4. up \in Injection(Guarded', Guarded)
      <4> HIDE DEF up
      <4> QED
        BY <3>2, <3>3, Fun_IsInj
    <3> HIDE DEF up
    <3> QED
      BY <2>4, <3>4, FS_Injection
  <2> QED
    BY <2>1, <2>2, <2>3, <2>4, <2>5, LimitsAssumption DEF BulkInv, QueueBounded
<1> QED
  BY <1>3, <1>5, <1>6, <1>7, <1>8, <1>9, <1>10 DEF BulkInv

LEMMA CommitSpansKeeps ==
  ASSUME BulkInv, CommitSpans
  PROVE  BulkInv'
<1>1. /\ pc = "spans" /\ (left.spans = 0 \/ queue = <<>>) /\ pc' = "evals" /\ open' = {}
      /\ UNCHANGED <<handler, arrived, created, lost, early, queue, evals, left, scored, refused, dropped>>
  BY DEF CommitSpans, requests, sources
<1>2. \/ stored' = stored \cup open /\ failed' = failed
      \/ failed' = failed \cup open /\ stored' = stored
  BY DEF CommitSpans
<1>3. TypeOK' /\ OpenFits'
  BY <1>1, <1>2 DEF BulkInv, TypeOK, OpenFits
<1>4. QueueFits' /\ SentOnce' /\ ShortBatches' /\ QueueBounded'
  BY <1>1 DEF BulkInv, QueueFits, SentOnce, ShortBatches, QueueBounded, Taken, Guarded, Pending
<1>5. TakenSpans' = TakenSpans /\ Taken' = Taken
  BY <1>1 DEF TakenSpans, Taken
<1>6. Placed'
  BY <1>1, <1>2, <1>5 DEF BulkInv, Placed, OpenSpans
<1>7. EvalsFindSpans' /\ EarlySent'
  <2>1. open \cap early = {}
    BY <1>1, KindsAssumption DEF BulkInv, TypeOK
  <2> QED
    BY <1>1, <1>2, <2>1 DEF BulkInv, EvalsFindSpans, EarlySent, EvalsSent
<1>8. ASSUME NEW x, Within(x, Taken + left.spans) PROVE x \in stored' \cup failed'
  <2>1. PICK i \in DOMAIN arrived : arrived[i] = x /\ i <= Taken + left.spans
    BY <1>8 DEF Within
  <2>2. /\ DOMAIN arrived = 1 .. Len(arrived) /\ Len(arrived) \in Nat
        /\ Len(queue) \in Nat /\ (queue = <<>> => Len(queue) = 0)
        /\ left.spans \in Nat /\ Len(queue) <= Len(arrived)
    BY LenProperties DEF BulkInv, TypeOK, QueueFits
  <2>3. i \in 1 .. Taken
    BY <1>1, <2>1, <2>2 DEF Taken
  <2>4. x \in TakenSpans
    BY <2>1, <2>3 DEF TakenSpans
  <2> QED
    BY <1>1, <1>5, <1>6, <2>4 DEF Placed, OpenSpans
<1>9. RoundFits'
  <2>1. \A x : InReach(x)' = InReach(x)
    BY <1>1 DEF InReach, Taken
  <2> QED
    BY <1>1, <1>8, <2>1 DEF BulkInv, RoundFits
<1> QED
  BY <1>3, <1>4, <1>6, <1>7, <1>9 DEF BulkInv

\* An evaluation leaves its queue: what the steps that take one have in common.
LEMMA TakeEval ==
  ASSUME BulkInv, pc = "evals", left.evals > 0, evals # <<>>, evals' = Tail(evals),
         UNCHANGED <<arrived, early, queue>>
  PROVE  /\ evals' \in Seq(Evals) /\ Head(evals) \in Evals
         /\ Range(evals) = Range(evals') \cup {Head(evals)}
         /\ (\A i \in DOMAIN evals : evals[i] \in early => InReach(SpanOf[evals[i]]))'
         /\ left.evals - 1 \in 0 .. MaxOps /\ left.evals - 1 <= Len(evals')
         /\ \A i \in 1 .. left.evals - 1 :
              evals'[i] \in early => SpanOf[evals'[i]] \in stored \cup failed
         /\ Head(evals) \in early => SpanOf[Head(evals)] \in stored \cup failed
<1>1. evals \in Seq(Evals) /\ left \in [spans: 0 .. MaxOps, evals: 0 .. MaxOps]
  BY DEF BulkInv, TypeOK
<1>2. /\ evals' \in Seq(Evals) /\ Len(evals) \in Nat \ {0} /\ Len(evals') = Len(evals) - 1
      /\ Head(evals) = evals[1] /\ Head(evals) \in Evals
      /\ DOMAIN evals = 1 .. Len(evals) /\ DOMAIN evals' = 1 .. Len(evals) - 1
      /\ \A i \in 1 .. Len(evals) - 1 : evals'[i] = evals[i + 1]
  BY <1>1, TailElements, LenProperties
<1>3. left.evals \in 1 .. MaxOps /\ left.evals <= Len(evals)
  BY <1>1, LimitsAssumption DEF BulkInv, RoundFits
<1>4. Range(evals) = Range(evals') \cup {Head(evals)}
  <2>1. ASSUME NEW x \in Range(evals), x # Head(evals) PROVE x \in Range(evals')
    <3>1. PICK i \in 1 .. Len(evals) : x = evals[i]
      BY <1>2 DEF Range
    <3>2. i # 1 /\ i - 1 \in 1 .. Len(evals) - 1 /\ (i - 1) + 1 = i
      BY <1>2, <2>1, <3>1
    <3>3. evals'[i - 1] = x
      BY <1>2, <3>1, <3>2
    <3> QED
      BY <1>2, <3>2, <3>3 DEF Range
  <2>2. ASSUME NEW x \in Range(evals') PROVE x \in Range(evals)
    <3>1. PICK i \in 1 .. Len(evals) - 1 : x = evals'[i]
      BY <1>2 DEF Range
    <3>2. x = evals[i + 1] /\ i + 1 \in DOMAIN evals
      BY <1>2, <3>1
    <3> QED
      BY <3>2 DEF Range
  <2>3. Head(evals) \in Range(evals)
    BY <1>2 DEF Range
  <2> QED
    BY <2>1, <2>2, <2>3
<1>5. ASSUME NEW i \in DOMAIN evals', evals'[i] \in early
      PROVE  \E j \in DOMAIN arrived : arrived[j] = SpanOf[evals'[i]] /\ j <= Taken + MaxOps
  <2>1. i + 1 \in DOMAIN evals /\ evals'[i] = evals[i + 1]
    BY <1>2
  <2> QED
    BY <1>5, <2>1 DEF BulkInv, RoundFits, InReach
<1>6. (\A i \in DOMAIN evals : evals[i] \in early => InReach(SpanOf[evals[i]]))'
  <2>1. Taken' = Taken
    BY DEF Taken
  <2> QED
    BY <1>5, <2>1 DEF InReach
<1>7. ASSUME NEW i \in 1 .. left.evals - 1, evals'[i] \in early
      PROVE  SpanOf[evals'[i]] \in stored \cup failed
  <2>1. i + 1 \in 1 .. left.evals /\ evals'[i] = evals[i + 1]
    BY <1>2, <1>3
  <2> QED
    BY <1>7, <2>1 DEF BulkInv, RoundFits
<1>8. Head(evals) \in early => SpanOf[Head(evals)] \in stored \cup failed
  BY <1>2, <1>3 DEF BulkInv, RoundFits
<1> QED
  BY <1>2, <1>3, <1>4, <1>6, <1>7, <1>8, LimitsAssumption

\* What stays when neither spans nor their places change.
LEMMA SpansStay ==
  ASSUME BulkInv, pc # "spans", pc' # "spans",
         UNCHANGED <<handler, arrived, created, lost, queue, stored, failed>>
  PROVE  QueueFits' /\ SentOnce' /\ Placed' /\ ShortBatches' /\ QueueBounded'
BY DEF BulkInv, QueueFits, SentOnce, Placed, ShortBatches, QueueBounded, Taken, TakenSpans,
       OpenSpans, Guarded, Pending

LEMMA InsertEvalKeeps ==
  ASSUME BulkInv, InsertEval
  PROVE  BulkInv'
<1>1. /\ pc = "evals" /\ left.evals > 0 /\ evals # <<>> /\ evals' = Tail(evals)
      /\ left' = [left EXCEPT !.evals = @ - 1]
      /\ UNCHANGED <<handler, arrived, created, lost, early, queue, pc, stored, failed, scored, dropped>>
  BY DEF InsertEval, requests, sources
<1>2. \/ open' = open \cup {Head(evals)} /\ refused' = refused
      \/ /\ SpanOf[Head(evals)] \notin stored
         /\ refused' = refused \cup {Head(evals)} /\ open' = open
  BY DEF InsertEval
<1>3. /\ evals' \in Seq(Evals) /\ Head(evals) \in Evals
      /\ Range(evals) = Range(evals') \cup {Head(evals)}
      /\ (\A i \in DOMAIN evals : evals[i] \in early => InReach(SpanOf[evals[i]]))'
      /\ left.evals - 1 \in 0 .. MaxOps /\ left.evals - 1 <= Len(evals')
      /\ \A i \in 1 .. left.evals - 1 :
           evals'[i] \in early => SpanOf[evals'[i]] \in stored \cup failed
      /\ Head(evals) \in early => SpanOf[Head(evals)] \in stored \cup failed
  BY <1>1, TakeEval
<1>4. left' = [spans |-> left.spans, evals |-> left.evals - 1] /\ left.spans \in 0 .. MaxOps
  BY <1>1 DEF BulkInv, TypeOK
<1>5. TypeOK' /\ OpenFits'
  BY <1>1, <1>2, <1>3, <1>4 DEF BulkInv, TypeOK, OpenFits
<1>6. QueueFits' /\ SentOnce' /\ Placed' /\ ShortBatches' /\ QueueBounded'
  BY <1>1, SpansStay
<1>7. EvalsFindSpans' /\ EarlySent'
  BY <1>1, <1>2, <1>3 DEF BulkInv, EvalsFindSpans, EarlySent, EvalsSent
<1>8. RoundFits'
  BY <1>1, <1>3, <1>4 DEF RoundFits
<1> QED
  BY <1>5, <1>6, <1>7, <1>8 DEF BulkInv

LEMMA AbortEvalsKeeps ==
  ASSUME BulkInv, AbortEvals
  PROVE  BulkInv'
<1>1. /\ pc = "evals" /\ left.evals > 0 /\ evals # <<>> /\ evals' = Tail(evals)
      /\ dropped' = dropped \cup open \cup {Head(evals)} /\ pc' = "annotations" /\ open' = {}
      /\ UNCHANGED <<handler, arrived, created, lost, early, queue, left, stored, failed, scored, refused>>
  BY DEF AbortEvals, requests, sources
<1>2. /\ evals' \in Seq(Evals) /\ Head(evals) \in Evals
      /\ Range(evals) = Range(evals') \cup {Head(evals)}
      /\ (\A i \in DOMAIN evals : evals[i] \in early => InReach(SpanOf[evals[i]]))'
  BY <1>1, TakeEval
<1>3. TypeOK' /\ OpenFits'
  BY <1>1, <1>2 DEF BulkInv, TypeOK, OpenFits
<1>4. QueueFits' /\ SentOnce' /\ Placed' /\ ShortBatches' /\ QueueBounded'
  BY <1>1, SpansStay
<1>5. EvalsFindSpans' /\ EarlySent'
  BY <1>1, <1>2 DEF BulkInv, EvalsFindSpans, EarlySent, EvalsSent
<1>6. RoundFits'
  BY <1>1, <1>2 DEF RoundFits
<1> QED
  BY <1>3, <1>4, <1>5, <1>6 DEF BulkInv

\* The other steps after the spans are in change neither the queues nor what is left.
LEMMA QueuesStay ==
  ASSUME BulkInv, UNCHANGED <<arrived, early, queue, evals>>, pc' \notin {"spans", "evals"}
  PROVE  RoundFits'
<1>1. (\A i \in DOMAIN evals : evals[i] \in early => InReach(SpanOf[evals[i]]))'
  BY DEF BulkInv, RoundFits, InReach, Taken
<1> QED
  BY <1>1 DEF RoundFits

LEMMA CommitEvalsKeeps ==
  ASSUME BulkInv, CommitEvals
  PROVE  BulkInv'
<1>1. /\ pc = "evals" /\ pc' = "annotations" /\ open' = {}
      /\ \/ scored' = scored \cup open /\ dropped' = dropped
         \/ dropped' = dropped \cup open /\ scored' = scored
      /\ UNCHANGED <<handler, arrived, created, lost, early, queue, evals, left, stored, failed, refused>>
  BY DEF CommitEvals, requests, sources
<1>2. TypeOK' /\ OpenFits'
  BY <1>1 DEF BulkInv, TypeOK, OpenFits
<1>3. QueueFits' /\ SentOnce' /\ Placed' /\ ShortBatches' /\ QueueBounded' /\ RoundFits'
  BY <1>1, SpansStay, QueuesStay
<1>4. EvalsFindSpans' /\ EarlySent'
  BY <1>1 DEF BulkInv, EvalsFindSpans, EarlySent, EvalsSent
<1> QED
  BY <1>2, <1>3, <1>4 DEF BulkInv

LEMMA InsertAnnotationsKeeps ==
  ASSUME BulkInv, InsertAnnotations
  PROVE  BulkInv'
<1>1. /\ pc = "annotations" /\ pc' \in {"top", "dead"}
      /\ UNCHANGED <<requests, queue, evals, left, open, tables>>
  BY DEF InsertAnnotations
<1>2. TypeOK' /\ OpenFits'
  BY <1>1 DEF BulkInv, TypeOK, OpenFits, requests, sources, tables
<1>3. QueueFits' /\ SentOnce' /\ Placed' /\ ShortBatches' /\ QueueBounded' /\ RoundFits'
  BY <1>1, SpansStay, QueuesStay DEF requests, sources, tables
<1>4. EvalsFindSpans' /\ EarlySent'
  BY <1>1 DEF BulkInv, EvalsFindSpans, EarlySent, EvalsSent, requests, sources, tables
<1> QED
  BY <1>2, <1>3, <1>4 DEF BulkInv

LEMMA StopKeeps ==
  ASSUME BulkInv, Stop
  PROVE  BulkInv'
<1>1. /\ pc' = "stopped" /\ open' = {}
      /\ failed' = failed \cup (open \cap Spans) /\ dropped' = dropped \cup (open \cap Evals)
      /\ UNCHANGED <<handler, arrived, created, lost, early, queue, evals, left, stored, scored, refused>>
  BY DEF Stop, requests, sources
<1>2. TypeOK' /\ OpenFits'
  BY <1>1 DEF BulkInv, TypeOK, OpenFits
<1>3. OpenSpans = open \cap Spans /\ OpenSpans' = {}
  BY <1>1, KindsAssumption DEF BulkInv, TypeOK, OpenFits, OpenSpans
<1>4. QueueFits' /\ SentOnce' /\ ShortBatches' /\ QueueBounded' /\ RoundFits'
  BY <1>1, QueuesStay DEF BulkInv, QueueFits, SentOnce, ShortBatches, QueueBounded, Taken, Guarded, Pending
<1>5. Placed'
  <2>1. TakenSpans' = TakenSpans
    BY <1>1 DEF TakenSpans, Taken
  <2> QED
    BY <1>1, <1>3, <2>1 DEF BulkInv, Placed
<1>6. EvalsFindSpans' /\ EarlySent'
  BY <1>1 DEF BulkInv, TypeOK, EvalsFindSpans, EarlySent, EvalsSent
<1> QED
  BY <1>2, <1>4, <1>5, <1>6 DEF BulkInv

LEMMA NextBulk ==
  ASSUME BulkInv, [Next]_vars
  PROVE  BulkInv'
<1>1. CASE UNCHANGED vars
  <2>1. /\ handler' = handler /\ arrived' = arrived /\ created' = created /\ lost' = lost
        /\ early' = early /\ queue' = queue
        /\ evals' = evals /\ pc' = pc /\ left' = left /\ open' = open /\ stored' = stored
        /\ failed' = failed /\ scored' = scored /\ refused' = refused /\ dropped' = dropped
    BY <1>1 DEF vars, requests, sources, tables
  <2>2. TypeOK' /\ OpenFits'
    BY <2>1 DEF BulkInv, TypeOK, OpenFits
  <2>3. QueueFits' /\ SentOnce' /\ ShortBatches'
    BY <2>1 DEF BulkInv, QueueFits, SentOnce, ShortBatches, Taken
  <2>4. Placed'
    BY <2>1 DEF BulkInv, Placed, TakenSpans, Taken, OpenSpans
  <2>5. RoundFits'
    BY <2>1 DEF BulkInv, RoundFits, InReach, Within, Taken
  <2>6. EvalsFindSpans' /\ EarlySent'
    BY <2>1 DEF BulkInv, EvalsFindSpans, EarlySent, EvalsSent
  <2>7. QueueBounded'
    BY <2>1 DEF BulkInv, QueueBounded, Guarded, Pending
  <2> QED
    BY <2>2, <2>3, <2>4, <2>5, <2>6, <2>7 DEF BulkInv
<1>2. CASE (\E h \in Handlers : Accept(h) \/ Enqueue(h)) \/ CreateSpans
  BY <1>2, AcceptKeeps, EnqueueKeeps, CreateSpansKeeps
<1>3. CASE \E e \in Evals : SendEval(e)
  BY <1>3, SendEvalKeeps
<1>4. CASE Task
  BY <1>4, GrabKeeps, InsertSpanKeeps, CommitSpansKeeps, InsertEvalKeeps, AbortEvalsKeeps,
     CommitEvalsKeeps, InsertAnnotationsKeeps DEF Task
<1>5. CASE Stop
  BY <1>5, StopKeeps
<1> QED
  BY <1>1, <1>2, <1>3, <1>4, <1>5 DEF Next, Rest

LEMMA AlwaysBulk == Spec => []BulkInv
BY InitBulk, NextBulk, PTL DEF Spec

-----------------------------------------------------------------------------
(* Theorems *)

LEMMA PlacedCounts ==
  ASSUME BulkInv
  PROVE  SpansAccounted
<1>1. arrived \in Seq(Spans) /\ queue \in Seq(Spans) /\ IsInjective(arrived)
  BY DEF BulkInv, TypeOK, SentOnce
<1>2. /\ Len(arrived) \in Nat /\ DOMAIN arrived = 1 .. Len(arrived) /\ Len(queue) \in Nat
      /\ Len(queue) <= Len(arrived)
  BY <1>1, LenProperties DEF BulkInv, QueueFits
<1>3. Taken \in 0 .. Len(arrived)
  BY <1>2 DEF Taken
<1>4. queue = SubSeq(arrived, Taken + 1, Len(arrived))
  <2> DEFINE rest == SubSeq(arrived, Taken + 1, Len(arrived))
  <2>1. \A i \in Taken + 1 .. Len(arrived) : arrived[i] \in Spans
    BY <1>1, <1>2, <1>3, ElementOfSeq
  <2>2. /\ rest \in Seq(Spans)
        /\ Len(rest) = IF Taken + 1 <= Len(arrived) THEN Len(arrived) - (Taken + 1) + 1 ELSE 0
        /\ \A i \in 1 .. Len(arrived) - (Taken + 1) + 1 : rest[i] = arrived[Taken + 1 + i - 1]
    BY <1>2, <1>3, <2>1, SubSeqProperties
  <2>3. Len(rest) = Len(queue)
    BY <1>2, <1>3, <2>2 DEF Taken
  <2>4. ASSUME NEW i \in 1 .. Len(queue) PROVE queue[i] = rest[i]
    <3>1. i \in 1 .. Len(arrived) - (Taken + 1) + 1 /\ Taken + 1 + i - 1 = Taken + i
      BY <1>2, <1>3 DEF Taken
    <3>2. rest[i] = arrived[Taken + i]
      BY <2>2, <3>1
    <3> QED
      BY <3>2 DEF BulkInv, QueueFits
  <2> HIDE DEF rest
  <2>5. queue = rest
    BY <1>1, <2>2, <2>3, <2>4, SeqEqual
  <2> QED
    BY <2>5 DEF rest
<1>5. /\ Range(SubSeq(arrived, 1, Taken)) = TakenSpans
      /\ IsFiniteSet(TakenSpans) /\ Cardinality(TakenSpans) = Taken
  <2>1. \A x : x \in TakenSpans <=> \E i \in 1 .. Taken : x = arrived[i]
    BY DEF TakenSpans
  <2> QED
    BY <1>1, <1>3, <2>1, CountOfFirst
<1>6. Cardinality(OpenSpans) + Cardinality(stored) + Cardinality(failed) = Taken
  <2>1. /\ TakenSpans = (OpenSpans \cup stored) \cup failed
        /\ OpenSpans \cap stored = {} /\ (OpenSpans \cup stored) \cap failed = {}
    BY DEF BulkInv, Placed
  <2>2. /\ IsFiniteSet(OpenSpans) /\ IsFiniteSet(stored) /\ IsFiniteSet(failed)
        /\ IsFiniteSet(OpenSpans \cup stored)
    BY <1>5, <2>1, FS_Subset
  <2>3. Cardinality(OpenSpans \cup stored) = Cardinality(OpenSpans) + Cardinality(stored) - Cardinality({})
    BY <2>1, <2>2, FS_Union
  <2>4. Cardinality(TakenSpans) = Cardinality(OpenSpans \cup stored) + Cardinality(failed) - Cardinality({})
    BY <2>1, <2>2, FS_Union
  <2>5. /\ Cardinality(OpenSpans) \in Nat /\ Cardinality(stored) \in Nat
        /\ Cardinality(failed) \in Nat /\ Cardinality({}) = 0
    BY <2>2, FS_CardinalityType, FS_EmptySet
  <2> QED
    BY <1>5, <2>3, <2>4, <2>5
<1>7. Range(SubSeq(arrived, 1, Taken)) = OpenSpans \cup stored \cup failed
  BY <1>5 DEF BulkInv, Placed
<1>8. lost \cap Range(arrived) = {}
  BY DEF BulkInv, SentOnce
<1> QED
  BY <1>3, <1>4, <1>6, <1>7, <1>8 DEF BulkInv, SpansAccounted

\* However requests, rounds, failures and a shutdown interleave, the queue is the end
\* of what arrived, and each span before it is in the open transaction, in the table or
\* among the failures: in one of them, and once.
THEOREM BulkSpansAccounted == Spec => []SpansAccounted
BY PlacedCounts, AlwaysBulk, PTL

\* Of the spans that come by addTraces the queue holds at most its limit less one
\* and the longest batch of every concurrent handler, whatever createSpans appends to
\* it.  Nothing bounds the spans of createSpans, nor the queue as a whole.
THEOREM BulkQueueBounded == Spec => []QueueBounded
<1>1. BulkInv => QueueBounded
  BY DEF BulkInv
<1> QED
  BY <1>1, AlwaysBulk, PTL

\* An evaluation that came when the next round reached its span is refused only if
\* the span's insertion failed, whatever came between the two queues' turns.
THEOREM BulkEvalsFindSpans == Spec => []EvalsFindSpans
<1>1. BulkInv => EvalsFindSpans
  BY DEF BulkInv
<1> QED
  BY <1>1, AlwaysBulk, PTL

=============================================================================
