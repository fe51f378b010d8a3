----------------------- MODULE AnnotationQueue_proofs ------------------------
(***************************************************************************)
(* The queue implements AnnotationTable, and gives no annotation up early, *)
(* for any annotations, keys, spans, allowance and faults.                 *)
(***************************************************************************)
EXTENDS AnnotationQueue, FiniteSetTheorems, WellFoundedInduction, TLAPS

\* The rounds that are left and those that were used make up the allowance.
TriesFit ==
  /\ tries \in [Annos -> 0 .. Allowance + 1]
  /\ \A a \in Annos : left[a] # 0 => tries[a] >= Allowance + 1 - left[a]
  /\ \A a \in In("discarded") : tries[a] >= Allowance + 1

\* No annotation's time stamp is ahead of the clock, and it has one of both kinds.
ClockFits == received = updated /\ \A a \in Annos : updated[a] <= clock

QueueInv == TypeOK /\ TriesFit /\ ClockFits

LEMMA InitQueue == Init => QueueInv
<1> SUFFICES ASSUME Init PROVE QueueInv
  OBVIOUS
<1>1. In("timer") = {} /\ In("discarded") = {}
  BY DEF Init, In
<1>2. TypeOK
  BY <1>1, BoundsAssumption DEF Init, TypeOK, Places
<1>3. TriesFit
  BY <1>1, BoundsAssumption DEF Init, TriesFit
<1>4. ClockFits
  BY DEF Init, ClockFits
<1> QED
  BY <1>2, <1>3, <1>4 DEF QueueInv

-----------------------------------------------------------------------------
(* The world around *)

LEMMA WorldKeeps == QueueInv /\ World => QueueInv'
<1> SUFFICES ASSUME QueueInv, World PROVE QueueInv'
  OBVIOUS
<1> USE DEF QueueInv
<1>1. ASSUME NEW a \in Annos, Enqueue(a) PROVE QueueInv'
  <2>1. clock \in Nat /\ clock' = clock + 1 /\ clock' \in 0 .. MaxClock
    BY <1>1, BoundsAssumption DEF Enqueue, Tick, TypeOK
  <2>2. In("timer")' = In("timer") /\ In("discarded")' = In("discarded")
    BY <1>1 DEF Enqueue, In, TypeOK
  <2>3. TypeOK'
    BY <1>1, <2>1, <2>2 DEF Enqueue, TypeOK, Places
  <2>4. ClockFits'
    BY <1>1, <2>1, BoundsAssumption, NoneAssumption DEF Enqueue, TypeOK, ClockFits
  <2> QED
    BY <1>1, <2>2, <2>3, <2>4 DEF Enqueue, TriesFit
<1>2. ASSUME NEW k \in Keys, DirectWrite(k) PROVE QueueInv'
  <2>1. clock \in Nat /\ clock' = clock + 1 /\ clock' \in 0 .. MaxClock
    BY <1>2, BoundsAssumption DEF DirectWrite, Tick, TypeOK
  <2>2. ClockFits'
    BY <1>2, <2>1, BoundsAssumption DEF DirectWrite, TypeOK, ClockFits, parcels
  <2> QED
    BY <1>2, <2>1, <2>2 DEF DirectWrite, TypeOK, TriesFit, parcels, In
<1>2a. ASSUME NEW k \in Keys, RowDeleted(k) PROVE QueueInv'
  BY <1>2a DEF RowDeleted, TypeOK, TriesFit, ClockFits, parcels, In
<1>3. ASSUME NEW s \in Spans, SpanArrives(s) PROVE QueueInv'
  BY <1>3 DEF SpanArrives, TypeOK, TriesFit, ClockFits, parcels, In
<1>4. ASSUME NEW s \in Spans, SpanDeleted(s) PROVE QueueInv'
  <2>1. clock \in Nat /\ clock' = clock + 1 /\ clock' \in 0 .. MaxClock
    BY <1>4, BoundsAssumption DEF SpanDeleted, Tick, TypeOK
  <2>2. table' \in [Keys -> 0 .. MaxClock \cup {None}]
    BY <1>4 DEF SpanDeleted, TypeOK
  <2>3. ClockFits'
    BY <1>4, <2>1, BoundsAssumption DEF SpanDeleted, TypeOK, ClockFits, parcels
  <2> QED
    BY <1>4, <2>1, <2>2, <2>3 DEF SpanDeleted, TypeOK, TriesFit, parcels, In
<1> QED
  BY <1>1, <1>2, <1>2a, <1>3, <1>4 DEF World

-----------------------------------------------------------------------------
(* A round *)

LEMMA TakeKeeps == QueueInv /\ Take => QueueInv'
<1> SUFFICES ASSUME QueueInv, Take PROVE QueueInv'
  OBVIOUS
<1> USE DEF QueueInv
<1>1. place' \in [Annos -> Places]
  BY DEF Take, TypeOK, Places
<1>2. In("timer")' = In("timer") /\ In("discarded")' = In("discarded")
  BY DEF Take, In
<1> QED
  BY <1>1, <1>2 DEF Take, TypeOK, TriesFit, ClockFits, parcels

LEMMA FailKeeps == QueueInv /\ TransactionFails => QueueInv'
<1> SUFFICES ASSUME QueueInv, TransactionFails PROVE QueueInv'
  OBVIOUS
<1> USE DEF QueueInv
<1>1. place' \in [Annos -> Places]
  BY DEF TransactionFails, TypeOK, Places
<1>2. In("timer")' = In("timer") /\ In("discarded")' = In("discarded")
  BY DEF TransactionFails, In
<1> QED
  BY <1>1, <1>2 DEF TransactionFails, TypeOK, TriesFit, ClockFits, parcels

LEMMA FireKeeps ==
  ASSUME QueueInv, NEW g \in timers, Fire(g)
  PROVE  QueueInv'
<1> USE DEF QueueInv
<1>1. place' \in [Annos -> Places]
  BY DEF Fire, TypeOK, Places
<1>2. g \subseteq In("timer")
  BY DEF TypeOK
<1>3. In("timer")' = In("timer") \ g /\ In("discarded")' = In("discarded")
  BY <1>2 DEF Fire, In
<1>4. UNION timers' = In("timer")'
  BY <1>2, <1>3 DEF Fire, TypeOK
<1> QED
  BY <1>1, <1>3, <1>4 DEF Fire, TypeOK, TriesFit, ClockFits, parcels

\* What a round does to one annotation.
LEMMA SettleMoves ==
  ASSUME QueueInv, Settle
  PROVE  \E bad \in SUBSET LatestOfKey(Fresh) :
           LET good == LatestOfKey(Fresh) \ bad
               later == {a \in Waiting : ~Spent(a)} IN
           /\ failures' = failures + Cardinality(bad) /\ failures' <= MaxFailures
           /\ table' = [k \in Keys |->
                IF \E a \in good : KeyOf[a] = k
                THEN updated[CHOOSE a \in good : KeyOf[a] = k] ELSE table[k]]
           /\ timers' = IF later \cup bad = {} THEN timers ELSE timers \cup {later \cup bad}
           /\ place' \in [Annos -> Places] /\ left' \in [Annos -> 0 .. Allowance]
           /\ tries' \in [Annos -> 0 .. Allowance + 1]
           /\ \A a \in Annos \ In("hand") :
                place'[a] = place[a] /\ left'[a] = left[a] /\ tries'[a] = tries[a]
           /\ \A a \in In("hand") :
                /\ place'[a] = "timer" <=> a \in later \cup bad
                /\ a \in Waiting \cup bad =>
                     tries'[a] = IF tries[a] <= Allowance THEN tries[a] + 1 ELSE tries[a]
                /\ a \notin Waiting \cup bad => tries'[a] = tries[a]
                /\ a \in later => left'[a] = NextAllowance(a)
                /\ a \in bad => left'[a] = Allowance
                /\ a \notin later \cup bad => left'[a] = left[a]
                /\ place'[a] = "discarded" <=> a \in Waiting /\ Spent(a)
<1> USE DEF QueueInv
<1>1. PICK bad \in SUBSET LatestOfKey(Fresh) :
        LET good == LatestOfKey(Fresh) \ bad
            later == {a \in Waiting : ~Spent(a)} IN
        /\ failures + Cardinality(bad) <= MaxFailures
        /\ failures' = failures + Cardinality(bad)
        /\ table' = [k \in Keys |->
             IF \E a \in good : KeyOf[a] = k
             THEN updated[CHOOSE a \in good : KeyOf[a] = k] ELSE table[k]]
        /\ place' = [a \in Annos |->
             CASE a \in good -> "stored"
               [] a \in later \cup bad -> "timer"
               [] a \in Waiting \ later -> "discarded"
               [] a \in Misplaced -> "rejected"
               [] a \in In("hand") \ (Waiting \cup Misplaced \cup good \cup bad) -> "superseded"
               [] OTHER -> place[a]]
        /\ left' = [a \in Annos |->
             CASE a \in later -> NextAllowance(a)
               [] a \in bad -> Allowance
               [] OTHER -> left[a]]
        /\ timers' = IF later \cup bad = {} THEN timers ELSE timers \cup {later \cup bad}
        /\ tries' = [a \in Annos |->
             IF a \in Waiting \cup bad /\ tries[a] <= Allowance THEN tries[a] + 1 ELSE tries[a]]
  BY DEF Settle
<1> DEFINE good == LatestOfKey(Fresh) \ bad
           later == {a \in Waiting : ~Spent(a)}
<1>2. /\ good \subseteq In("hand") /\ bad \subseteq In("hand") /\ Waiting \subseteq In("hand")
      /\ good \cap bad = {} /\ (good \cup bad) \cap Waiting = {} /\ later \subseteq Waiting
      /\ Misplaced \subseteq In("hand") /\ Misplaced \cap (Waiting \cup good \cup bad) = {}
  BY DEF LatestOfKey, Fresh, Waiting, Misplaced
<1>3. In("hand") \subseteq Annos /\ \A a \in Annos : a \in In("hand") <=> place[a] = "hand"
  BY DEF In
<1>4. \A a \in later : NextAllowance(a) \in 0 .. Allowance
  BY <1>2, <1>3, BoundsAssumption DEF NextAllowance, TypeOK, Spent
<1>5. left' \in [Annos -> 0 .. Allowance]
  <2> HIDE DEF later
  <2> QED
    BY <1>1, <1>4, BoundsAssumption DEF TypeOK, later
<1>6. place' \in [Annos -> Places]
  <2> HIDE DEF later, good
  <2>1. place \in [Annos -> Places]
    BY DEF TypeOK
  <2> QED
    BY <1>1, <2>1 DEF Places, Settled, later, good
<1>7. tries' \in [Annos -> 0 .. Allowance + 1]
  BY <1>1, BoundsAssumption DEF TriesFit
<1>8. ASSUME NEW a \in Annos \ In("hand")
      PROVE  place'[a] = place[a] /\ left'[a] = left[a] /\ tries'[a] = tries[a]
  <2>1. a \notin good /\ a \notin bad /\ a \notin Waiting /\ a \notin later /\ a \notin Misplaced
    BY <1>2
  <2> HIDE DEF later, good
  <2> QED
    BY <1>1, <2>1 DEF later, good
<1>9. ASSUME NEW a \in In("hand")
      PROVE  /\ place'[a] = "timer" <=> a \in later \cup bad
             /\ a \in Waiting \cup bad =>
                  tries'[a] = IF tries[a] <= Allowance THEN tries[a] + 1 ELSE tries[a]
             /\ a \notin Waiting \cup bad => tries'[a] = tries[a]
             /\ a \in later => left'[a] = NextAllowance(a)
             /\ a \in bad => left'[a] = Allowance
             /\ a \notin later \cup bad => left'[a] = left[a]
             /\ place'[a] = "discarded" <=> a \in Waiting /\ Spent(a)
  <2>1. a \in Annos
    BY <1>3
  <2>2. place'[a] = CASE a \in good -> "stored"
               [] a \in later \cup bad -> "timer"
               [] a \in Waiting \ later -> "discarded"
               [] a \in Misplaced -> "rejected"
               [] a \in In("hand") \ (Waiting \cup Misplaced \cup good \cup bad) -> "superseded"
               [] OTHER -> place[a]
    BY <1>1, <2>1
  <2>3. left'[a] = CASE a \in later -> NextAllowance(a)
               [] a \in bad -> Allowance
               [] OTHER -> left[a]
    BY <1>1, <2>1
  <2>4. tries'[a] = IF a \in Waiting \cup bad /\ tries[a] <= Allowance THEN tries[a] + 1 ELSE tries[a]
    BY <1>1, <2>1
  <2>5. a \in later <=> a \in Waiting /\ ~Spent(a)
    OBVIOUS
  <2> HIDE DEF later, good
  <2>6. place'[a] = "timer" <=> a \in later \cup bad
    BY <1>2, <2>2
  <2>7. place'[a] = "discarded" <=> a \in Waiting /\ Spent(a)
    BY <1>2, <2>2, <2>5
  <2> QED
    BY <1>2, <2>3, <2>4, <2>6, <2>7
<1>10. failures' = failures + Cardinality(bad) /\ failures' <= MaxFailures
  BY <1>1
<1> QED
  BY <1>1, <1>5, <1>6, <1>7, <1>8, <1>9, <1>10

LEMMA SettleKeeps == QueueInv /\ Settle => QueueInv'
<1> SUFFICES ASSUME QueueInv, Settle PROVE QueueInv'
  OBVIOUS
<1> USE DEF QueueInv
<1>1. PICK bad \in SUBSET LatestOfKey(Fresh) :
           LET good == LatestOfKey(Fresh) \ bad
               later == {a \in Waiting : ~Spent(a)} IN
           /\ failures' = failures + Cardinality(bad) /\ failures' <= MaxFailures
           /\ table' = [k \in Keys |->
                IF \E a \in good : KeyOf[a] = k
                THEN updated[CHOOSE a \in good : KeyOf[a] = k] ELSE table[k]]
           /\ timers' = IF later \cup bad = {} THEN timers ELSE timers \cup {later \cup bad}
           /\ place' \in [Annos -> Places] /\ left' \in [Annos -> 0 .. Allowance]
           /\ tries' \in [Annos -> 0 .. Allowance + 1]
           /\ \A a \in Annos \ In("hand") :
                place'[a] = place[a] /\ left'[a] = left[a] /\ tries'[a] = tries[a]
           /\ \A a \in In("hand") :
                /\ place'[a] = "timer" <=> a \in later \cup bad
                /\ a \in Waiting \cup bad =>
                     tries'[a] = IF tries[a] <= Allowance THEN tries[a] + 1 ELSE tries[a]
                /\ a \notin Waiting \cup bad => tries'[a] = tries[a]
                /\ a \in later => left'[a] = NextAllowance(a)
                /\ a \in bad => left'[a] = Allowance
                /\ a \notin later \cup bad => left'[a] = left[a]
                /\ place'[a] = "discarded" <=> a \in Waiting /\ Spent(a)
  BY SettleMoves
<1> DEFINE later == {a \in Waiting : ~Spent(a)}
           new == later \cup bad
<1>2. UNCHANGED <<received, updated, spans, clock>> /\ pc' = "idle"
  BY DEF Settle
<1>3. new \subseteq In("hand") /\ In("hand") \subseteq Annos /\ Waiting \subseteq In("hand")
      /\ bad \subseteq In("hand") /\ bad \cap Waiting = {}
  BY DEF Waiting, LatestOfKey, Fresh, In
<1>4. In("timer") \cap In("hand") = {} /\ \A a \in Annos : a \in In("hand") <=> place[a] = "hand"
  BY DEF In
<1>5. In("timer")' = In("timer") \cup new
  BY <1>1, <1>3, <1>4 DEF In
<1>6. timers' = IF new = {} THEN timers ELSE timers \cup {new}
  BY <1>1
<1>7. /\ UNION timers' = In("timer")'
      /\ \A g, h \in timers' : g # h => g \cap h = {}
  <2>1. UNION timers = In("timer") /\ \A g, h \in timers : g # h => g \cap h = {}
    BY DEF TypeOK
  <2>2. \A g \in timers : g \cap new = {}
    BY <1>3, <1>4, <2>1
  <2> HIDE DEF new
  <2> QED
    BY <1>5, <1>6, <2>1, <2>2
<1>8. failures' \in 0 .. MaxFailures
  <2>1. bad \subseteq Annos
    BY <1>3
  <2>2. Cardinality(bad) \in Nat
    BY <2>1, KeysAssumption, FS_Subset, FS_CardinalityType
  <2> QED
    BY <1>1, <2>2, BoundsAssumption DEF TypeOK
<1>9. table' \in [Keys -> 0 .. MaxClock \cup {None}]
  <2> DEFINE good == LatestOfKey(Fresh) \ bad
  <2>1. good \subseteq Annos
    BY DEF LatestOfKey, Fresh, In
  <2>2. \A k \in Keys : (\E a \in good : KeyOf[a] = k) => (CHOOSE a \in good : KeyOf[a] = k) \in Annos
    BY <2>1
  <2>3. updated \in [Annos -> 0 .. MaxClock] /\ table \in [Keys -> 0 .. MaxClock \cup {None}]
    BY DEF TypeOK
  <2>4. table' = [k \in Keys |->
             IF \E a \in good : KeyOf[a] = k
             THEN updated[CHOOSE a \in good : KeyOf[a] = k] ELSE table[k]]
    BY <1>1
  <2> HIDE DEF good
  <2> QED
    BY <2>2, <2>3, <2>4
<1>10. TypeOK'
  BY <1>1, <1>2, <1>7, <1>8, <1>9 DEF TypeOK
<1>11. ASSUME NEW a \in Annos, left'[a] # 0 PROVE tries'[a] >= Allowance + 1 - left'[a]
  <2>1. /\ tries[a] \in 0 .. Allowance + 1 /\ left[a] \in 0 .. Allowance
        /\ left[a] # 0 => tries[a] >= Allowance + 1 - left[a]
    BY DEF TypeOK, TriesFit
  <2>2. CASE a \notin In("hand")
    BY <1>1, <1>11, <2>1, <2>2
  <2>3. CASE a \in later
    <3>1. /\ left'[a] = NextAllowance(a)
          /\ tries'[a] = IF tries[a] <= Allowance THEN tries[a] + 1 ELSE tries[a]
      BY <1>1, <1>3, <2>3
    <3> QED
      BY <2>1, <3>1, BoundsAssumption DEF NextAllowance
  <2>4. CASE a \in bad
    <3>1. /\ left'[a] = Allowance
          /\ tries'[a] = IF tries[a] <= Allowance THEN tries[a] + 1 ELSE tries[a]
      BY <1>1, <1>3, <2>4
    <3> QED
      BY <2>1, <3>1, BoundsAssumption
  <2>5. CASE a \in In("hand") /\ a \notin later \cup bad
    <3>1. left'[a] = left[a]
      BY <1>1, <2>5
    <3>2. tries'[a] \in {tries[a], tries[a] + 1}
      BY <1>1, <2>5
    <3> QED
      BY <1>11, <2>1, <3>1, <3>2, BoundsAssumption
  <2> QED
    BY <2>2, <2>3, <2>4, <2>5
<1>12. ASSUME NEW a \in In("discarded")' PROVE tries'[a] >= Allowance + 1
  <2>1. a \in Annos /\ place'[a] = "discarded"
    BY DEF In
  <2>2. tries[a] \in 0 .. Allowance + 1 /\ (left[a] # 0 => tries[a] >= Allowance + 1 - left[a])
    BY <2>1 DEF TriesFit
  <2>3. CASE a \notin In("hand")
    <3>1. place[a] = "discarded" /\ tries'[a] = tries[a]
      BY <1>1, <2>1, <2>3
    <3> QED
      BY <2>1, <3>1 DEF TriesFit, In
  <2>4. CASE a \in In("hand")
    <3>1. a \in Waiting /\ left[a] = 1
      BY <1>1, <2>1, <2>4 DEF Spent
    <3>2. tries'[a] = IF tries[a] <= Allowance THEN tries[a] + 1 ELSE tries[a]
      BY <1>1, <2>4, <3>1
    <3> QED
      BY <2>2, <3>1, <3>2, BoundsAssumption
  <2> QED
    BY <2>3, <2>4
<1>13. TriesFit'
  BY <1>1, <1>11, <1>12 DEF TriesFit
<1>14. ClockFits'
  <2> DEFINE good == LatestOfKey(Fresh) \ bad
  <2>1. \A k \in Keys : (\E a \in good : KeyOf[a] = k) => (CHOOSE a \in good : KeyOf[a] = k) \in Annos
    BY DEF LatestOfKey, Fresh, In
  <2>2. table' = [k \in Keys |->
             IF \E a \in good : KeyOf[a] = k
             THEN updated[CHOOSE a \in good : KeyOf[a] = k] ELSE table[k]]
    BY <1>1
  <2> HIDE DEF good
  <2> QED
    BY <1>2, <2>1, <2>2 DEF ClockFits
<1> QED
  BY <1>10, <1>13, <1>14

LEMMA NextQueue == QueueInv /\ [Next]_vars => QueueInv'
<1> SUFFICES ASSUME QueueInv, [Next]_vars PROVE QueueInv'
  OBVIOUS
<1>1. CASE UNCHANGED vars
  BY <1>1 DEF vars, parcels, QueueInv, TypeOK, TriesFit, ClockFits, In
<1>2. CASE Rest
  BY <1>1, <1>2 DEF Rest
<1> QED
  BY <1>1, <1>2, WorldKeeps, TakeKeeps, SettleKeeps, FailKeeps, FireKeeps DEF Next

-----------------------------------------------------------------------------
(* The properties *)

\* An annotation is given up for a missing span only after all its rounds.
THEOREM AnnotationGetsItsTime == Spec => []SpanGetsItsTime
<1>1. QueueInv => SpanGetsItsTime
  BY DEF QueueInv, TriesFit, SpanGetsItsTime
<1> QED
  BY <1>1, InitQueue, NextQueue, PTL DEF Spec

-----------------------------------------------------------------------------
(* The queue implements the table *)

\* dedup keeps, of the annotations for a key, one received last.
LEMMA LatestIsThere ==
  ASSUME QueueInv, NEW S \in SUBSET Annos, NEW a \in S
  PROVE  \E b \in LatestOfKey(S) : KeyOf[b] = KeyOf[a] /\ received[a] <= received[b]
<1> DEFINE A == {b \in S : KeyOf[b] = KeyOf[a]}
           Below == {p \in Nat \X Nat : p[1] < p[2]}
           Gaps == {MaxClock - received[b] : b \in A}
<1>1. \A b \in S : received[b] \in Nat /\ MaxClock - received[b] \in Nat
  BY BoundsAssumption DEF QueueInv, TypeOK
<1>2. IsWellFoundedOn(Below, Nat)
  BY NatLessThanWellFounded DEF OpToRel
<1>3. Gaps \subseteq Nat /\ Gaps # {}
  BY <1>1
<1>4. \E x \in Gaps : \A y \in Gaps : <<y, x>> \notin Below
  <2> HIDE DEF Below, Gaps
  <2> QED
    BY <1>2, <1>3, WFMin
<1>5. PICK b \in A : \A c \in A : <<MaxClock - received[c], MaxClock - received[b]>> \notin Below
  BY <1>4
<1>6. ASSUME NEW c \in S, KeyOf[c] = KeyOf[a] PROVE received[c] <= received[b]
  <2>1. c \in A /\ b \in S
    BY <1>6
  <2>2. ~(MaxClock - received[c] < MaxClock - received[b])
    BY <1>1, <1>5, <2>1
  <2> QED
    BY <1>1, <2>1, <2>2, BoundsAssumption
<1>7. b \in S /\ KeyOf[b] = KeyOf[a]
  OBVIOUS
<1>8. b \in LatestOfKey(S)
  BY <1>6, <1>7 DEF LatestOfKey
<1> QED
  BY <1>6, <1>7, <1>8

\* A round decides some annotations of those that it has in hand.
LEMMA SettleDecides ==
  ASSUME QueueInv, Settle
  PROVE  Table!Decide
<1>1. PICK bad \in SUBSET LatestOfKey(Fresh) :
        LET good == LatestOfKey(Fresh) \ bad
            later == {a \in Waiting : ~Spent(a)} IN
        /\ table' = [k \in Keys |->
             IF \E a \in good : KeyOf[a] = k
             THEN updated[CHOOSE a \in good : KeyOf[a] = k] ELSE table[k]]
        /\ place' = [a \in Annos |->
             CASE a \in good -> "stored"
               [] a \in later \cup bad -> "timer"
               [] a \in Waiting \ later -> "discarded"
               [] a \in Misplaced -> "rejected"
               [] a \in In("hand") \ (Waiting \cup Misplaced \cup good \cup bad) -> "superseded"
               [] OTHER -> place[a]]
  BY DEF Settle
<1> DEFINE good == LatestOfKey(Fresh) \ bad
           later == {a \in Waiting : ~Spent(a)}
<1>2. UNCHANGED <<received, updated, spans>> /\ received = updated
  BY DEF Settle, QueueInv, ClockFits
<1>3. /\ good \subseteq LatestOfKey(Fresh) /\ bad \subseteq LatestOfKey(Fresh)
      /\ LatestOfKey(Fresh) \subseteq Fresh /\ good \cup bad = LatestOfKey(Fresh)
      /\ Fresh \subseteq In("hand") /\ Waiting \subseteq In("hand")
      /\ good \cap bad = {} /\ Fresh \cap Waiting = {} /\ later \subseteq Waiting
      /\ Misplaced \subseteq In("hand") /\ Misplaced \cap (Fresh \cup Waiting) = {}
      /\ In("hand") \subseteq Annos
  BY DEF LatestOfKey, Fresh, Waiting, Misplaced, In
<1>4. \A k \in Keys : table[k] \in Nat \cup {None}
  BY BoundsAssumption DEF QueueInv, TypeOK
<1>5. \A a \in Annos : updated[a] \in Nat /\ KeyOf[a] \in Keys
  BY KeysAssumption, BoundsAssumption DEF QueueInv, TypeOK
<1>6. ASSUME NEW a \in Annos
      PROVE  /\ a \notin In("hand") => place'[a] = place[a]
             /\ a \in good => place'[a] = "stored"
             /\ a \in later \cup bad => place'[a] = "timer"
             /\ a \in Waiting \ later => place'[a] = "discarded"
             /\ a \in Misplaced => place'[a] = "rejected"
             /\ a \in In("hand") \ (Waiting \cup Misplaced \cup good \cup bad)
                  => place'[a] = "superseded"
  <2>1. place'[a] = CASE a \in good -> "stored"
               [] a \in later \cup bad -> "timer"
               [] a \in Waiting \ later -> "discarded"
               [] a \in Misplaced -> "rejected"
               [] a \in In("hand") \ (Waiting \cup Misplaced \cup good \cup bad) -> "superseded"
               [] OTHER -> place[a]
    BY <1>1
  <2> HIDE DEF good, later
  <2> QED
    BY <1>3, <2>1
<1>7. \A k \in Keys :
        table'[k] = IF \E a \in good : KeyOf[a] = k
                    THEN updated[CHOOSE a \in good : KeyOf[a] = k] ELSE table[k]
  BY <1>1
<1>8. table' = [k \in Keys |-> table'[k]]
  BY <1>1
<1> HIDE DEF good, later
<1>9. ASSUME NEW a \in good PROVE table'[KeyOf[a]] = updated[a]
  <2> DEFINE c == CHOOSE b \in good : KeyOf[b] = KeyOf[a]
  <2>1. c \in good /\ KeyOf[c] = KeyOf[a]
    OBVIOUS
  <2>2. table'[KeyOf[a]] = updated[c]
    BY <1>3, <1>5, <1>7
  <2> HIDE DEF c
  <2>3. received[c] <= received[a] /\ received[a] <= received[c]
    BY <1>3, <2>1 DEF LatestOfKey
  <2>4. updated[c] = updated[a]
    BY <1>2, <1>3, <1>5, <2>1, <2>3
  <2> QED
    BY <2>2, <2>4
<1>10. ASSUME NEW a \in good
       PROVE  /\ SpanOf[KeyOf[a]] \in spans
              /\ table[KeyOf[a]] # None => table[KeyOf[a]] < updated[a]
  <2>1. Found(a) /\ ~Old(a) /\ a \in Annos
    BY <1>3 DEF Fresh
  <2> QED
    BY <1>4, <1>5, <2>1 DEF Found, Old
<1>11. ASSUME NEW a \in Annos
       PROVE  /\ Outcome[a] = IF place[a] \in {"queue", "hand", "timer"} THEN "pending" ELSE place[a]
              /\ Outcome'[a] = IF place'[a] \in {"queue", "hand", "timer"} THEN "pending" ELSE place'[a]
  BY DEF Outcome
<1>12. \A a \in Annos : a \in In("hand") <=> place[a] = "hand"
  BY DEF In
<1>13. ASSUME NEW a \in Annos, Outcome[a] # Outcome'[a]
       PROVE  /\ Outcome[a] = "pending" /\ a \in In("hand") /\ a \notin later \cup bad
              /\ Outcome'[a] = "stored" <=> a \in good
              /\ Outcome'[a] = "discarded" <=> a \in Waiting
              /\ Outcome'[a] = "rejected" <=> a \in Misplaced
              /\ Outcome'[a] = "superseded" <=> a \notin Waiting \cup Misplaced \cup good
              /\ Outcome'[a] \in {"stored", "superseded", "discarded", "rejected"}
  <2>1. a \in In("hand") /\ Outcome[a] = "pending"
    BY <1>6, <1>11, <1>12, <1>13
  <2>2. a \notin later \cup bad
    BY <1>6, <1>11, <1>13, <2>1
  <2> QED
    BY <1>3, <1>6, <1>11, <2>1, <2>2
<1>14. ASSUME NEW a \in In("hand"), a \notin Waiting \cup Misplaced \cup good \cup bad
       PROVE  Table!GivesWay(a)'
  <2>1. a \in Annos /\ Found(a) /\ KeyOf[a] \in Keys
    BY <1>3, <1>5, <1>14 DEF Waiting
  <2>2. CASE Old(a)
    <3>1. table[KeyOf[a]] # None /\ updated[a] <= table[KeyOf[a]]
      BY <2>2 DEF Old
    <3>2. CASE \E b \in good : KeyOf[b] = KeyOf[a]
      <4>1. PICK b \in good : KeyOf[b] = KeyOf[a]
        BY <3>2
      <4>2. table'[KeyOf[a]] = updated[b] /\ table[KeyOf[a]] < updated[b] /\ b \in Annos
        BY <1>3, <1>9, <1>10, <3>1, <4>1
      <4>3. table'[KeyOf[a]] # None /\ updated[a] <= table'[KeyOf[a]]
        BY <1>4, <1>5, <2>1, <3>1, <4>2, NoneAssumption
      <4> QED
        BY <1>2, <4>3 DEF Table!GivesWay
    <3>3. CASE ~\E b \in good : KeyOf[b] = KeyOf[a]
      <4>1. table'[KeyOf[a]] = table[KeyOf[a]]
        BY <1>7, <2>1, <3>3
      <4> QED
        BY <1>2, <3>1, <4>1 DEF Table!GivesWay
    <3> QED
      BY <3>2, <3>3
  <2>3. CASE ~Old(a)
    <3>1. a \in Fresh /\ Fresh \in SUBSET Annos
      BY <1>3, <1>14, <2>1, <2>3 DEF Fresh
    <3>2. PICK b \in LatestOfKey(Fresh) : KeyOf[b] = KeyOf[a] /\ received[a] <= received[b]
      BY <3>1, LatestIsThere
    <3>3. b \in Annos /\ updated[a] <= updated[b]
      BY <1>2, <1>3, <3>2
    <3>4. CASE b \in good
      <4>1. table'[KeyOf[a]] = updated[b] /\ updated[b] # None
        BY <1>5, <1>9, <3>2, <3>3, <3>4, NoneAssumption
      <4> QED
        BY <1>2, <3>3, <4>1 DEF Table!GivesWay
    <3>5. CASE b \in bad
      <4>1. place'[b] = "timer" /\ Outcome'[b] = "pending"
        BY <1>6, <1>11, <3>3, <3>5
      <4>2. updated[a] < updated[b]
        <5>1. a \notin LatestOfKey(Fresh)
          BY <1>3, <1>14
        <5>2. PICK c \in Fresh : KeyOf[c] = KeyOf[a] /\ ~(received[c] <= received[a])
          BY <3>1, <5>1 DEF LatestOfKey
        <5>3. received[c] <= received[b]
          BY <3>2, <5>2 DEF LatestOfKey
        <5>4. c \in Annos
          BY <3>1
        <5> QED
          BY <1>2, <1>5, <2>1, <3>3, <5>2, <5>3, <5>4
      <4> QED
        BY <1>2, <3>2, <3>3, <4>1, <4>2 DEF Table!GivesWay
    <3> QED
      BY <1>3, <3>2, <3>4, <3>5
  <2> QED
    BY <2>2, <2>3
<1>15. ASSUME NEW k \in Keys, table'[k] # table[k]
       PROVE  \E a \in good : KeyOf[a] = k
  BY <1>7, <1>15
<1>16. ASSUME NEW a \in good PROVE a \in Annos /\ Outcome[a] = "pending" /\ Outcome'[a] = "stored"
  BY <1>3, <1>6, <1>11, <1>12
<1>17. ASSUME NEW a \in Waiting PROVE SpanOf[KeyOf[a]] \notin spans
  BY DEF Waiting, Found
<1>18. ASSUME NEW a \in Misplaced PROVE SpanOf[KeyOf[a]] \in spans /\ KeyOf[a] \in NoSuchDocument
  BY DEF Misplaced, Found
<1>19. Outcome' = [a \in Annos |-> Outcome'[a]]
  BY DEF Outcome
<1>20. ASSUME NEW k \in Keys, table'[k] # table[k]
       PROVE  \E a \in Annos : Outcome[a] # Outcome'[a] /\ Outcome'[a] = "stored" /\ KeyOf[a] = k
  BY <1>15, <1>16, <1>20
<1>21. ASSUME NEW a \in Annos, Outcome[a] # Outcome'[a]
       PROVE  /\ Outcome[a] = "pending"
              /\ Outcome'[a] \in {"stored", "superseded", "discarded", "rejected"}
              /\ Outcome'[a] = "stored" =>
                   /\ SpanOf[KeyOf[a]] \in spans /\ table'[KeyOf[a]] = updated[a]
                   /\ table[KeyOf[a]] # None => table[KeyOf[a]] < updated[a]
              /\ Outcome'[a] = "superseded" => Table!GivesWay(a)'
              /\ Outcome'[a] = "discarded" => SpanOf[KeyOf[a]] \notin spans
              /\ Outcome'[a] = "rejected" =>
                   SpanOf[KeyOf[a]] \in spans /\ KeyOf[a] \in NoSuchDocument
  BY <1>9, <1>10, <1>13, <1>14, <1>17, <1>21, <1>18
<1> QED
  BY <1>2, <1>8, <1>19, <1>20, <1>21 DEF Table!Decide

\* Every step is one of the table's, or none.
LEMMA StepImplements ==
  ASSUME QueueInv, [Next]_vars
  PROVE  [Table!Next]_(Table!tableVars)
<1> USE DEF QueueInv
<1>0. Outcome' = [a \in Annos |->
        IF place'[a] \in {"queue", "hand", "timer"} THEN "pending" ELSE place'[a]]
  BY DEF Outcome
<1>c. clock \in Nat /\ \A a \in Annos : updated[a] \in Nat /\ updated[a] <= clock
  BY BoundsAssumption DEF TypeOK, ClockFits
<1>1. ASSUME NEW a \in Annos, Enqueue(a) PROVE Table!Send(a)
  <2>1. /\ place' = [place EXCEPT ![a] = "queue"] /\ place[a] = "unsent"
        /\ updated' = [updated EXCEPT ![a] = clock + 1] /\ updated'[a] = clock + 1
        /\ UNCHANGED <<table, spans>>
    BY <1>1 DEF Enqueue, Tick, TypeOK
  <2>2. Outcome[a] = "unsent" /\ Outcome' = [Outcome EXCEPT ![a] = "pending"]
    BY <1>0, <2>1 DEF Outcome, TypeOK
  <2>3. updated'[a] \in Nat /\ \A b \in Annos : updated[b] < updated'[a]
    BY <1>c, <2>1
  <2> QED
    BY <2>1, <2>2, <2>3 DEF Table!Send
<1>2. ASSUME NEW k \in Keys, DirectWrite(k) PROVE Table!Write(k)
  <2>1. PICK t \in 0 .. MaxClock : table' = [table EXCEPT ![k] = t]
    BY <1>2 DEF DirectWrite
  <2>2. table'[k] = t /\ t \in Nat
    BY <2>1, BoundsAssumption DEF TypeOK
  <2>3. /\ SpanOf[k] \in spans /\ k \notin NoSuchDocument
        /\ UNCHANGED <<place, updated, spans>>
    BY <1>2 DEF DirectWrite, parcels
  <2> QED
    BY <2>1, <2>2, <2>3 DEF Table!Write, Outcome
<1>2a. ASSUME NEW k \in Keys, RowDeleted(k) PROVE Table!Write(k)
  <2>1. table' = [table EXCEPT ![k] = None] /\ UNCHANGED <<place, updated, spans>>
    BY <1>2a DEF RowDeleted, parcels
  <2>2. table'[k] = None
    BY <2>1 DEF TypeOK
  <2> QED
    BY <2>1, <2>2 DEF Table!Write, Outcome
<1>3. ASSUME NEW s \in Spans, SpanArrives(s) PROVE Table!Arrive(s)
  BY <1>3 DEF SpanArrives, Table!Arrive, parcels, Outcome
<1>4. ASSUME NEW s \in Spans, SpanDeleted(s) PROVE Table!Delete(s)
  BY <1>4 DEF SpanDeleted, Table!Delete, parcels, Outcome
<1>5. CASE Take
  <2>1. \A a \in Annos : place'[a] \in {"queue", "hand", "timer"} \/ place[a] \in {"queue", "hand", "timer"}
          => place'[a] \in {"queue", "hand", "timer"} /\ place[a] \in {"queue", "hand", "timer"}
    BY <1>5 DEF Take
  <2>2. Outcome' = Outcome
    BY <1>0, <1>5, <2>1 DEF Take, Outcome
  <2> QED
    BY <1>5, <2>2 DEF Take, parcels, Table!tableVars
<1>6. ASSUME NEW g \in timers, Fire(g) PROVE UNCHANGED Table!tableVars
  <2>1. \A a \in g : place[a] = "timer"
    BY DEF TypeOK, In
  <2>2. \A a \in Annos : place'[a] = IF a \in g THEN "queue" ELSE place[a]
    BY <1>6 DEF Fire
  <2>3. Outcome' = Outcome
    BY <1>0, <2>1, <2>2 DEF Outcome
  <2> QED
    BY <1>6, <2>3 DEF Fire, parcels, Table!tableVars
<1>7. CASE TransactionFails
  <2>1. \A a \in Annos : place'[a] = IF place[a] = "hand" THEN "lost" ELSE place[a]
    BY <1>7 DEF TransactionFails
  <2>2. Outcome' = [a \in Annos |-> Outcome'[a]]
    BY <1>0
  <2>3. ASSUME NEW a \in Annos, Outcome[a] # Outcome'[a]
        PROVE  Outcome[a] = "pending" /\ Outcome'[a] = "lost"
    BY <1>0, <2>1, <2>3 DEF Outcome
  <2> QED
    BY <1>7, <2>2, <2>3 DEF TransactionFails, parcels, Table!Lose, Table!Next
<1>8. CASE Settle
  BY <1>8, SettleDecides DEF Table!Next
<1>9. CASE Rest \/ UNCHANGED vars
  BY <1>9 DEF Rest, vars, parcels, Table!tableVars, Outcome
<1> QED
  BY <1>1, <1>2, <1>2a, <1>3, <1>4, <1>5, <1>6, <1>7, <1>8, <1>9
  DEF Next, World, Table!Next, Table!tableVars

\* The queue, with its retries, timers, failing inserts and failing transactions,
\* implements the abstract table, whatever stamps the rows have that are written past
\* it: what it stores replaces only a row with an older stamp, what is superseded gave
\* way to one at least as new by its stamp, what is given up has no span, what is
\* rejected no document.
THEOREM AnnotationsImplementTable == Spec => TableSpec
<1>1. Init => Table!Init
  BY DEF Init, Table!Init, Outcome
<1>2. QueueInv /\ [Next]_vars => [Table!Next]_(Table!tableVars)
  BY StepImplements
<1> QED
  BY <1>1, <1>2, InitQueue, NextQueue, PTL DEF Spec, TableSpec, Table!Spec
=============================================================================
