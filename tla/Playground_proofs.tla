-------------------------- MODULE Playground_proofs ---------------------------
(***************************************************************************)
(* The four properties of Experiments, for any examples, keys, clients and *)
(* page sizes, with and without sessions that take turns.  Then what the   *)
(* playground's subscription tells and what it stores, for any examples,   *)
(* repetitions, clients and numbers of streams at a time.                  *)
(***************************************************************************)
EXTENDS Playground, FiniteSetTheorems, WellFoundedInduction, TLAPS

-----------------------------------------------------------------------------
(* The least of some numbers *)

LEMMA MinIsLeast ==
  ASSUME NEW S \in SUBSET Nat, S # {}
  PROVE  Min(S) \in S /\ \A y \in S : Min(S) <= y
<1> DEFINE Less == {p \in Nat \X Nat : p[1] < p[2]}
<1>1. IsWellFoundedOn(Less, Nat)
  BY NatLessThanWellFounded DEF OpToRel
<1>2. \E x \in S : \A y \in S : <<y, x>> \notin Less
  <2> HIDE DEF Less
  <2> QED
    BY <1>1, WFMin
<1>3. ASSUME NEW x \in S, NEW y \in S, <<y, x>> \notin Less PROVE x <= y
  <2>1. x \in Nat /\ y \in Nat
    OBVIOUS
  <2>2. ~(y < x)
    BY <1>3, <2>1
  <2> QED
    BY <2>1, <2>2
<1>4. \E x \in S : \A y \in S : x <= y
  <2> HIDE DEF Less
  <2> QED
    BY <1>2, <1>3
<1> QED
  BY <1>4 DEF Min

-----------------------------------------------------------------------------
(* Lists and counts *)

Row(e) == {e} \X (1..Repetitions)
SuccessesOf(e) == {k \in Successes : k[1] = e}
Listed(e) == {s \in IncompleteRuns : s[1] = e}

LEMMA SuccessesFinite ==
  ASSUME NEW e
  PROVE  /\ IsFiniteSet(SuccessesOf(e))
         /\ SuccessCount(e) = Cardinality(SuccessesOf(e)) /\ SuccessCount(e) \in Nat
<1>1. SuccessesOf(e) \subseteq Keys
  BY DEF SuccessesOf, Successes, StoredRuns
<1>2. IsFiniteSet(SuccessesOf(e))
  BY <1>1, KeysAssumption, FS_Subset
<1> QED
  BY <1>2, FS_CardinalityType DEF SuccessCount, SuccessesOf

\* What is missing of a row, and what has succeeded of it and beyond it.
LEMMA RowParts ==
  ASSUME NEW e \in Examples
  PROVE  /\ Missing(e) = Row(e) \ SuccessesOf(e)
         /\ Beyond(e) = SuccessesOf(e) \ Row(e)
<1>1. \A s : s \in Slots /\ s[1] = e <=> s \in Row(e)
  BY DEF Slots, Row
<1>2. \A k \in SuccessesOf(e) : k \in Row(e) <=> ~(k[2] > Repetitions)
  <2> SUFFICES ASSUME NEW k \in SuccessesOf(e)
               PROVE  k \in Row(e) <=> ~(k[2] > Repetitions)
    OBVIOUS
  <2>1. k \in Nat \X (Nat \ {0}) /\ k[1] = e
    BY KeysAssumption DEF SuccessesOf, Successes, StoredRuns
  <2>2. k = <<e, k[2]>> /\ k[2] \in Nat \ {0}
    BY <2>1
  <2>3. k[2] \in 1..Repetitions <=> ~(k[2] > Repetitions)
    BY <2>2, ExperimentAssumption
  <2> QED
    BY <2>2, <2>3 DEF Row
<1> QED
  BY <1>1, <1>2 DEF Missing, Beyond, SuccessesOf, Row

\* An example has fewer successes than repetitions exactly if it misses more than has
\* succeeded beyond its row.
LEMMA CountOfRow ==
  ASSUME NEW e \in Examples
  PROVE  /\ IsFiniteSet(Missing(e)) /\ Cardinality(Missing(e)) \in Nat
         /\ Cardinality(Beyond(e)) \in Nat
         /\ SuccessCount(e) < Repetitions <=> Cardinality(Beyond(e)) < Cardinality(Missing(e))
         /\ SuccessCount(e) = 0 => Row(e) \cap Successes = {}
<1> DEFINE S == SuccessesOf(e)
<1>1. IsFiniteSet(Row(e)) /\ Cardinality(Row(e)) = Repetitions
  <2>1. IsFiniteSet(1..Repetitions) /\ Cardinality(1..Repetitions) = Repetitions
    BY FS_Interval, ExperimentAssumption
  <2>2. IsFiniteSet({e}) /\ Cardinality({e}) = 1
    BY FS_Singleton
  <2>3. /\ IsFiniteSet({e} \X (1..Repetitions))
        /\ Cardinality({e} \X (1..Repetitions)) = Cardinality({e}) * Cardinality(1..Repetitions)
    <3> HIDE DEF S
    <3> DEFINE A == {e}
               B == 1..Repetitions
    <3>1. IsFiniteSet(A) /\ IsFiniteSet(B)
      BY <2>1, <2>2
    <3> HIDE DEF A, B
    <3>2. IsFiniteSet(A \X B) /\ Cardinality(A \X B) = Cardinality(A) * Cardinality(B)
      BY <3>1, FS_Product
    <3> QED
      BY <3>2 DEF A, B
  <2>4. 1 * Repetitions = Repetitions
    BY ExperimentAssumption
  <2> QED
    BY <2>1, <2>2, <2>3, <2>4 DEF Row
<1>2. IsFiniteSet(S) /\ SuccessCount(e) = Cardinality(S)
  BY SuccessesFinite
<1>3. Row(e) \cap Successes \subseteq S
  BY DEF SuccessesOf, Row
<1>4. Cardinality(S) = 0 => S = {}
  BY <1>2, FS_EmptySet
<1> HIDE DEF S
<1>5. /\ IsFiniteSet(Row(e) \ S) /\ IsFiniteSet(S \ Row(e))
      /\ Cardinality(Row(e) \ S) = Repetitions - Cardinality(Row(e) \cap S)
      /\ Cardinality(S \ Row(e)) = Cardinality(S) - Cardinality(S \cap Row(e))
  BY <1>1, <1>2, FS_Difference
<1>6. IsFiniteSet(Row(e) \cap S)
  BY <1>1, FS_Intersection
<1>7. S \cap Row(e) = Row(e) \cap S
  OBVIOUS
<1>8. /\ Cardinality(S) \in Nat /\ Cardinality(Row(e) \ S) \in Nat
      /\ Cardinality(S \ Row(e)) \in Nat /\ Cardinality(Row(e) \cap S) \in Nat
  BY <1>2, <1>5, <1>6, FS_CardinalityType
<1>9. Cardinality(S) < Repetitions <=> Cardinality(S \ Row(e)) < Cardinality(Row(e) \ S)
  BY <1>5, <1>7, <1>8, ExperimentAssumption
<1>10. Missing(e) = Row(e) \ S /\ Beyond(e) = S \ Row(e)
  BY RowParts DEF S
<1> QED
  BY <1>2, <1>3, <1>4, <1>5, <1>8, <1>9, <1>10

\* What is in the list is a run of an incomplete example, at an incomplete repetition.
LEMMA InList ==
  ASSUME NEW s
  PROVE  s \in IncompleteRuns <=>
           s \in Slots /\ s[1] \in IncompleteExamples /\ s[2] \in IncompleteRepetitions(s[1])
<1>1. ASSUME s \in IncompleteRuns
      PROVE  s \in Slots /\ s[1] \in IncompleteExamples /\ s[2] \in IncompleteRepetitions(s[1])
  <2>1. PICK e \in IncompleteExamples : s \in {e} \X IncompleteRepetitions(e)
    BY <1>1 DEF IncompleteRuns
  <2>2. s = <<e, s[2]>> /\ s[1] = e /\ s[2] \in IncompleteRepetitions(e)
    BY <2>1
  <2>3. e \in Examples /\ IncompleteRepetitions(e) \subseteq 1..Repetitions
    BY DEF IncompleteExamples, IncompleteRepetitions
  <2> QED
    BY <2>2, <2>3 DEF Slots
<1>2. ASSUME s \in Slots, s[1] \in IncompleteExamples, s[2] \in IncompleteRepetitions(s[1])
      PROVE  s \in IncompleteRuns
  <2>1. s = <<s[1], s[2]>>
    BY <1>2 DEF Slots
  <2>2. s \in {s[1]} \X IncompleteRepetitions(s[1])
    BY <1>2, <2>1
  <2> QED
    BY <1>2, <2>2 DEF IncompleteRuns
<1> QED
  BY <1>1, <1>2

\* The list has all that an example misses, or nothing of it.
LEMMA ListedIsMissing ==
  ASSUME NEW e \in Examples
  PROVE  Listed(e) = IF Hidden(e) THEN {} ELSE Missing(e)
<1>1. ASSUME NEW s \in Listed(e)
      PROVE  SuccessCount(e) < Repetitions /\ s \in Missing(e)
  <2>1. s \in Slots /\ s[1] = e /\ e \in IncompleteExamples /\ s[2] \in IncompleteRepetitions(e)
    BY InList DEF Listed
  <2>2. s = <<e, s[2]>> /\ s[2] \in 1..Repetitions /\ s \in Row(e)
    BY <2>1 DEF Slots, Row
  <2>3. s \notin Successes
    <3>1. CASE SuccessCount(e) = 0
      BY <2>2, <3>1, CountOfRow
    <3>2. CASE SuccessCount(e) # 0
      BY <2>1, <2>2, <3>2 DEF IncompleteRepetitions
    <3> QED
      BY <3>1, <3>2
  <2> QED
    BY <2>1, <2>3 DEF IncompleteExamples, Missing
<1>2. ASSUME SuccessCount(e) < Repetitions, NEW s \in Missing(e)
      PROVE  s \in Listed(e)
  <2>1. s \in Slots /\ s[1] = e /\ s \notin Successes
    BY DEF Missing
  <2>2. s = <<e, s[2]>> /\ s[2] \in 1..Repetitions
    BY <2>1 DEF Slots
  <2>3. s[2] \in IncompleteRepetitions(e)
    BY <2>1, <2>2 DEF IncompleteRepetitions
  <2> QED
    <3>1. e \in IncompleteExamples
      BY <1>2 DEF IncompleteExamples
    <3> QED
      BY <2>1, <2>3, <3>1, InList DEF Listed
<1>3. CASE SuccessCount(e) < Repetitions
  <2>1. ~Hidden(e)
    BY <1>3, CountOfRow DEF Hidden
  <2>2. Missing(e) \subseteq Listed(e)
    BY <1>2, <1>3
  <2>3. Listed(e) \subseteq Missing(e)
    BY <1>1
  <2> QED
    BY <2>1, <2>2, <2>3
<1>4. CASE ~(SuccessCount(e) < Repetitions)
  <2>1. Hidden(e)
    BY <1>4, CountOfRow DEF Hidden
  <2>2. Listed(e) = {}
    BY <1>1, <1>4
  <2> QED
    BY <2>1, <2>2
<1> QED
  BY <1>3, <1>4

\* The list has all that is missing of the examples that are not hidden.
LEMMA ListIsUnhidden ==
  IncompleteRuns = UNION {Missing(e) : e \in {f \in Examples : ~Hidden(f)}}
<1>1. ASSUME NEW s \in IncompleteRuns
      PROVE  s[1] \in Examples /\ ~Hidden(s[1]) /\ s \in Missing(s[1])
  <2>1. s[1] \in Examples /\ s \in Listed(s[1])
    BY InList DEF Slots, Listed
  <2> QED
    BY <2>1, ListedIsMissing
<1>2. ASSUME NEW e \in Examples, ~Hidden(e), NEW s \in Missing(e)
      PROVE  s \in IncompleteRuns
  BY <1>2, ListedIsMissing DEF Listed
<1> QED
  BY <1>1, <1>2

\* While what is stored belongs to the experiment, the list is what has not succeeded.
LEMMA ListIsComplement ==
  ASSUME StoredRuns \subseteq Proper
  PROVE  IncompleteRuns = Slots \ Successes
<1>1. ASSUME NEW e \in Examples PROVE Listed(e) = Missing(e)
  <2>1. Beyond(e) = {}
    <3> SUFFICES ASSUME NEW k \in Beyond(e) PROVE FALSE
      OBVIOUS
    <3>1. k \in Keys /\ k[2] <= Repetitions /\ k[2] > Repetitions
      BY DEF Beyond, Successes, Proper
    <3>2. k[2] \in Nat
      BY <3>1, KeysAssumption
    <3> QED
      BY <3>1, <3>2, ExperimentAssumption
  <2>2. Cardinality(Beyond(e)) = 0
    BY <2>1, FS_EmptySet
  <2>3. Cardinality(Missing(e)) = 0 => Missing(e) = {}
    BY CountOfRow, FS_EmptySet
  <2>4. Cardinality(Missing(e)) \in Nat
    BY CountOfRow
  <2> QED
    BY <2>2, <2>3, <2>4, ListedIsMissing DEF Hidden
<1>2. \A s \in Slots : s[1] \in Examples
  BY DEF Slots
<1>3. IncompleteRuns \subseteq Slots
  BY InList
<1> QED
  BY <1>1, <1>2, <1>3 DEF Listed, Missing

\* Then the counts agree with the list.
LEMMA CountsAgree ==
  ASSUME StoredRuns \subseteq Proper
  PROVE  Cardinality(IncompleteRuns) = MissingRunCount + Cardinality(Failures)
<1>1. IsFiniteSet(1..Repetitions) /\ Cardinality(1..Repetitions) = Repetitions
  BY FS_Interval, ExperimentAssumption
<1>2. IsFiniteSet(Slots) /\ Cardinality(Slots) = Cardinality(Examples) * Repetitions
  BY <1>1, FS_Product, ExperimentAssumption DEF Slots
<1>3. StoredRuns \subseteq Slots
  <2> SUFFICES ASSUME NEW k \in StoredRuns PROVE k \in Slots
    OBVIOUS
  <2>1. k \in Keys /\ k[1] \in Examples /\ k[2] <= Repetitions
    BY DEF Proper
  <2>2. k \in Nat \X (Nat \ {0})
    BY <2>1, KeysAssumption
  <2> QED
    BY <2>1, <2>2, ExperimentAssumption DEF Slots
<1>4. Successes \subseteq Slots /\ Failures \subseteq Slots
  BY <1>3 DEF Successes, Failures
<1>5. /\ Cardinality(Slots \ Successes) = Cardinality(Slots) - Cardinality(Successes)
      /\ Cardinality(Successes) \in Nat /\ Cardinality(Failures) \in Nat
      /\ Cardinality(Slots) \in Nat
  <2>1. Cardinality(Slots \ Successes) = Cardinality(Slots) - Cardinality(Slots \cap Successes)
    BY <1>2, FS_Difference
  <2>2. Slots \cap Successes = Successes
    BY <1>4
  <2>3. IsFiniteSet(Successes) /\ IsFiniteSet(Failures)
    BY <1>2, <1>4, FS_Subset
  <2> QED
    BY <2>1, <2>2, <2>3, <1>2, FS_CardinalityType
<1>6. Cardinality(IncompleteRuns) = Cardinality(Slots) - Cardinality(Successes)
  BY <1>5, ListIsComplement
<1>7. MissingRunCount = Cardinality(Slots) - Cardinality(Successes) - Cardinality(Failures)
  BY <1>2 DEF MissingRunCount
<1> QED
  BY <1>5, <1>6, <1>7

-----------------------------------------------------------------------------
(* Types *)

LEMMA InitType == ExpInit => ExpTypeOK
BY ExperimentLocksAssumption, OutputsAssumption DEF ExpInit, ExpTypeOK, Walks

LEMMA WriteType ==
  ASSUME ExpTypeOK, NEW k \in Keys, NEW ok \in BOOLEAN, WriteRun(k, ok)
  PROVE  /\ outputs' \in 0..MaxOutputs
         /\ runs' \in [Keys -> [ok: BOOLEAN, output: 1..MaxOutputs] \cup {None}]
BY OutputsAssumption DEF ExpTypeOK, WriteRun

\* The page and what follows it.
LEMMA WalkType ==
  ASSUME ExpTypeOK, NextPage
  PROVE  /\ walk' \in Walks
         /\ \A e \in IncompleteExamples : ~walk'.ended /\ e < walk'.from =>
              e < walk.from \/ e \in PageOf(walk.from)
         /\ \A e \in IncompleteExamples : walk'.ended =>
              e < walk.from \/ e \in PageOf(walk.from)
         /\ walk.seen \subseteq walk'.seen
         /\ \A e \in PageOf(walk.from) : {e} \X IncompleteRepetitions(e) \subseteq walk'.seen
<1> DEFINE R == Rest(walk.from)
           more == UNION {{e} \X IncompleteRepetitions(e) : e \in PageOf(walk.from)}
<1>1. walk.from \in Nat /\ walk.seen \subseteq Slots
  BY DEF ExpTypeOK, Walks
<1>2. IncompleteExamples \subseteq Examples /\ Examples \subseteq Nat
  BY ExperimentAssumption DEF IncompleteExamples
<1>3. R \subseteq IncompleteExamples /\ PageOf(walk.from) \subseteq IncompleteExamples
  BY DEF Rest, PageOf
<1>4. R # {} => Min(R) \in Nat /\ \A e \in R : Min(R) <= e
  BY <1>2, <1>3, MinIsLeast
<1>5. more \subseteq Slots
  <2>1. \A e \in PageOf(walk.from) : IncompleteRepetitions(e) \subseteq 1..Repetitions
    BY DEF IncompleteRepetitions
  <2> SUFFICES ASSUME NEW e \in PageOf(walk.from)
               PROVE  {e} \X IncompleteRepetitions(e) \subseteq Slots
    OBVIOUS
  <2>2. e \in Examples
    BY <1>2, <1>3
  <2> QED
    BY <2>1, <2>2 DEF Slots
<1>6. /\ walk'.from = IF R = {} THEN 0 ELSE Min(R)
      /\ walk'.seen = walk.seen \cup more
      /\ walk'.ended = (R = {})
      /\ walk' = [from |-> walk'.from, seen |-> walk'.seen, ended |-> walk'.ended]
  BY DEF NextPage, NextCursor
<1>7. \A e \in IncompleteExamples : e < walk.from \/ e \in PageOf(walk.from) \/ e \in R
  <2> SUFFICES ASSUME NEW e \in IncompleteExamples, ~(e < walk.from)
               PROVE  e \in PageOf(walk.from) \/ e \in R
    OBVIOUS
  <2>1. e \in Nat
    BY <1>2
  <2>2. e >= walk.from
    BY <1>1, <2>1
  <2> QED
    BY <2>2 DEF Rest
<1>8. walk' \in Walks
  <2>1. walk'.from \in Nat /\ walk'.seen \in SUBSET Slots /\ walk'.ended \in BOOLEAN
    <3>1. walk'.from \in Nat
      BY <1>4, <1>6
    <3>2. walk'.seen \in SUBSET Slots
      BY <1>1, <1>5, <1>6
    <3> QED
      BY <3>1, <3>2, <1>6
  <2> QED
    BY <2>1, <1>6 DEF Walks
<1>9. \A e \in IncompleteExamples : ~walk'.ended /\ e < walk'.from => e \notin R
  BY <1>2, <1>4, <1>6
<1>10. \A e \in PageOf(walk.from) : {e} \X IncompleteRepetitions(e) \subseteq more
  OBVIOUS
<1> QED
  BY <1>6, <1>7, <1>8, <1>9, <1>10

LEMMA NextType == ExpTypeOK /\ [ExpNext]_expVars => ExpTypeOK'
<1> SUFFICES ASSUME ExpTypeOK, [ExpNext]_expVars PROVE ExpTypeOK'
  OBVIOUS
<1>1. ASSUME NEW c \in Clients, NEW k \in Keys, NEW ok \in BOOLEAN, BeginPost(c, k, ok)
      PROVE ExpTypeOK'
  BY <1>1 DEF ExpTypeOK, BeginPost, Posts
<1>2. ASSUME NEW c \in Clients, CommitPost(c) PROVE ExpTypeOK'
  <2>1. posting[c] \in Posts
    BY <1>2 DEF CommitPost, ExpTypeOK
  <2>2. posting[c].key \in Keys /\ posting[c].ok \in BOOLEAN
    BY <2>1 DEF Posts
  <2> QED
    BY <1>2, <2>2, WriteType DEF ExpTypeOK, CommitPost
<1>3. ASSUME NEW c \in Clients, FailPost(c) PROVE ExpTypeOK'
  BY <1>3 DEF ExpTypeOK, FailPost
<1>4. ASSUME NEW c \in Clients, NEW j \in Jobs, Judge(c, j) PROVE ExpTypeOK'
  <2>1. j[1] \in Keys /\ runs[j[1]] # None
    BY <1>4 DEF Judge, IncompleteEvals, Successes, StoredRuns
  <2>2. runs[j[1]].output \in 1..MaxOutputs
    BY <2>1 DEF ExpTypeOK
  <2> QED
    BY <1>4, <2>2 DEF ExpTypeOK, Judge
<1>5. ASSUME NEW c \in Clients, NEW ok \in BOOLEAN, PostEval(c, ok) PROVE ExpTypeOK'
  BY <1>5 DEF ExpTypeOK, PostEval
<1>6. ASSUME NEW c \in Clients, GiveUp(c) PROVE ExpTypeOK'
  BY <1>6 DEF ExpTypeOK, GiveUp
<1>7. CASE NextPage
  BY <1>7, WalkType DEF ExpTypeOK, NextPage
<1>8. CASE WalkAgain
  BY <1>8 DEF ExpTypeOK, WalkAgain, Walks
<1>9. CASE DeleteExperiment
  BY <1>9 DEF ExpTypeOK, DeleteExperiment
<1>10. CASE UNCHANGED expVars
  BY <1>10 DEF ExpTypeOK, expVars
<1> QED
  BY <1>1, <1>2, <1>3, <1>4, <1>5, <1>6, <1>7, <1>8, <1>9, <1>10 DEF ExpNext

\* The list has all that an example misses, or nothing of it if it has as many
\* successes with repetition numbers beyond the experiment's (get_incomplete_runs); without
\* such numbers its length is the count that get_experiment shows.
THEOREM ExperimentListIsExact == ExpSpec => []ListIsExact
<1>1. ExpTypeOK => ListIsExact
  BY ListIsUnhidden, CountsAgree DEF ListIsExact
<1> QED
  BY <1>1, InitType, NextType, PTL DEF ExpSpec

-----------------------------------------------------------------------------
(* Sessions that take turns *)

\* One request posts a run at a time, of a key that has not succeeded.
TurnsHold ==
  lock => \A c \in Clients : posting[c] # None =>
    /\ posting[c].key \notin Successes
    /\ \A d \in Clients : posting[d] # None => d = c

\* An evaluation in the making is one of the output that is stored.
JudgesFit ==
  lock /\ live => \A c \in Clients : judging[c] # None =>
    judging[c].job[1] \in Successes /\ runs[judging[c].job[1]].output = judging[c].output

\* What the walk has passed by and has not shown is not in the list.
WalkFits ==
  lock /\ live =>
    \A s \in IncompleteRuns : walk.ended \/ s[1] < walk.from => s \in walk.seen

ExpInv == ExpTypeOK /\ TurnsHold /\ JudgesFit /\ EvaluatesWhatIsStored /\ WalkFits

\* Steps that leave the runs alone leave what is said of them alone.
LEMMA SameRuns ==
  ASSUME UNCHANGED runs
  PROVE  StoredRuns' = StoredRuns /\ Successes' = Successes /\ IncompleteRuns' = IncompleteRuns
BY DEF StoredRuns, Successes, IncompleteRuns, IncompleteExamples, IncompleteRepetitions,
       SuccessCount, Slots

\* A run that is written is no success before, and all others stay as they are.
LEMMA WriteSpares ==
  ASSUME ExpInv, lock, NEW k \in Keys, k \notin Successes, NEW ok \in BOOLEAN, WriteRun(k, ok)
  PROVE  /\ \A q \in Successes : runs'[q] = runs[q] /\ q \in Successes'
         /\ \A q \in Keys \ {k} : q \in Successes' => q \in Successes
<1>1. runs \in [Keys -> [ok: BOOLEAN, output: 1..MaxOutputs] \cup {None}]
  BY DEF ExpInv, ExpTypeOK
<1>2. \A q \in Keys \ {k} : runs'[q] = runs[q]
  BY <1>1 DEF WriteRun
<1>3. \A q \in Successes : runs'[q] = runs[q] /\ q \in Successes'
  BY <1>2 DEF Successes, StoredRuns
<1>4. \A q \in Keys \ {k} : q \in Successes' => q \in Successes
  BY <1>2 DEF Successes, StoredRuns
<1> QED
  BY <1>3, <1>4

\* Nothing comes into the list while no success goes.
LEMMA ListShrinks ==
  ASSUME Successes \subseteq Successes', Successes' \subseteq Keys
  PROVE  IncompleteRuns' \subseteq IncompleteRuns
<1> SUFFICES ASSUME NEW s \in IncompleteRuns' PROVE s \in IncompleteRuns
  OBVIOUS
<1> DEFINE e == s[1]
           S == SuccessesOf(e)
           T == {k \in Successes' : k[1] = e}
<1>1. /\ s \in Slots /\ e \in Examples
      /\ SuccessCount(e)' < Repetitions /\ s[2] \in IncompleteRepetitions(e)'
  <2>1. PICK f \in IncompleteExamples' : s \in {f} \X IncompleteRepetitions(f)'
    BY DEF IncompleteRuns
  <2>2. s = <<f, s[2]>> /\ e = f /\ s[2] \in IncompleteRepetitions(f)'
    BY <2>1
  <2>3. f \in Examples /\ SuccessCount(f)' < Repetitions
    BY DEF IncompleteExamples
  <2>4. IncompleteRepetitions(f)' \subseteq 1..Repetitions
    BY DEF IncompleteRepetitions
  <2> QED
    BY <2>2, <2>3, <2>4 DEF Slots
<1>2. SuccessCount(e)' = Cardinality(T)
  BY DEF SuccessCount
<1>3. IsFiniteSet(T)
  BY KeysAssumption, FS_Subset
<1>4. S \subseteq T
  BY DEF SuccessesOf
<1>5. Cardinality(S) <= Cardinality(T) /\ Cardinality(S) \in Nat /\ Cardinality(T) \in Nat
  BY <1>3, <1>4, FS_Subset, FS_CardinalityType
<1>6. SuccessCount(e) = Cardinality(S)
  BY SuccessesFinite
<1>7. Cardinality(T) = 0 => T = {}
  BY <1>3, FS_EmptySet
<1>8. s = <<e, s[2]>> /\ s[2] \in 1..Repetitions
  BY <1>1 DEF Slots
<1>9. s \notin Successes'
  <2>1. CASE SuccessCount(e)' = 0
    BY <1>2, <1>7, <2>1
  <2>2. CASE SuccessCount(e)' # 0
    BY <1>1, <1>8, <2>2 DEF IncompleteRepetitions
  <2> QED
    BY <2>1, <2>2
<1>10. SuccessCount(e) < Repetitions
  BY <1>1, <1>2, <1>5, <1>6, ExperimentAssumption
<1>11. s[2] \in IncompleteRepetitions(e)
  BY <1>8, <1>9 DEF IncompleteRepetitions
<1> QED
  BY <1>1, <1>10, <1>11, InList DEF IncompleteExamples

LEMMA CommitPostKeeps ==
  ASSUME ExpInv, ExpTypeOK', NEW c \in Clients, CommitPost(c)
  PROVE  ExpInv' /\ (lock => \A q \in Successes : runs'[q] = runs[q])
<1>1. CASE ~lock
  BY <1>1 DEF ExpInv, CommitPost, TurnsHold, JudgesFit, EvaluatesWhatIsStored, WalkFits
<1>2. CASE lock
  <2> DEFINE k == posting[c].key
  <2>1. k \in Keys /\ posting[c].ok \in BOOLEAN
    BY DEF ExpInv, ExpTypeOK, CommitPost, Posts
  <2>2. k \notin Successes /\ \A d \in Clients : posting[d] # None => d = c
    BY <1>2 DEF ExpInv, TurnsHold, CommitPost
  <2>3. WriteRun(k, posting[c].ok) /\ UNCHANGED <<lock, live, evals, judging, walk>>
    BY DEF CommitPost
  <2>4. /\ \A q \in Successes : runs'[q] = runs[q] /\ q \in Successes'
        /\ \A q \in Keys \ {k} : q \in Successes' => q \in Successes
    BY <1>2, <2>1, <2>2, <2>3, WriteSpares
  <2>5. TurnsHold'
    <3>1. \A d \in Clients : posting'[d] = None
      BY <2>2 DEF CommitPost, ExpInv, ExpTypeOK
    <3> QED
      BY <3>1 DEF TurnsHold
  <2>6. JudgesFit'
    BY <2>3, <2>4, <1>2 DEF ExpInv, JudgesFit
  <2>7. EvaluatesWhatIsStored'
    <3> SUFFICES ASSUME NEW j \in Jobs, evals[j] # None
                 PROVE  runs'[j[1]] # None /\ runs'[j[1]].ok /\ runs'[j[1]].output = evals[j].output
      BY <2>3 DEF EvaluatesWhatIsStored
    <3>1. runs[j[1]] # None /\ runs[j[1]].ok /\ runs[j[1]].output = evals[j].output
      BY <1>2 DEF ExpInv, EvaluatesWhatIsStored
    <3>2. j[1] \in Successes
      BY <3>1 DEF Jobs, Successes, StoredRuns
    <3> QED
      BY <2>4, <3>1, <3>2
  <2>8. WalkFits'
    <3>1. Successes' \subseteq Keys
      <4>1. Successes' \subseteq Keys'
        BY DEF Successes, StoredRuns
      <4> QED
        BY <4>1
    <3>2. IncompleteRuns' \subseteq IncompleteRuns
      BY <2>4, <3>1, ListShrinks
    <3> QED
      BY <1>2, <2>3, <3>2 DEF ExpInv, WalkFits
  <2> QED
    BY <2>4, <2>5, <2>6, <2>7, <2>8 DEF ExpInv
<1> QED
  BY <1>1, <1>2

LEMMA BeginPostKeeps ==
  ASSUME ExpInv, ExpTypeOK', NEW c \in Clients, NEW k \in Keys, NEW ok \in BOOLEAN,
         BeginPost(c, k, ok)
  PROVE  ExpInv'
<1>1. UNCHANGED <<lock, live, runs, evals, judging, walk>>
  BY DEF BeginPost
<1>2. Successes' = Successes /\ IncompleteRuns' = IncompleteRuns
  BY <1>1, SameRuns
<1>3. TurnsHold'
  <2> SUFFICES ASSUME lock, NEW d \in Clients, posting'[d] # None
               PROVE  /\ posting'[d].key \notin Successes
                      /\ \A e \in Clients : posting'[e] # None => e = d
    BY <1>1, <1>2 DEF TurnsHold
  <2>1. \A e \in Clients : posting[e] = None
    BY DEF BeginPost, Alone
  <2>2. /\ posting'[c] = [key |-> k, ok |-> ok]
        /\ \A e \in Clients \ {c} : posting'[e] = posting[e]
    BY DEF BeginPost, ExpInv, ExpTypeOK
  <2>3. d = c
    BY <2>1, <2>2
  <2>4. k \notin Successes
    BY DEF BeginPost
  <2> QED
    BY <2>1, <2>2, <2>3, <2>4
<1>4. JudgesFit' /\ EvaluatesWhatIsStored' /\ WalkFits'
  BY <1>1, <1>2 DEF ExpInv, JudgesFit, EvaluatesWhatIsStored, WalkFits, Jobs
<1> QED
  BY <1>3, <1>4 DEF ExpInv

LEMMA EvaluationsKeep ==
  ASSUME ExpInv, ExpTypeOK', NEW c \in Clients,
         \/ \E j \in Jobs : Judge(c, j)
         \/ \E ok \in BOOLEAN : PostEval(c, ok)
         \/ GiveUp(c)
  PROVE  ExpInv'
<1>1. UNCHANGED <<lock, live, runs, posting, walk>>
  BY DEF Judge, PostEval, GiveUp
<1>2. Successes' = Successes /\ IncompleteRuns' = IncompleteRuns
  BY <1>1, SameRuns
<1>3. TurnsHold' /\ WalkFits'
  BY <1>1, <1>2 DEF ExpInv, TurnsHold, WalkFits
<1>4. ASSUME NEW j \in Jobs, Judge(c, j) PROVE JudgesFit' /\ EvaluatesWhatIsStored'
  <2>1. j[1] \in Successes
    BY <1>4 DEF Judge, IncompleteEvals
  <2>2. /\ judging'[c] = [job |-> j, output |-> runs[j[1]].output]
        /\ \A d \in Clients \ {c} : judging'[d] = judging[d]
        /\ UNCHANGED evals
    BY <1>4 DEF Judge, ExpInv, ExpTypeOK
  <2>3. JudgesFit'
    BY <1>1, <1>2, <2>1, <2>2 DEF ExpInv, JudgesFit
  <2> QED
    BY <1>1, <2>2, <2>3 DEF ExpInv, EvaluatesWhatIsStored
<1>5. ASSUME NEW ok \in BOOLEAN, PostEval(c, ok) PROVE JudgesFit' /\ EvaluatesWhatIsStored'
  <2> DEFINE i == judging[c].job
  <2>1. /\ judging[c] # None /\ live /\ i \in Jobs
    BY <1>5 DEF PostEval, ExpInv, ExpTypeOK
  <2>2. /\ evals'[i] = [ok |-> ok, output |-> judging[c].output]
        /\ \A j \in Jobs \ {i} : evals'[j] = evals[j]
        /\ judging'[c] = None
        /\ \A d \in Clients \ {c} : judging'[d] = judging[d]
    BY <1>5, <2>1 DEF PostEval, ExpInv, ExpTypeOK
  <2>3. JudgesFit'
    BY <1>1, <1>2, <2>2 DEF ExpInv, JudgesFit
  <2>4. EvaluatesWhatIsStored'
    <3> SUFFICES ASSUME lock, NEW j \in Jobs, evals'[j] # None
                 PROVE  runs[j[1]] # None /\ runs[j[1]].ok /\ runs[j[1]].output = evals'[j].output
      BY <1>1 DEF EvaluatesWhatIsStored
    <3>1. CASE j = i
      <4>1. i[1] \in Successes /\ runs[i[1]].output = judging[c].output
        BY <2>1 DEF ExpInv, JudgesFit
      <4> QED
        BY <3>1, <4>1, <2>2 DEF Successes, StoredRuns
    <3>2. CASE j # i
      BY <3>2, <2>2 DEF ExpInv, EvaluatesWhatIsStored
    <3> QED
      BY <3>1, <3>2
  <2> QED
    BY <2>3, <2>4
<1>6. ASSUME GiveUp(c) PROVE JudgesFit' /\ EvaluatesWhatIsStored'
  <2>1. /\ judging'[c] = None /\ UNCHANGED evals
        /\ \A d \in Clients \ {c} : judging'[d] = judging[d]
    BY <1>6 DEF GiveUp, ExpInv, ExpTypeOK
  <2> QED
    BY <1>1, <1>2, <2>1 DEF ExpInv, JudgesFit, EvaluatesWhatIsStored
<1> QED
  BY <1>3, <1>4, <1>5, <1>6 DEF ExpInv

LEMMA NextPageKeeps ==
  ASSUME ExpInv, ExpTypeOK', NextPage
  PROVE  ExpInv'
<1>1. UNCHANGED <<lock, live, runs, evals, posting, judging>>
  BY DEF NextPage
<1>2. Successes' = Successes /\ IncompleteRuns' = IncompleteRuns
  BY <1>1, SameRuns
<1>3. TurnsHold' /\ JudgesFit' /\ EvaluatesWhatIsStored'
  BY <1>1, <1>2 DEF ExpInv, TurnsHold, JudgesFit, EvaluatesWhatIsStored, Jobs
<1>4. WalkFits'
  <2> SUFFICES ASSUME lock, live, NEW s \in IncompleteRuns, walk'.ended \/ s[1] < walk'.from
               PROVE  s \in walk'.seen
    BY <1>1, <1>2 DEF WalkFits
  <2>2. s[1] \in IncompleteExamples /\ s[2] \in IncompleteRepetitions(s[1]) /\ s = <<s[1], s[2]>>
    BY InList DEF Slots
  <2>3. s[1] < walk.from \/ s[1] \in PageOf(walk.from)
    BY <2>2, WalkType DEF ExpInv
  <2>4. CASE s[1] < walk.from
    BY <2>4, WalkType DEF ExpInv, WalkFits
  <2>5. CASE s[1] \in PageOf(walk.from)
    BY <2>2, <2>5, WalkType DEF ExpInv
  <2> QED
    BY <2>3, <2>4, <2>5
<1> QED
  BY <1>3, <1>4 DEF ExpInv

\* A walk that has just begun has passed nothing by.
LEMMA NothingPassed == \A s \in Slots : ~(s[1] < 0)
<1> SUFFICES ASSUME NEW s \in Slots PROVE ~(s[1] < 0)
  OBVIOUS
<1>1. s[1] \in Nat
  BY ExperimentAssumption DEF Slots
<1> QED
  BY <1>1

LEMMA InitExpInv == ExpInit => ExpInv
<1> SUFFICES ASSUME ExpInit PROVE ExpInv
  OBVIOUS
<1>1. TurnsHold /\ JudgesFit /\ EvaluatesWhatIsStored
  BY DEF ExpInit, TurnsHold, JudgesFit, EvaluatesWhatIsStored
<1>2. WalkFits
  BY NothingPassed, InList DEF ExpInit, WalkFits
<1> QED
  BY <1>1, <1>2, InitType DEF ExpInv

\* Every step keeps the invariant, and the successes of an experiment that stays.
LEMMA NextExpInv ==
  ASSUME ExpInv, [ExpNext]_expVars
  PROVE  ExpInv' /\ (lock /\ live' => \A k \in Keys : k \in Successes => runs'[k] = runs[k])
<1>0. ExpTypeOK'
  BY NextType DEF ExpInv
<1>1. ASSUME NEW c \in Clients, NEW k \in Keys, NEW ok \in BOOLEAN, BeginPost(c, k, ok)
      PROVE ExpInv' /\ UNCHANGED runs
  BY <1>0, <1>1, BeginPostKeeps DEF BeginPost
<1>2. ASSUME NEW c \in Clients, CommitPost(c)
      PROVE ExpInv' /\ (lock => \A q \in Successes : runs'[q] = runs[q])
  BY <1>0, <1>2, CommitPostKeeps
<1>3. ASSUME NEW c \in Clients, FailPost(c) PROVE ExpInv' /\ UNCHANGED runs
  <2>1. UNCHANGED <<lock, live, runs, evals, judging, walk>>
    BY <1>3 DEF FailPost
  <2>2. Successes' = Successes /\ IncompleteRuns' = IncompleteRuns
    BY <2>1, SameRuns
  <2>3. \A d \in Clients : posting'[d] # None => posting'[d] = posting[d]
    BY <1>3 DEF FailPost, ExpInv, ExpTypeOK
  <2>4. TurnsHold'
    BY <2>1, <2>2, <2>3 DEF ExpInv, TurnsHold
  <2>5. JudgesFit' /\ EvaluatesWhatIsStored' /\ WalkFits'
    BY <2>1, <2>2 DEF ExpInv, JudgesFit, EvaluatesWhatIsStored, WalkFits, Jobs
  <2> QED
    BY <1>0, <2>1, <2>4, <2>5 DEF ExpInv
<1>4. ASSUME NEW c \in Clients,
             \/ \E j \in Jobs : Judge(c, j)
             \/ \E ok \in BOOLEAN : PostEval(c, ok)
             \/ GiveUp(c)
      PROVE ExpInv' /\ UNCHANGED runs
  BY <1>0, <1>4, EvaluationsKeep DEF Judge, PostEval, GiveUp
<1>5. CASE NextPage
  BY <1>0, <1>5, NextPageKeeps DEF NextPage
<1>6. ASSUME WalkAgain PROVE ExpInv' /\ UNCHANGED runs
  <2>1. /\ UNCHANGED <<lock, live, runs, evals, posting, judging>>
        /\ walk' = [from |-> 0, seen |-> {}, ended |-> FALSE]
    BY <1>6 DEF WalkAgain
  <2>2. Successes' = Successes /\ IncompleteRuns' = IncompleteRuns
    BY <2>1, SameRuns
  <2>3. TurnsHold' /\ JudgesFit' /\ EvaluatesWhatIsStored'
    BY <2>1, <2>2 DEF ExpInv, TurnsHold, JudgesFit, EvaluatesWhatIsStored, Jobs
  <2>4. WalkFits'
    <3>1. IncompleteRuns \subseteq Slots
      BY InList
    <3> QED
      BY <2>1, <2>2, <3>1, NothingPassed DEF WalkFits
  <2> QED
    BY <1>0, <2>1, <2>3, <2>4 DEF ExpInv
<1>7. CASE DeleteExperiment
  <2>1. /\ UNCHANGED <<lock, posting, judging, walk>> /\ live' = FALSE
        /\ \A k \in Keys : runs'[k] = None
        /\ \A j \in Jobs : evals'[j] = None
    BY <1>7 DEF DeleteExperiment
  <2>2. Successes' = {}
    BY <2>1 DEF Successes, StoredRuns
  <2>3. TurnsHold'
    BY <2>1, <2>2 DEF ExpInv, TurnsHold
  <2>4. JudgesFit' /\ EvaluatesWhatIsStored' /\ WalkFits'
    BY <2>1 DEF JudgesFit, EvaluatesWhatIsStored, WalkFits
  <2> QED
    BY <1>0, <2>1, <2>3, <2>4 DEF ExpInv
<1>8. CASE UNCHANGED expVars
  <2>1. UNCHANGED <<lock, live, runs, evals, posting, judging, walk>>
    BY <1>8 DEF expVars
  <2>2. Successes' = Successes /\ IncompleteRuns' = IncompleteRuns
    BY <2>1, SameRuns
  <2> QED
    BY <1>0, <2>1, <2>2 DEF ExpInv, TurnsHold, JudgesFit, EvaluatesWhatIsStored, WalkFits,
       Jobs
<1> QED
  BY <1>1, <1>2, <1>3, <1>4, <1>5, <1>6, <1>7, <1>8 DEF ExpNext, NextPage

-----------------------------------------------------------------------------

\* While sessions take turns, an evaluation that is stored is one of the output that
\* is stored with it, and that output has succeeded.
THEOREM ExperimentEvaluations == ExpSpec => []EvaluatesWhatIsStored
<1>1. ExpInv => EvaluatesWhatIsStored
  BY DEF ExpInv
<1> QED
  BY <1>1, InitExpInv, NextExpInv, PTL DEF ExpSpec

\* While sessions take turns, a walk that has ended has shown all that is in the list.
THEOREM ExperimentWalk == ExpSpec => []WalkShowsAll
<1>1. ExpInv => WalkShowsAll
  BY DEF ExpInv, WalkFits, WalkShowsAll
<1> QED
  BY <1>1, InitExpInv, NextExpInv, PTL DEF ExpSpec

\* While sessions take turns, a run that has succeeded keeps its output.
THEOREM ExperimentSuccessStands == ExpSpec => SuccessStands
<1> DEFINE Kept == lock /\ live' => \A k \in Keys : k \in Successes => runs'[k] = runs[k]
<1>1. ExpInv /\ [ExpNext]_expVars => ExpInv'
  BY NextExpInv
<1>2. ExpInv /\ [ExpNext]_expVars => [Kept]_expVars
  BY NextExpInv
<1> QED
  BY <1>1, <1>2, InitExpInv, PTL DEF ExpSpec, SuccessStands

-----------------------------------------------------------------------------
(* The invariant *)

Final == {"result", "failed", "timeout", "error"}
Bad == {"failed", "timeout", "error"}

\* One request posts a run at a time while sessions take turns, of a key that has not
\* succeeded, and all runs belong to the experiment.
RunsFit ==
  /\ TurnsHold
  /\ StoredRuns \subseteq Slots
  /\ \A c \in Clients : posting[c] # None => posting[c].key \in Slots

\* While the subscription is open, a task waits for a stream exactly if it runs, and
\* a stream that waits or is done with is in the state that its messages say.
StreamFits(s) ==
  /\ stream[s].busy <=> outer[s] = Pending
  /\ s \in notStarted => outer[s] = NotAsked
  /\ stream[s].at \in {"fresh", "answering"} => ~stream[s].bad
  /\ stream[s].at = "saving" /\ stream[s].bad => "failed" \in told[s] \/ outer[s] = "failed"
  /\ stream[s].at = "telling" => "result" \in told[s] \/ outer[s] = "result"
  /\ outer[s] = "end" => told[s] \cap Final # {}
  /\ s \notin notStarted /\ outer[s] = NotAsked => told[s] \cap Final # {}

StreamsFit ==
  /\ ended => ~open
  /\ open => \A s \in Slots : StreamFits(s)

\* A result that has been told, or is about to be, is stored, and if it is no success
\* a failure has been told as well.
ResultsFit ==
  \A s \in Slots : "result" \in told[s] \/ (open /\ outer[s] = "result") =>
    /\ live => runs[s] # None
    /\ lock /\ live => s \in Successes \/ told[s] \cap Bad # {}

\* What has come to its end has told something final.
EndFits == ended => \A s \in Slots : told[s] \cap Final # {}

PgInv == PgTypeOK /\ RunsFit /\ StreamsFit /\ ResultsFit /\ EndFits

-----------------------------------------------------------------------------
(* Steps that write a run *)

\* The key is stored with the outcome, the other keys are as before.
LEMMA WriteTells ==
  ASSUME ExpTypeOK, NEW k \in Keys, NEW ok \in BOOLEAN, WriteRun(k, ok)
  PROVE  /\ \A q \in Keys \ {k} : runs'[q] = runs[q]
         /\ runs'[k] # None
         /\ StoredRuns' = StoredRuns \cup {k}
         /\ \A q \in Keys \ {k} : q \in Successes' <=> q \in Successes
         /\ k \in Successes' <=> ok
<1>1. runs \in [Keys -> [ok: BOOLEAN, output: 1..MaxOutputs] \cup {None}]
  BY DEF ExpTypeOK
<1>2. \A q \in Keys \ {k} : runs'[q] = runs[q]
  BY <1>1 DEF WriteRun
<1>3. runs'[k] = [ok |-> ok, output |-> outputs + 1] /\ outputs + 1 \in Nat
  BY <1>1 DEF WriteRun, ExpTypeOK
<1>4. runs'[k] # None
  BY <1>3, NoneAssumption
<1>5. StoredRuns' = StoredRuns \cup {k}
  BY <1>2, <1>4 DEF StoredRuns
<1>6. \A q \in Keys \ {k} : q \in Successes' <=> q \in Successes
  BY <1>2, <1>5 DEF Successes
<1>7. k \in Successes' <=> ok
  BY <1>3, <1>5 DEF Successes
<1> QED
  BY <1>2, <1>4, <1>5, <1>6, <1>7

\* A stream saves while nobody posts, and what it saves was not there.
LEMMA SaveFits ==
  ASSUME PgTypeOK, RunsFit, NEW s \in Slots, Alone, live, runs[s] = None,
         WriteRun(s, ~stream[s].bad),
         UNCHANGED <<lock, live, evals, posting, judging, walk>>
  PROVE  /\ ExpTypeOK' /\ RunsFit'
         /\ \A t \in Slots \ {s} : runs'[t] = runs[t] /\ (t \in Successes' <=> t \in Successes)
         /\ runs'[s] # None
         /\ s \in Successes' <=> ~stream[s].bad
<1>1. ExpTypeOK /\ s \in Keys /\ (~stream[s].bad) \in BOOLEAN
  BY SlotsAreKeys DEF PgTypeOK
<1>2. ExpTypeOK'
  BY <1>1, WriteType DEF ExpTypeOK
<1>3. /\ \A q \in Keys \ {s} : runs'[q] = runs[q]
      /\ runs'[s] # None
      /\ StoredRuns' = StoredRuns \cup {s}
      /\ \A q \in Keys \ {s} : q \in Successes' <=> q \in Successes
      /\ s \in Successes' <=> ~stream[s].bad
  BY <1>1, WriteTells
<1>4. TurnsHold'
  BY DEF TurnsHold, Alone
<1>5. RunsFit'
  BY <1>3, <1>4 DEF RunsFit
<1> QED
  BY <1>2, <1>3, <1>5, SlotsAreKeys

\* Steps of the subscription that write nothing.
LEMMA QuietFits ==
  ASSUME PgTypeOK, RunsFit, UNCHANGED expVars
  PROVE  /\ ExpTypeOK' /\ RunsFit' /\ Successes' = Successes
         /\ runs' = runs /\ live' = live /\ lock' = lock
<1>1. UNCHANGED <<lock, live, runs, evals, posting, judging, walk, outputs>>
  BY DEF expVars
<1>2. StoredRuns' = StoredRuns /\ Successes' = Successes
  BY <1>1, SameRuns
<1> QED
  BY <1>1, <1>2 DEF PgTypeOK, ExpTypeOK, RunsFit, TurnsHold

-----------------------------------------------------------------------------
(* Initially *)

LEMMA InitPg == PgInit => PgInv
<1> SUFFICES ASSUME PgInit PROVE PgInv
  OBVIOUS
<1>1. ExpTypeOK
  BY InitType DEF PgInit
<1>2. StoredRuns = {} /\ \A c \in Clients : posting[c] = None
  BY DEF PgInit, ExpInit, StoredRuns
<1>3. PgTypeOK
  <2>1. posted \in 0..MaxPosted
    BY PlaygroundAssumption DEF PgInit
  <2>2. stream \in [Slots -> [at: {"fresh", "answering", "saving", "telling", "over"},
                              busy: BOOLEAN, bad: BOOLEAN]]
    BY DEF PgInit
  <2>3. outer \in [Slots -> {NotAsked, Pending} \cup Outcomes] /\ told \in [Slots -> SUBSET Outcomes]
    BY DEF PgInit
  <2> QED
    BY <1>1, <2>1, <2>2, <2>3 DEF PgInit, PgTypeOK
<1>4. RunsFit
  BY <1>2 DEF RunsFit, TurnsHold
<1>5. StreamsFit
  BY DEF PgInit, StreamsFit, StreamFits, NotAsked, Pending
<1>6. ResultsFit /\ EndFits
  BY DEF PgInit, ResultsFit, EndFits, NotAsked
<1> QED
  BY <1>3, <1>4, <1>5, <1>6 DEF PgInv

-----------------------------------------------------------------------------
(* The subscription's loop *)

LEMMA StartFits == PgInv /\ Start => PgInv'
<1> SUFFICES ASSUME PgInv, Start PROVE PgInv'
  OBVIOUS
<1> USE DEF PgInv
<1>1. PICK s \in notStarted :
        /\ notStarted' = notStarted \ {s}
        /\ outer' = [outer EXCEPT ![s] = Pending]
        /\ Ask(s)
  BY DEF Start
<1>2. open /\ UNCHANGED <<expVars, told, open, ended, posted>>
  BY DEF Start
<1>3. ExpTypeOK' /\ RunsFit' /\ Successes' = Successes /\ runs' = runs /\ live' = live /\ lock' = lock
  BY <1>2, QuietFits
<1>4. s \in Slots /\ outer[s] = NotAsked
  BY <1>2 DEF PgTypeOK, StreamsFit, StreamFits
<1>5. PgTypeOK'
  BY <1>1, <1>2, <1>3, <1>4 DEF PgTypeOK, Ask
<1>6. StreamsFit'
  <2>1. outer'[s] = Pending /\ (stream'[s].busy <=> TRUE)
        /\ stream'[s].at = stream[s].at /\ (stream'[s].bad <=> stream[s].bad)
    BY <1>1, <1>4 DEF PgTypeOK, Ask
  <2>2. \A t \in Slots \ {s} : stream'[t] = stream[t] /\ outer'[t] = outer[t]
    BY <1>1, <1>4 DEF PgTypeOK, Ask
  <2> QED
    BY <1>1, <1>2, <1>4, <2>1, <2>2, ZenonT(30) DEF StreamsFit, StreamFits, NotAsked, Pending
<1>7. ResultsFit'
  BY <1>1, <1>2, <1>3, <1>4 DEF PgTypeOK, ResultsFit, Pending
<1>8. EndFits'
  BY <1>2 DEF EndFits
<1> QED
  BY <1>3, <1>5, <1>6, <1>7, <1>8

LEMMA HarvestFits ==
  ASSUME PgInv, NEW s \in Slots, Harvest(s)
  PROVE  PgInv'
<1> USE DEF PgInv
<1>1. open /\ outer[s] \in Outcomes /\ UNCHANGED <<expVars, notStarted, open, ended, posted>>
  BY DEF Harvest
<1>2. ExpTypeOK' /\ RunsFit' /\ Successes' = Successes /\ runs' = runs /\ live' = live /\ lock' = lock
  BY <1>1, QuietFits
<1>3. PgTypeOK'
  <2>1. stream' \in [Slots -> [at: {"fresh", "answering", "saving", "telling", "over"},
                               busy: BOOLEAN, bad: BOOLEAN]]
    <3>1. CASE stream' = stream
      BY <3>1 DEF PgTypeOK
    <3>2. CASE Ask(s)
      BY <3>2 DEF PgTypeOK, Ask
    <3> QED
      BY <3>1, <3>2 DEF Harvest
  <2>2. outer' \in [Slots -> {NotAsked, Pending} \cup Outcomes]
    BY <1>1 DEF Harvest, PgTypeOK
  <2>3. told' \in [Slots -> SUBSET Outcomes]
    BY <1>1 DEF Harvest, PgTypeOK
  <2> QED
    BY <1>1, <1>2, <2>1, <2>2, <2>3 DEF PgTypeOK
<1>4. s \notin notStarted
  BY <1>1 DEF StreamsFit, StreamFits, NotAsked, Outcomes
<1>5. StreamsFit'
  <2>1. ASSUME NEW t \in Slots, t # s PROVE StreamFits(t)'
    <3>1. stream'[t] = stream[t] /\ outer'[t] = outer[t] /\ told'[t] = told[t]
      BY <2>1 DEF Harvest, PgTypeOK, Ask
    <3> QED
      BY <1>1, <3>1 DEF StreamsFit, StreamFits
  <2>2. CASE outer[s] \in {"chunk", "failed", "result"}
    <3>1. /\ outer'[s] = Pending /\ (stream'[s].busy <=> TRUE)
          /\ stream'[s].at = stream[s].at /\ (stream'[s].bad <=> stream[s].bad)
      BY <2>2 DEF Harvest, PgTypeOK, Ask
    <3>2. told'[s] = IF outer[s] = "chunk" THEN told[s] ELSE told[s] \cup {outer[s]}
      BY <2>2 DEF Harvest, PgTypeOK
    <3>3. StreamFits(s)
      BY <1>1 DEF StreamsFit
    <3>4. StreamFits(s)'
      BY <1>1, <1>4, <2>2, <3>1, <3>2, <3>3 DEF StreamFits, NotAsked, Pending
    <3> QED
      BY <1>1, <2>1, <3>4 DEF StreamsFit
  <2>3. CASE outer[s] \in {"end", "timeout", "error"}
    <3>1. outer'[s] = NotAsked /\ stream' = stream
      BY <2>3 DEF Harvest, PgTypeOK
    <3>2. told'[s] = IF outer[s] = "end" THEN told[s] ELSE told[s] \cup {outer[s]}
      BY <2>3 DEF Harvest, PgTypeOK
    <3>3. StreamFits(s)
      BY <1>1 DEF StreamsFit
    <3>4. StreamFits(s)'
      BY <1>1, <1>4, <2>3, <3>1, <3>2, <3>3 DEF StreamFits, Final, NotAsked, Pending
    <3> QED
      BY <1>1, <2>1, <3>4 DEF StreamsFit
  <2> QED
    BY <1>1, <2>2, <2>3 DEF Outcomes
<1>6. ResultsFit'
  BY <1>1, <1>2, ZenonT(30) DEF Harvest, PgTypeOK, ResultsFit, NotAsked, Pending, Outcomes, Bad
<1>7. EndFits'
  BY <1>1 DEF Harvest, PgTypeOK, EndFits
<1> QED
  BY <1>2, <1>3, <1>5, <1>6, <1>7

LEMMA CloseFits == PgInv /\ (Finish \/ Close) => PgInv'
<1> SUFFICES ASSUME PgInv, Finish \/ Close PROVE PgInv'
  OBVIOUS
<1> USE DEF PgInv
<1>1. UNCHANGED <<expVars, told, posted>> /\ ~open'
  BY DEF Finish, Close
<1>2. ExpTypeOK' /\ RunsFit' /\ Successes' = Successes /\ runs' = runs /\ live' = live /\ lock' = lock
  BY <1>1, QuietFits
<1>3. PgTypeOK'
  <2>1. stream' \in [Slots -> [at: {"fresh", "answering", "saving", "telling", "over"},
                               busy: BOOLEAN, bad: BOOLEAN]]
    <3>1. CASE Finish
      BY <3>1 DEF Finish, PgTypeOK
    <3>2. CASE Close
      BY <3>2 DEF Close, PgTypeOK
    <3> QED
      BY <3>1, <3>2
  <2>2. outer' \in [Slots -> {NotAsked, Pending} \cup Outcomes] /\ notStarted' \in SUBSET Slots
    BY DEF Finish, Close, PgTypeOK
  <2> QED
    BY <1>1, <1>2, <2>1, <2>2 DEF Finish, Close, PgTypeOK
<1>4. StreamsFit' /\ ResultsFit'
  BY <1>1, <1>2 DEF StreamsFit, ResultsFit
<1>5. EndFits'
  BY <1>1 DEF Finish, Close, InProgress, StreamsFit, StreamFits, EndFits
<1> QED
  BY <1>2, <1>3, <1>4, <1>5

-----------------------------------------------------------------------------
(* One step of a stream *)

\* Where a stream goes that yields, and what its task gives on.
LEMMA YieldType ==
  ASSUME PgTypeOK, ExpTypeOK', NEW s \in Slots,
         NEW at \in {"fresh", "answering", "saving", "telling", "over"},
         NEW bad \in BOOLEAN, NEW outcome \in Outcomes, Yields(s, at, bad, outcome)
  PROVE  /\ PgTypeOK'
         /\ stream'[s] = [at |-> at, busy |-> FALSE, bad |-> bad]
         /\ outer'[s] = IF outer[s] = Pending THEN outcome ELSE outer[s]
         /\ \A t \in Slots \ {s} : stream'[t] = stream[t] /\ outer'[t] = outer[t]
BY DEF Yields, PgTypeOK

\* A yield keeps the streams in order if its outcome says what the new state asks for.
LEMMA YieldFits ==
  ASSUME PgInv, ExpTypeOK', NEW s \in Slots,
         NEW at \in {"fresh", "answering", "saving", "telling", "over"},
         NEW bad \in BOOLEAN, NEW outcome \in Outcomes, Yields(s, at, bad, outcome),
         stream[s].busy,
         at \in {"fresh", "answering"} => ~bad,
         at = "saving" /\ bad => outcome = "failed",
         at = "telling" => outcome = "result" \/ (open => "result" \in told[s]),
         outcome = "end" => (open => told[s] \cap Final # {})
  PROVE  PgTypeOK' /\ StreamsFit' /\ EndFits'
<1> USE DEF PgInv
<1>1. UNCHANGED <<notStarted, told, open, ended, posted>>
  BY DEF Yields
<1>2. /\ PgTypeOK'
      /\ stream'[s] = [at |-> at, busy |-> FALSE, bad |-> bad]
      /\ outer'[s] = IF outer[s] = Pending THEN outcome ELSE outer[s]
      /\ \A t \in Slots \ {s} : stream'[t] = stream[t] /\ outer'[t] = outer[t]
  BY YieldType
<1>3. open => outer[s] = Pending
  BY DEF StreamsFit, StreamFits
<1>4. outcome # Pending /\ outcome # NotAsked
  BY DEF Outcomes, Pending, NotAsked
<1>5. StreamsFit'
  <2>1. ASSUME NEW t \in Slots, t # s
        PROVE  stream'[t] = stream[t] /\ outer'[t] = outer[t]
    BY <1>2, <2>1
  <2>2. ASSUME open
        PROVE  /\ outer'[s] = outcome /\ ~stream'[s].busy
               /\ stream'[s].at = at /\ (stream'[s].bad <=> bad)
               /\ s \notin notStarted
    <3>1. outer[s] = Pending
      BY <1>3, <2>2
    <3>2. s \notin notStarted
      BY <2>2, <3>1 DEF StreamsFit, StreamFits, NotAsked, Pending
    <3> QED
      BY <1>2, <3>1, <3>2
  <2> QED
    BY <1>1, <1>4, <2>1, <2>2 DEF StreamsFit, StreamFits
<1>6. EndFits'
  BY <1>1 DEF EndFits
<1> QED
  BY <1>2, <1>5, <1>6

\* A yield without a write keeps results as they were, unless it yields one.
LEMMA QuietYieldFits ==
  ASSUME PgInv, NEW s \in Slots,
         NEW at \in {"fresh", "answering", "saving", "telling", "over"},
         NEW bad \in BOOLEAN, NEW outcome \in Outcomes \ {"result"}, Yields(s, at, bad, outcome),
         stream[s].busy, at = "telling" => (open => "result" \in told[s]),
         at \in {"fresh", "answering"} => ~bad,
         at = "saving" /\ bad => outcome = "failed",
         outcome = "end" => (open => told[s] \cap Final # {}),
         UNCHANGED expVars
  PROVE  PgInv'
<1> USE DEF PgInv
<1>1. ExpTypeOK' /\ RunsFit' /\ Successes' = Successes /\ runs' = runs /\ live' = live /\ lock' = lock
  BY QuietFits
<1>2. PgTypeOK' /\ StreamsFit' /\ EndFits'
  BY <1>1, YieldFits
<1>3. UNCHANGED <<notStarted, told, open, ended, posted>>
  BY DEF Yields
<1>4. \A t \in Slots : outer'[t] = "result" => outer[t] = "result"
  BY DEF Yields, PgTypeOK
<1>5. ResultsFit'
  BY <1>1, <1>3, <1>4 DEF ResultsFit
<1> QED
  BY <1>1, <1>2, <1>5

\* A step that saves what was not there.
LEMMA SavingYieldFits ==
  ASSUME PgInv, NEW s \in Slots,
         NEW at \in {"telling", "over"}, NEW outcome \in {"result", "timeout"},
         Yields(s, at, FALSE, outcome), stream[s].busy, stream[s].at = "saving",
         at = "telling" => outcome = "result",
         Alone, live, runs[s] = None, WriteRun(s, ~stream[s].bad),
         UNCHANGED <<lock, live, evals, posting, judging, walk>>
  PROVE  PgInv'
<1> USE DEF PgInv
<1>1. /\ ExpTypeOK' /\ RunsFit'
      /\ \A t \in Slots \ {s} : runs'[t] = runs[t] /\ (t \in Successes' <=> t \in Successes)
      /\ runs'[s] # None
      /\ s \in Successes' <=> ~stream[s].bad
  BY SaveFits
<1>2. outcome \in Outcomes /\ at \in {"fresh", "answering", "saving", "telling", "over"}
      /\ FALSE \in BOOLEAN /\ at # "saving" /\ outcome # "end"
  BY DEF Outcomes
<1>3. PgTypeOK' /\ StreamsFit' /\ EndFits'
  BY <1>1, <1>2, YieldFits
<1>4. UNCHANGED <<notStarted, told, open, ended, posted>>
  BY DEF Yields
<1>5. \A t \in Slots \ {s} : outer'[t] = outer[t]
  BY <1>1, <1>2, YieldType, ZenonT(30)
<1>6. "result" \notin told[s]
  BY DEF ResultsFit
<1>7. open /\ stream[s].bad => told[s] \cap Bad # {}
  BY DEF StreamsFit, StreamFits, Bad, Pending
<1>8. ResultsFit'
  BY <1>1, <1>4, <1>5, <1>6, <1>7 DEF ResultsFit
<1> QED
  BY <1>1, <1>3, <1>8

LEMMA StepFits ==
  ASSUME PgInv, NEW s \in Slots, StreamStep(s) \/ TimeOut(s)
  PROVE  PgInv'
<1> USE DEF PgInv
<1>1. CASE Chunk(s)
  BY <1>1, QuietYieldFits DEF Chunk, Outcomes
<1>2. CASE AnswerFails(s)
  BY <1>2, QuietYieldFits DEF AnswerFails, Outcomes
<1>10. CASE EvaluatorTells(s)
  <2>1. stream[s].at \in {"fresh", "answering", "saving", "telling", "over"}
        /\ stream[s].bad \in BOOLEAN
    BY DEF PgTypeOK
  <2>2. stream[s].at = "telling" => (open => "result" \in told[s])
    BY <1>10 DEF EvaluatorTells, StreamsFit, StreamFits, Pending
  <2>3. stream[s].busy /\ Yields(s, stream[s].at, stream[s].bad, "chunk") /\ UNCHANGED expVars
    BY <1>10 DEF EvaluatorTells
  <2>4. stream[s].at \notin {"fresh", "answering"} /\ ~(stream[s].at = "saving" /\ stream[s].bad)
    BY <1>10 DEF EvaluatorTells
  <2>5. "chunk" \in Outcomes \ {"result"} /\ "chunk" # "end"
    BY DEF Outcomes
  <2> QED
    BY <2>1, <2>2, <2>3, <2>4, <2>5, QuietYieldFits
<1>3. CASE AnswerEnds(s)
  <2>1. ExpTypeOK' /\ RunsFit' /\ Successes' = Successes /\ runs' = runs /\ live' = live /\ lock' = lock
    BY <1>3, QuietFits DEF AnswerEnds
  <2>2. PgTypeOK'
    BY <1>3, <2>1 DEF AnswerEnds, PgTypeOK
  <2>3. UNCHANGED <<notStarted, outer, told, open, ended, posted>>
    BY <1>3 DEF AnswerEnds
  <2>4. stream[s].busy /\ (stream'[s].busy <=> TRUE)
        /\ stream[s].at \in {"fresh", "answering"}
        /\ stream'[s].at = "saving" /\ (stream'[s].bad <=> stream[s].bad)
    BY <1>3 DEF AnswerEnds, PgTypeOK
  <2>5. \A t \in Slots \ {s} : stream'[t] = stream[t]
    BY <1>3 DEF AnswerEnds, PgTypeOK
  <2>6. StreamsFit'
    BY <2>3, <2>4, <2>5 DEF StreamsFit, StreamFits
  <2> QED
    BY <2>1, <2>2, <2>3, <2>6 DEF ResultsFit, EndFits
<1>4. CASE Save(s)
  BY <1>4, SavingYieldFits DEF Save
<1>5. CASE SaveFails(s)
  BY <1>5, QuietYieldFits DEF SaveFails, Outcomes
<1>6. CASE NothingToSave(s)
  <2>1. open => told[s] \cap Final # {}
    BY <1>6 DEF NothingToSave, StreamsFit, StreamFits, Final, Pending
  <2> QED
    BY <1>6, <2>1, QuietYieldFits DEF NothingToSave, Outcomes
<1>7. CASE GeneratorEnds(s)
  <2>1. open => told[s] \cap Final # {}
    BY <1>7 DEF GeneratorEnds, StreamsFit, StreamFits, Final, Pending
  <2> QED
    BY <1>7, <2>1, QuietYieldFits DEF GeneratorEnds, Outcomes
<1>8. CASE TimeOut(s) /\ UNCHANGED expVars
  BY <1>8, QuietYieldFits DEF TimeOut, Outcomes
<1>9. CASE TimeOut(s) /\ ~UNCHANGED expVars
  BY <1>9, SavingYieldFits DEF TimeOut
<1> QED
  BY <1>1, <1>2, <1>3, <1>4, <1>5, <1>6, <1>7, <1>8, <1>9, <1>10 DEF StreamStep

-----------------------------------------------------------------------------
(* Other requests *)

LEMMA OthersFit == PgInv /\ Others => PgInv'
<1> SUFFICES ASSUME PgInv, Others PROVE PgInv'
  OBVIOUS
<1> USE DEF PgInv
<1>1. UNCHANGED <<notStarted, stream, outer, told, open, ended>> /\ posted' \in 0..MaxPosted
  BY PlaygroundAssumption DEF Others, PgTypeOK
<1>2. ExpTypeOK => PgTypeOK' \/ ~ExpTypeOK'
  BY <1>1 DEF PgTypeOK
<1>3. StreamsFit' /\ EndFits'
  BY <1>1 DEF StreamsFit, StreamFits, EndFits
<1>4. SUFFICES ExpTypeOK' /\ RunsFit' /\ ResultsFit'
  BY <1>2, <1>3 DEF PgTypeOK
<1>5. ASSUME NEW c \in Clients, NEW k \in Slots, NEW ok \in BOOLEAN, BeginPost(c, k, ok)
      PROVE  ExpTypeOK' /\ RunsFit' /\ ResultsFit'
  <2>1. k \in Keys /\ UNCHANGED <<lock, live, runs, evals, judging, walk, outputs>>
    BY <1>5, SlotsAreKeys DEF BeginPost
  <2>2. StoredRuns' = StoredRuns /\ Successes' = Successes
    BY <2>1, SameRuns
  <2>3. ExpTypeOK'
    BY <1>5, <2>1 DEF BeginPost, PgTypeOK, ExpTypeOK, Posts
  <2>4. /\ posting'[c].key = k
        /\ \A d \in Clients : d # c => posting'[d] = posting[d]
    BY <1>5 DEF BeginPost, PgTypeOK, ExpTypeOK
  <2>5. k \notin Successes /\ (lock => \A d \in Clients : posting[d] = None)
    BY <1>5 DEF BeginPost, Alone
  <2>6. TurnsHold'
    BY <2>1, <2>2, <2>4, <2>5 DEF TurnsHold
  <2>7. RunsFit'
    BY <2>2, <2>4, <2>6 DEF RunsFit
  <2> QED
    BY <1>1, <2>1, <2>2, <2>3, <2>7 DEF ResultsFit
<1>6. ASSUME NEW c \in Clients, CommitPost(c)
      PROVE  ExpTypeOK' /\ RunsFit' /\ ResultsFit'
  <2> DEFINE k == posting[c].key
             ok == posting[c].ok
  <2>1. k \in Slots /\ k \in Keys /\ ok \in BOOLEAN /\ live
    BY <1>6, SlotsAreKeys DEF CommitPost, RunsFit, PgTypeOK, ExpTypeOK, Posts
  <2>2. /\ WriteRun(k, ok) /\ posting' = [posting EXCEPT ![c] = None]
        /\ UNCHANGED <<lock, live, evals, judging, walk>>
    BY <1>6 DEF CommitPost
  <2>3. ExpTypeOK /\ posting[c] # None
    BY <1>6 DEF CommitPost, PgTypeOK
  <2> HIDE DEF k, ok
  <2>4. /\ \A q \in Keys \ {k} : runs'[q] = runs[q]
        /\ runs'[k] # None
        /\ StoredRuns' = StoredRuns \cup {k}
        /\ \A q \in Keys \ {k} : q \in Successes' <=> q \in Successes
    BY <2>1, <2>2, <2>3, WriteTells
  <2>5. ExpTypeOK'
    BY <2>1, <2>2, <2>3, WriteType DEF ExpTypeOK
  <2>6. lock => \A d \in Clients : posting'[d] = None
    BY <2>2, <2>3 DEF RunsFit, TurnsHold, ExpTypeOK
  <2>7. RunsFit'
    BY <2>1, <2>2, <2>3, <2>4, <2>6 DEF RunsFit, TurnsHold, ExpTypeOK
  <2>8. lock => k \notin Successes
    BY <2>3 DEF RunsFit, TurnsHold, k
  <2>9. ResultsFit'
    BY <1>1, <2>1, <2>2, <2>4, <2>8, SlotsAreKeys DEF ResultsFit
  <2> QED
    BY <2>5, <2>7, <2>9
<1>7. ASSUME NEW c \in Clients, FailPost(c)
      PROVE  ExpTypeOK' /\ RunsFit' /\ ResultsFit'
  <2>1. UNCHANGED <<lock, live, runs, evals, judging, walk, outputs>>
    BY <1>7 DEF FailPost
  <2>2. StoredRuns' = StoredRuns /\ Successes' = Successes
    BY <2>1, SameRuns
  <2>3. ExpTypeOK'
    BY <1>7, <2>1 DEF FailPost, PgTypeOK, ExpTypeOK
  <2>4. RunsFit'
    BY <1>7, <2>1, <2>2 DEF FailPost, PgTypeOK, ExpTypeOK, RunsFit, TurnsHold
  <2> QED
    BY <1>1, <2>1, <2>2, <2>3, <2>4 DEF ResultsFit
<1>8. CASE DeleteExperiment
  <2>1. ~live' /\ UNCHANGED <<lock, posting, judging, walk, outputs>>
    BY <1>8 DEF DeleteExperiment
  <2>2. ExpTypeOK'
    BY <1>8 DEF DeleteExperiment, PgTypeOK, ExpTypeOK
  <2>3. StoredRuns' = {} /\ Successes' = {}
    BY <1>8 DEF DeleteExperiment, StoredRuns, Successes
  <2>4. RunsFit'
    BY <2>1, <2>3 DEF RunsFit, TurnsHold
  <2> QED
    BY <2>1, <2>2, <2>4 DEF ResultsFit
<1> QED
  BY <1>5, <1>6, <1>7, <1>8 DEF Others

-----------------------------------------------------------------------------
(* The properties *)

LEMMA NextPg == PgInv /\ [PgNext]_allVars => PgInv'
<1> SUFFICES ASSUME PgInv, [PgNext]_allVars PROVE PgInv'
  OBVIOUS
<1>1. CASE UNCHANGED allVars
  <2>1. UNCHANGED expVars /\ UNCHANGED pgVars
    BY <1>1 DEF allVars
  <2>2. ExpTypeOK' /\ RunsFit' /\ Successes' = Successes /\ runs' = runs /\ live' = live /\ lock' = lock
    BY <2>1, QuietFits DEF PgInv
  <2>3. UNCHANGED <<notStarted, stream, outer, told, open, ended, posted>>
    BY <2>1 DEF pgVars
  <2> QED
    BY <2>2, <2>3 DEF PgInv, PgTypeOK, StreamsFit, StreamFits, ResultsFit, EndFits
<1>2. CASE Start \/ Finish \/ Close \/ Others
  BY <1>2, StartFits, CloseFits, OthersFit
<1>3. ASSUME NEW s \in Slots, Harvest(s) \/ StreamStep(s) \/ TimeOut(s) PROVE PgInv'
  BY <1>3, HarvestFits, StepFits
<1> QED
  BY <1>1, <1>2, <1>3 DEF PgNext

LEMMA PgInvTellsAll == PgInv => EndTellsAll
<1> SUFFICES ASSUME PgInv PROVE EndTellsAll
  OBVIOUS
<1>1. PgTypeOK
  BY DEF PgInv
<1>2. ended => \A s \in Slots : told[s] \cap {"result", "failed", "timeout", "error"} # {}
  BY DEF PgInv, EndFits, Final
<1>3. live => \A s \in Slots : "result" \in told[s] => runs[s] # None
  BY DEF PgInv, ResultsFit
<1>4. lock /\ ended /\ live =>
        \A s \in IncompleteRuns : told[s] \cap {"failed", "timeout", "error"} # {}
  <2>1. StoredRuns \subseteq Proper
    <3>1. StoredRuns \subseteq Slots /\ StoredRuns \subseteq Keys
      BY DEF PgInv, RunsFit, StoredRuns
    <3>2. \A s \in Slots : s[1] \in Examples /\ s[2] <= Repetitions
      BY DEF Slots
    <3> QED
      BY <3>1, <3>2 DEF Proper
  <2>2. IncompleteRuns = Slots \ Successes
    BY <2>1, ListIsComplement
  <2> QED
    BY <1>2, <2>2 DEF PgInv, ResultsFit, Bad
<1> QED
  BY <1>1, <1>2, <1>3, <1>4 DEF EndTellsAll

\* No step changes a run that has succeeded, but the deletion of the experiment.
LEMMA StepSpares ==
  ASSUME PgInv, [PgNext]_allVars, lock, live', NEW k \in Slots, k \in Successes
  PROVE  runs'[k] = runs[k]
<1>1. runs[k] # None /\ k \in Keys
  BY DEF Successes, StoredRuns
<1>2. CASE UNCHANGED expVars
  BY <1>2 DEF expVars
<1>3. ASSUME NEW s \in Keys, NEW ok \in BOOLEAN, WriteRun(s, ok), s \notin Successes
      PROVE  runs'[k] = runs[k]
  BY <1>1, <1>3, WriteTells DEF PgInv, PgTypeOK
<1>4. ASSUME NEW s \in Slots, runs[s] = None, WriteRun(s, ~stream[s].bad)
      PROVE  runs'[k] = runs[k]
  <2>1. s \in Keys /\ s \notin Successes /\ (~stream[s].bad) \in BOOLEAN
    BY <1>4, SlotsAreKeys DEF Successes, StoredRuns
  <2> QED
    BY <1>3, <1>4, <2>1
<1>5. ASSUME NEW s \in Slots, Harvest(s) \/ StreamStep(s) \/ TimeOut(s)
      PROVE  UNCHANGED expVars \/ (runs[s] = None /\ WriteRun(s, ~stream[s].bad))
  BY <1>5 DEF Harvest, StreamStep, TimeOut, Chunk, EvaluatorTells, AnswerFails, AnswerEnds, Save, SaveFails,
              NothingToSave, GeneratorEnds
<1>6. CASE Start \/ Finish \/ Close
  BY <1>2, <1>6 DEF Start, Finish, Close
<1>7. CASE Others
  <2>1. ASSUME NEW c \in Clients, CommitPost(c) PROVE runs'[k] = runs[k]
    <3>1. posting[c] # None /\ WriteRun(posting[c].key, posting[c].ok)
      BY <2>1 DEF CommitPost
    <3>2. posting[c].key \in Keys /\ posting[c].ok \in BOOLEAN
      BY <3>1 DEF PgInv, PgTypeOK, ExpTypeOK, Posts
    <3>3. posting[c].key \notin Successes
      BY <3>1 DEF PgInv, RunsFit, TurnsHold
    <3> QED
      BY <1>3, <3>1, <3>2, <3>3
  <2>2. ~DeleteExperiment
    BY DEF DeleteExperiment
  <2> QED
    BY <1>7, <2>1, <2>2 DEF Others, BeginPost, FailPost
<1> QED
  BY <1>2, <1>4, <1>5, <1>6, <1>7 DEF PgNext, allVars

\* A subscription that ends has told something final of every stream, and what it told
\* fits what is stored.
THEOREM PlaygroundEndTellsAll == PgSpec => []EndTellsAll
BY InitPg, NextPg, PgInvTellsAll, PTL DEF PgSpec

\* Where sessions take turns, neither a stream nor a client replaces a run that has
\* succeeded, as long as the experiment is there.
THEOREM PlaygroundSparesSuccess == PgSpec => StreamsSpareSuccess
<1>1. PgInv /\ [PgNext]_allVars =>
        [lock /\ live' => \A k \in Slots : k \in Successes => runs'[k] = runs[k]]_allVars
  BY StepSpares
<1> QED
  BY <1>1, InitPg, NextPg, PTL DEF PgSpec, StreamsSpareSuccess
=============================================================================
