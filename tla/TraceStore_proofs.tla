-------------------------- MODULE TraceStore_proofs ---------------------------
(***************************************************************************)
(* Theorems about the trace tables, for any projects, traces, sessions and *)
(* times, any finite set of span ids and any spans sent that form families *)
(* (FamilyAssumption): whatever is inserted, deleted, moved and cleared,   *)
(* and in which order, the accumulated counts add up, intervals cover, and *)
(* references have their rows.                                             *)
(***************************************************************************)
EXTENDS TraceStore, FiniteSetTheorems, WellFoundedInduction, TLAPS

-----------------------------------------------------------------------------
(* What MapThenSumSet computes.  It is defined by recursion; what is said of *)
(* all finite sets is shown by a least set for which it fails.               *)

\* Of the subsets of a finite set that are in B one has no smaller one in B.
LEMMA LeastSubset ==
  ASSUME NEW S, IsFiniteSet(S), NEW B \in SUBSET (SUBSET S), B # {}
  PROVE  \E T \in B : \A U \in B : U \subseteq T => U = T
<1>1. IsWellFoundedOn(StrictSubsetOrdering(S), SUBSET S)
  BY FS_StrictSubsetOrderingWellFounded, FS_FiniteSubsetsOfFinite
<1>2. \E T \in B : \A U \in B : ~(<<U, T>> \in StrictSubsetOrdering(S))
  BY <1>1, WFMin
<1>3. PICK T \in B : \A U \in B : ~(<<U, T>> \in StrictSubsetOrdering(S))
  BY <1>2
<1>4. ASSUME NEW U \in B, U \subseteq T, U # T PROVE FALSE
  <2>1. U \in SUBSET S /\ T \in SUBSET S
    BY <1>3, <1>4
  <2>2. <<U, T>> \in StrictSubsetOrdering(S)
    BY <1>4, <2>1 DEF StrictSubsetOrdering
  <2> QED
    BY <1>3, <2>2
<1> QED
  BY <1>4

\* The element that is taken next, and the recursion over what is left.
Pick(s) == CHOOSE x \in s : TRUE

IsSum(g, table, S) ==
  g = [s \in SUBSET S |-> IF s = {} THEN 0 ELSE table[Pick(s)].sum + g[s \ {Pick(s)}]]

SumOf(table, S) == CHOOSE g : IsSum(g, table, S)

LEMMA TotalIsChoice ==
  ASSUME NEW table, NEW S
  PROVE  Total(table, S) = SumOf(table, S)[S]
BY DEF Total, MapThenSumSet, MapThenFoldSet, IsSum, SumOf, Pick

LEMMA PickIsIn ==
  ASSUME NEW s, s # {}
  PROVE  Pick(s) \in s
BY DEF Pick

LEMMA SumStep ==
  ASSUME NEW table, NEW S, NEW g, IsSum(g, table, S), NEW s \in SUBSET S
  PROVE  g[s] = IF s = {} THEN 0 ELSE table[Pick(s)].sum + g[s \ {Pick(s)}]
<1> DEFINE step(t) == IF t = {} THEN 0 ELSE table[Pick(t)].sum + g[t \ {Pick(t)}]
<1>1. g = [t \in SUBSET S |-> step(t)]
  BY DEF IsSum
<1> HIDE DEF step
<1>2. g[s] = step(s)
  BY <1>1
<1> QED
  BY <1>2 DEF step

\* Two functions that follow the recursion agree.
LEMMA SumsAgree ==
  ASSUME NEW table, NEW S, NEW R, IsFiniteSet(S), S \subseteq R, NEW g, NEW h,
         IsSum(g, table, S), IsSum(h, table, R)
  PROVE  \A s \in SUBSET S : g[s] = h[s]
<1> DEFINE B == {s \in SUBSET S : g[s] # h[s]}
<1>1. SUFFICES ASSUME B # {} PROVE FALSE
  OBVIOUS
<1>2. PICK T \in B : \A U \in B : U \subseteq T => U = T
  <2>1. B \in SUBSET (SUBSET S)
    OBVIOUS
  <2> HIDE DEF B
  <2> QED
    BY <1>1, <2>1, LeastSubset
<1>3. /\ g[T] = IF T = {} THEN 0 ELSE table[Pick(T)].sum + g[T \ {Pick(T)}]
      /\ h[T] = IF T = {} THEN 0 ELSE table[Pick(T)].sum + h[T \ {Pick(T)}]
  BY <1>2, SumStep
<1>4. T # {}
  BY <1>3
<1>5. Pick(T) \in T
  BY <1>4, PickIsIn
<1>6. g[T \ {Pick(T)}] = h[T \ {Pick(T)}]
  BY <1>2, <1>5
<1> QED
  BY <1>3, <1>4, <1>6

\* There is such a function for every finite set.
LEMMA SumExists ==
  ASSUME NEW table, NEW S, IsFiniteSet(S)
  PROVE  IsSum(SumOf(table, S), table, S)
<1> DEFINE B == {s \in SUBSET S : ~ \E g : IsSum(g, table, s)}
<1>1. SUFFICES B = {}
  <2>1. ASSUME B = {} PROVE \E g : IsSum(g, table, S)
    BY <2>1
  <2> QED
    BY <2>1 DEF SumOf
<1>2. SUFFICES ASSUME B # {} PROVE FALSE
  OBVIOUS
<1>3. PICK T \in B : \A U \in B : U \subseteq T => U = T
  <2>1. B \in SUBSET (SUBSET S)
    OBVIOUS
  <2> HIDE DEF B
  <2> QED
    BY <1>2, <2>1, LeastSubset
<1>4. \A U \in SUBSET T : U # T => IsSum(SumOf(table, U), table, U)
  BY <1>3 DEF SumOf
<1>5. \A U \in SUBSET T : IsFiniteSet(U)
  BY FS_Subset
<1> DEFINE H(s) == IF s = {} THEN 0
                   ELSE table[Pick(s)].sum + SumOf(table, s \ {Pick(s)})[s \ {Pick(s)}]
           h == [s \in SUBSET T |-> H(s)]
<1>6. ASSUME NEW s \in SUBSET T, s # T PROVE SumOf(table, s)[s] = H(s)
  <2>1. SumOf(table, s)[s] = IF s = {} THEN 0
                             ELSE table[Pick(s)].sum + SumOf(table, s)[s \ {Pick(s)}]
    <3>1. IsSum(SumOf(table, s), table, s)
      BY <1>4, <1>6
    <3> QED
      BY <3>1 DEF IsSum
  <2>2. CASE s = {}
    BY <2>1, <2>2
  <2>3. CASE s # {}
    <3> DEFINE r == s \ {Pick(s)}
    <3>1. r \in SUBSET T /\ r # T /\ r \subseteq s /\ IsFiniteSet(r)
      BY <1>5, <2>3, PickIsIn
    <3>2. SumOf(table, r)[r] = SumOf(table, s)[r]
      <4>1. IsSum(SumOf(table, r), table, r) /\ IsSum(SumOf(table, s), table, s)
        BY <1>4, <1>6, <3>1
      <4> HIDE DEF r
      <4> QED
        BY <3>1, <4>1, SumsAgree
    <3> QED
      BY <2>1, <2>3, <3>2
  <2> QED
    BY <2>2, <2>3
<1>7. \A s \in SUBSET T :
        h[s] = IF s = {} THEN 0 ELSE table[Pick(s)].sum + h[s \ {Pick(s)}]
  <2> SUFFICES ASSUME NEW s \in SUBSET T
               PROVE  h[s] = IF s = {} THEN 0 ELSE table[Pick(s)].sum + h[s \ {Pick(s)}]
    OBVIOUS
  <2>1. CASE s = {}
    BY <2>1
  <2>2. CASE s # {}
    <3> DEFINE r == s \ {Pick(s)}
    <3>1. r \in SUBSET T /\ r # T
      BY <2>2, PickIsIn
    <3>2. SumOf(table, r)[r] = H(r) /\ h[r] = H(r) /\ h[s] = H(s)
      BY <1>6, <3>1
    <3>3. H(s) = table[Pick(s)].sum + SumOf(table, r)[r]
      BY <2>2
    <3> QED
      BY <2>2, <3>2, <3>3
  <2> QED
    BY <2>1, <2>2
<1>8. IsSum(h, table, T)
  <2> HIDE DEF H
  <2> DEFINE k == [s \in SUBSET T |-> IF s = {} THEN 0 ELSE table[Pick(s)].sum + h[s \ {Pick(s)}]]
  <2>1. h = k
    BY <1>7
  <2> QED
    BY <2>1 DEF IsSum
<1> QED
  BY <1>3, <1>8

\* The recursion itself, without the functions that stand for it.
LEMMA TotalStep ==
  ASSUME NEW table, NEW S, IsFiniteSet(S)
  PROVE  /\ S = {} => Total(table, S) = 0
         /\ S # {} => Total(table, S) = table[Pick(S)].sum + Total(table, S \ {Pick(S)})
<1>1. IsSum(SumOf(table, S), table, S) /\ Total(table, S) = SumOf(table, S)[S]
  BY SumExists, TotalIsChoice
<1>2. SumOf(table, S)[S] = IF S = {} THEN 0
        ELSE table[Pick(S)].sum + SumOf(table, S)[S \ {Pick(S)}]
  BY <1>1, SumStep
<1> DEFINE R == S \ {Pick(S)}
<1>3. R \in SUBSET S /\ IsFiniteSet(R)
  BY FS_Subset
<1>4. IsSum(SumOf(table, R), table, R) /\ Total(table, R) = SumOf(table, R)[R]
  BY <1>3, SumExists, TotalIsChoice
<1>5. SumOf(table, R)[R] = SumOf(table, S)[R]
  <2> HIDE DEF R
  <2> QED
    BY <1>1, <1>3, <1>4, SumsAgree
<1> QED
  BY <1>1, <1>2, <1>4, <1>5

Summable(table, S) == IsFiniteSet(S) /\ \A c \in S : table[c].sum \in Int

\* Integers sum up to an integer.
LEMMA TotalIsInt ==
  ASSUME NEW table, NEW S, Summable(table, S)
  PROVE  Total(table, S) \in Int
<1> DEFINE B == {s \in SUBSET S : Total(table, s) \notin Int}
<1>1. SUFFICES ASSUME B # {} PROVE FALSE
  OBVIOUS
<1>2. IsFiniteSet(S) /\ \A c \in S : table[c].sum \in Int
  BY DEF Summable
<1>3. PICK T \in B : \A U \in B : U \subseteq T => U = T
  <2>1. B \in SUBSET (SUBSET S)
    OBVIOUS
  <2> HIDE DEF B
  <2> QED
    BY <1>1, <1>2, <2>1, LeastSubset
<1>4. IsFiniteSet(T)
  BY <1>2, FS_Subset
<1>5. T # {} /\ Total(table, T) = table[Pick(T)].sum + Total(table, T \ {Pick(T)})
  <2>1. Total(table, T) \notin Int
    OBVIOUS
  <2>2. T # {}
    BY <1>4, <2>1, TotalStep
  <2> QED
    BY <1>4, <2>2, TotalStep
<1>6. Pick(T) \in T
  BY <1>5, PickIsIn
<1>7. Total(table, T \ {Pick(T)}) \in Int
  BY <1>3, <1>6
<1> QED
  BY <1>2, <1>5, <1>6, <1>7

\* Any of its members may be taken out first.
LEMMA TotalWithout ==
  ASSUME NEW table, NEW S, Summable(table, S), NEW x \in S
  PROVE  Total(table, S) = table[x].sum + Total(table, S \ {x})
<1> DEFINE Fails(s) == \E y \in s : Total(table, s) # table[y].sum + Total(table, s \ {y})
           B == {s \in SUBSET S : Fails(s)}
<1>1. SUFFICES ASSUME B # {} PROVE FALSE
  OBVIOUS
<1>2. IsFiniteSet(S) /\ \A c \in S : table[c].sum \in Int
  BY DEF Summable
<1>3. PICK T \in B : \A U \in B : U \subseteq T => U = T
  <2>1. B \in SUBSET (SUBSET S)
    OBVIOUS
  <2> HIDE DEF B
  <2> QED
    BY <1>1, <1>2, <2>1, LeastSubset
<1>4. PICK y \in T : Total(table, T) # table[y].sum + Total(table, T \ {y})
  OBVIOUS
<1> DEFINE p == Pick(T)
<1>5. p \in T /\ Total(table, T) = table[p].sum + Total(table, T \ {p})
  BY <1>2, <1>4, FS_Subset, PickIsIn, TotalStep
<1>6. ~ Fails(T \ {p}) /\ ~ Fails(T \ {y})
  BY <1>3, <1>4, <1>5, ZenonT(30)
<1> HIDE DEF p, B
<1>7. p # y
  BY <1>4, <1>5
<1>8. /\ Total(table, T \ {p}) = table[y].sum + Total(table, (T \ {p}) \ {y})
      /\ Total(table, T \ {y}) = table[p].sum + Total(table, (T \ {y}) \ {p})
  BY <1>4, <1>5, <1>6, <1>7
<1>9. Total(table, (T \ {p}) \ {y}) = Total(table, (T \ {y}) \ {p})
  <2>1. (T \ {p}) \ {y} = (T \ {y}) \ {p}
    OBVIOUS
  <2> QED
    BY <2>1
<1>10. Total(table, (T \ {p}) \ {y}) \in Int
  <2>1. Summable(table, (T \ {p}) \ {y})
    BY <1>2, <1>3, FS_Subset DEF Summable, B
  <2> QED
    BY <2>1, TotalIsInt
<1>11. table[p].sum \in Int /\ table[y].sum \in Int
  BY <1>2, <1>3, <1>4, <1>5 DEF B
<1>12. Total(table, T) = table[y].sum + (table[p].sum + Total(table, (T \ {p}) \ {y}))
  BY <1>5, <1>8, <1>10, <1>11
<1> QED
  BY <1>4, <1>8, <1>9, <1>12

\* Tables that agree on a set have the same total there.
LEMMA TotalSame ==
  ASSUME NEW table, NEW other, NEW S, IsFiniteSet(S),
         \A c \in S : table[c].sum = other[c].sum
  PROVE  Total(table, S) = Total(other, S)
<1> DEFINE B == {s \in SUBSET S : Total(table, s) # Total(other, s)}
<1>1. SUFFICES ASSUME B # {} PROVE FALSE
  OBVIOUS
<1>2. PICK T \in B : \A U \in B : U \subseteq T => U = T
  <2>1. B \in SUBSET (SUBSET S)
    OBVIOUS
  <2> HIDE DEF B
  <2> QED
    BY <1>1, <2>1, LeastSubset
<1>3. IsFiniteSet(T)
  BY FS_Subset
<1>4. /\ T = {} => Total(table, T) = 0 /\ Total(other, T) = 0
      /\ T # {} => /\ Total(table, T) = table[Pick(T)].sum + Total(table, T \ {Pick(T)})
                   /\ Total(other, T) = other[Pick(T)].sum + Total(other, T \ {Pick(T)})
  BY <1>3, TotalStep
<1>5. T # {} /\ Pick(T) \in T
  BY <1>4, PickIsIn
<1>6. Total(table, T \ {Pick(T)}) = Total(other, T \ {Pick(T)})
  BY <1>2, <1>5
<1> QED
  BY <1>4, <1>5, <1>6

\* A total grows by what one of the members grows.
LEMMA TotalGrows ==
  ASSUME NEW table, NEW other, NEW S, Summable(table, S), NEW x \in S, NEW n \in Int,
         other[x].sum = table[x].sum + n,
         \A c \in S \ {x} : other[c].sum = table[c].sum
  PROVE  Total(other, S) = Total(table, S) + n
<1>1. IsFiniteSet(S) /\ \A c \in S : table[c].sum \in Int
  BY DEF Summable
<1>2. Summable(other, S) /\ Summable(table, S \ {x})
  BY <1>1, FS_Subset DEF Summable
<1>3. /\ Total(table, S) = table[x].sum + Total(table, S \ {x})
      /\ Total(other, S) = other[x].sum + Total(other, S \ {x})
  BY <1>2, TotalWithout
<1>4. Total(table, S \ {x}) = Total(other, S \ {x})
  BY <1>2, TotalSame DEF Summable
<1>5. Total(table, S \ {x}) \in Int /\ table[x].sum \in Int
  BY <1>1, <1>2, TotalIsInt
<1> QED
  BY <1>3, <1>4, <1>5

\* A total grows by a new member.
LEMMA TotalWith ==
  ASSUME NEW table, NEW other, NEW S, Summable(table, S), NEW x, x \notin S,
         other[x].sum \in Int,
         \A c \in S : other[c].sum = table[c].sum
  PROVE  Total(other, S \cup {x}) = Total(table, S) + other[x].sum
<1>1. IsFiniteSet(S) /\ \A c \in S : table[c].sum \in Int
  BY DEF Summable
<1>2. Summable(other, S \cup {x})
  BY <1>1, FS_AddElement DEF Summable
<1>3. Total(other, S \cup {x}) = other[x].sum + Total(other, (S \cup {x}) \ {x})
  BY <1>2, TotalWithout
<1>4. Total(other, (S \cup {x}) \ {x}) = Total(other, S)
  <2>1. (S \cup {x}) \ {x} = S
    OBVIOUS
  <2> QED
    BY <2>1
<1>5. Total(table, S) = Total(other, S)
  BY <1>1, TotalSame
<1>6. Total(table, S) \in Int
  BY TotalIsInt
<1> QED
  BY <1>3, <1>4, <1>5, <1>6

-----------------------------------------------------------------------------
(* The way up from a span, in a table whose spans can be ranked so that a    *)
(* parent ranks below its children.                                          *)

SpanTable(table) == table \in [SpanIds -> SpanRows \cup {None}]

Ranks(rank, table) ==
  /\ rank \in [SpanIds -> Nat]
  /\ \A x \in Stored(table) :
       table[x].parent \in Stored(table) => rank[table[x].parent] < rank[x]

Kids(table, s) == {c \in Stored(table) : table[c].parent = s}

\* Ancestors is the least set that has the span and is closed upward.
LEMMA AncestorsClosed ==
  ASSUME NEW table, NEW q
  PROVE  /\ Ancestors(table, q) \subseteq Stored(table)
         /\ q \in Stored(table) => q \in Ancestors(table, q)
         /\ UpwardClosed(table, Ancestors(table, q))
BY DEF Ancestors, UpwardClosed

LEMMA AncestorsLeast ==
  ASSUME NEW table, NEW q, NEW U \in SUBSET Stored(table), q \in Stored(table) => q \in U,
         UpwardClosed(table, U)
  PROVE  Ancestors(table, q) \subseteq U
BY DEF Ancestors

LEMMA NoAncestors ==
  ASSUME NEW table, NEW q, q \notin Stored(table)
  PROVE  Ancestors(table, q) = {}
<1>1. UpwardClosed(table, {})
  BY DEF UpwardClosed
<1> QED
  BY <1>1, AncestorsLeast

\* No ancestor ranks above the span.
LEMMA AncestorsRank ==
  ASSUME NEW table, SpanTable(table), NEW rank, Ranks(rank, table), NEW q \in Stored(table),
         NEW a \in Ancestors(table, q)
  PROVE  rank[a] <= rank[q]
<1> DEFINE U == {x \in Stored(table) : rank[x] <= rank[q]}
<1>1. Stored(table) \subseteq SpanIds
  BY DEF SpanTable, Stored
<1>2. q \in U
  BY <1>1 DEF Ranks
<1>3. UpwardClosed(table, U)
  BY <1>1 DEF UpwardClosed, Ranks
<1> HIDE DEF U
<1>4. U \in SUBSET Stored(table)
  BY DEF U
<1>5. a \in U
  BY <1>2, <1>3, <1>4, AncestorsLeast
<1> QED
  BY <1>5 DEF U

\* An ancestor other than the span is the parent of an ancestor.
LEMMA AncestorHasKid ==
  ASSUME NEW table, NEW q \in Stored(table), NEW a \in Ancestors(table, q), a # q
  PROVE  \E c \in Ancestors(table, q) : table[c].parent = a
<1> DEFINE U == Ancestors(table, q) \ {a}
<1>1. SUFFICES ASSUME \A c \in Ancestors(table, q) : table[c].parent # a PROVE FALSE
  OBVIOUS
<1>2. UpwardClosed(table, U)
  BY <1>1, AncestorsClosed DEF UpwardClosed
<1>3. q \in U /\ U \in SUBSET Stored(table)
  BY AncestorsClosed
<1> HIDE DEF U
<1>4. a \in U
  BY <1>2, <1>3, AncestorsLeast
<1> QED
  BY <1>4 DEF U

\* What is above a span is the span itself or above its parent.
LEMMA AncestorsOfParent ==
  ASSUME NEW table, NEW b \in Stored(table), NEW a \in Ancestors(table, b), a # b
  PROVE  /\ table[b].parent \in Stored(table)
         /\ a \in Ancestors(table, table[b].parent)
<1> DEFINE U == {b} \cup Ancestors(table, table[b].parent)
<1>1. UpwardClosed(table, U)
  BY AncestorsClosed DEF UpwardClosed
<1>2. b \in U /\ U \in SUBSET Stored(table)
  BY AncestorsClosed
<1>3. a \in U
  <2> HIDE DEF U
  <2> QED
    BY <1>1, <1>2, AncestorsLeast
<1>4. a \in Ancestors(table, table[b].parent)
  BY <1>3
<1> QED
  BY <1>4, NoAncestors

\* Of two ancestors of a span one is above the other.
LEMMA AncestorsInLine ==
  ASSUME NEW table, NEW q \in Stored(table),
         NEW a \in Ancestors(table, q), NEW b \in Ancestors(table, q)
  PROVE  b \in Ancestors(table, a) \/ a \in Ancestors(table, b)
<1> DEFINE U == {x \in Stored(table) : x \in Ancestors(table, a) \/ a \in Ancestors(table, x)}
<1>1. a \in Stored(table) /\ b \in Stored(table)
  BY AncestorsClosed
<1>2. UpwardClosed(table, U)
  <2> SUFFICES ASSUME NEW x \in U, table[x].parent \in Stored(table)
               PROVE  table[x].parent \in U
    BY DEF UpwardClosed
  <2>1. CASE x \in Ancestors(table, a)
    BY <2>1, AncestorsClosed DEF UpwardClosed
  <2>2. CASE a \in Ancestors(table, x) /\ a # x
    BY <2>2, AncestorsOfParent
  <2>3. CASE a = x
    BY <2>3, AncestorsClosed DEF UpwardClosed
  <2> QED
    BY <2>1, <2>2, <2>3
<1>3. q \in U /\ U \in SUBSET Stored(table)
  OBVIOUS
<1>4. b \in U
  <2> HIDE DEF U
  <2> QED
    BY <1>2, <1>3, AncestorsLeast
<1> QED
  BY <1>4

\* Which children of a stored span are on the way up from q: none of q's, one
\* of every other span's that is on the way itself, none of the rest's.
LEMMA KidsOnTheWay ==
  ASSUME NEW table, SpanTable(table), NEW rank, Ranks(rank, table), NEW q \in Stored(table),
         NEW s \in Stored(table)
  PROVE  /\ s = q \/ s \notin Ancestors(table, q) => Kids(table, s) \cap Ancestors(table, q) = {}
         /\ s # q /\ s \in Ancestors(table, q) =>
              \E c : Kids(table, s) \cap Ancestors(table, q) = {c}
<1>1. Stored(table) \subseteq SpanIds /\ Ancestors(table, q) \subseteq Stored(table)
  BY AncestorsClosed DEF SpanTable, Stored
<1>2. \A x \in Stored(table) : rank[x] \in Nat
  BY <1>1 DEF Ranks
<1>3. CASE s \notin Ancestors(table, q)
  BY <1>3, AncestorsClosed DEF UpwardClosed, Kids
<1>4. CASE s = q
  <2> SUFFICES ASSUME NEW c \in Kids(table, q) \cap Ancestors(table, q) PROVE FALSE
    BY <1>4
  <2>1. rank[q] < rank[c]
    BY DEF Kids, Ranks
  <2>2. rank[c] <= rank[q]
    BY AncestorsRank
  <2> QED
    BY <1>1, <1>2, <2>1, <2>2
<1>5. CASE s # q /\ s \in Ancestors(table, q)
  <2>1. PICK c \in Ancestors(table, q) : table[c].parent = s
    BY <1>5, AncestorHasKid
  <2>2. c \in Kids(table, s)
    BY <1>1, <2>1 DEF Kids
  <2>3. ASSUME NEW d \in Kids(table, s) \cap Ancestors(table, q), NEW e \in Kids(table, s),
               e # d, d \in Ancestors(table, e)
        PROVE  FALSE
    <3>1. table[e].parent = s /\ table[d].parent = s /\ e \in Stored(table) /\ d \in Stored(table)
      BY DEF Kids
    <3>2. d \in Ancestors(table, s)
      BY <2>3, <3>1, AncestorsOfParent
    <3>3. rank[d] <= rank[s]
      BY <3>2, AncestorsRank
    <3>4. rank[s] < rank[d]
      BY <3>1 DEF Ranks
    <3> QED
      BY <1>2, <3>1, <3>3, <3>4
  <2>4. \A d \in Kids(table, s) \cap Ancestors(table, q) : d = c
    BY <2>1, <2>2, <2>3, AncestorsInLine
  <2>5. Kids(table, s) \cap Ancestors(table, q) = {c}
    BY <2>1, <2>2, <2>4
  <2> QED
    BY <1>5, <2>5
<1> QED
  BY <1>3, <1>4, <1>5

LEMMA SumPlus ==
  ASSUME NEW row \in SpanRows, NEW n \in Int
  PROVE  LET more == [row EXCEPT !.sum = @ + n] IN
         /\ more \in SpanRows /\ row.sum \in Int /\ more.sum = row.sum + n
         /\ more.own = row.own /\ more.parent = row.parent /\ more.trace = row.trace
         /\ more.start = row.start /\ more.end = row.end
BY DEF SpanRows

\* AddToAncestors adds n to the spans on the way up, and to what the children
\* of each of them but the lowest have together; nothing else changes.
LEMMA CountsMoveUp ==
  ASSUME NEW table, SpanTable(table), NEW rank, Ranks(rank, table), NEW q, NEW n \in Int
  PROVE  LET other == AddToAncestors(table, q, n)
             A == Ancestors(table, q) IN
         /\ SpanTable(other) /\ Stored(other) = Stored(table)
         /\ \A s \in Stored(table) :
              /\ other[s].own = table[s].own /\ other[s].parent = table[s].parent
              /\ other[s].trace = table[s].trace
              /\ other[s].start = table[s].start /\ other[s].end = table[s].end
              /\ other[s].sum = table[s].sum + (IF s \in A THEN n ELSE 0)
              /\ Total(other, Kids(table, s))
                   = Total(table, Kids(table, s)) + (IF s \in A /\ s # q THEN n ELSE 0)
<1> DEFINE other == AddToAncestors(table, q, n)
           A == Ancestors(table, q)
<1>1. Stored(table) \subseteq SpanIds /\ A \subseteq Stored(table)
  BY AncestorsClosed DEF SpanTable, Stored
<1>2. \A x \in Stored(table) : table[x] \in SpanRows
  BY DEF SpanTable, Stored
<1>3. \A x \in SpanIds :
        other[x] = IF x \in A THEN [table[x] EXCEPT !.sum = @ + n] ELSE table[x]
  BY DEF AddToAncestors
<1>4. \A x \in A : other[x] \in SpanRows
  <2> SUFFICES ASSUME NEW x \in A PROVE other[x] \in SpanRows
    OBVIOUS
  <2> HIDE DEF other, A
  <2>1. table[x] \in SpanRows /\ other[x] = [table[x] EXCEPT !.sum = @ + n]
    BY <1>1, <1>2, <1>3
  <2> QED
    BY <2>1, SumPlus
<1>5. SpanTable(other)
  <2>1. \A x \in SpanIds : other[x] \in SpanRows \cup {None}
    BY <1>3, <1>4 DEF SpanTable
  <2> QED
    BY <2>1 DEF SpanTable, AddToAncestors
<1>6. Stored(other) = Stored(table)
  <2>1. DOMAIN other = SpanIds /\ DOMAIN table = SpanIds
    BY DEF AddToAncestors, SpanTable
  <2>2. \A x \in A : other[x] # None
    BY <1>4, NoneAssumption
  <2> HIDE DEF other, A
  <2> QED
    BY <1>1, <1>3, <2>1, <2>2 DEF Stored
<1>7. ASSUME NEW s \in Stored(table)
      PROVE  /\ other[s].own = table[s].own /\ other[s].parent = table[s].parent
             /\ other[s].trace = table[s].trace
             /\ other[s].start = table[s].start /\ other[s].end = table[s].end
             /\ other[s].sum = table[s].sum + (IF s \in A THEN n ELSE 0)
  <2> HIDE DEF other, A
  <2>1. table[s] \in SpanRows /\ s \in SpanIds
    BY <1>1, <1>2
  <2>2. CASE s \in A
    <3>1. other[s] = [table[s] EXCEPT !.sum = @ + n]
      BY <1>3, <2>1, <2>2
    <3> QED
      BY <2>1, <2>2, <3>1, SumPlus
  <2>3. CASE s \notin A
    <3>1. other[s] = table[s]
      BY <1>3, <2>1, <2>3
    <3>2. table[s].sum \in Int
      BY <2>1 DEF SpanRows
    <3> QED
      BY <2>3, <3>1, <3>2
  <2> QED
    BY <2>2, <2>3
<1>8. ASSUME NEW s \in Stored(table)
      PROVE  Total(other, Kids(table, s))
               = Total(table, Kids(table, s)) + (IF s \in A /\ s # q THEN n ELSE 0)
  <2> HIDE DEF other, A
  <2>1. Summable(table, Kids(table, s))
    <3>1. IsFiniteSet(Kids(table, s))
      BY <1>1, IdsAssumption, FS_Subset DEF Kids
    <3> QED
      BY <1>2, <3>1 DEF Summable, Kids, SpanRows
  <2>2. Total(table, Kids(table, s)) \in Int
    BY <2>1, TotalIsInt
  <2>3. \A c \in Kids(table, s) : c \in Stored(table) /\ table[c].sum \in Int
    BY <1>2 DEF Kids, SpanRows
  <2>4. CASE Kids(table, s) \cap A = {}
    <3>1. \A c \in Kids(table, s) : table[c].sum = other[c].sum
      BY <1>7, <2>3, <2>4
    <3>2. Total(table, Kids(table, s)) = Total(other, Kids(table, s))
      BY <2>1, <3>1, TotalSame DEF Summable
    <3>3. ~ (s \in A /\ s # q)
      <4>1. q \notin Stored(table) => A = {}
        BY NoAncestors DEF A
      <4> QED
        BY <2>4, <4>1, KidsOnTheWay DEF A
    <3> QED
      BY <2>2, <3>2, <3>3
  <2>5. CASE Kids(table, s) \cap A # {}
    <3>1. q \in Stored(table)
      BY <2>5, NoAncestors DEF A
    <3>2. s \in A /\ s # q
      BY <2>5, <3>1, KidsOnTheWay DEF A
    <3>3. PICK c : Kids(table, s) \cap A = {c}
      BY <3>1, <3>2, KidsOnTheWay DEF A
    <3>4. /\ c \in Kids(table, s) /\ other[c].sum = table[c].sum + n
          /\ \A d \in Kids(table, s) \ {c} : other[d].sum = table[d].sum
      BY <1>7, <2>3, <3>3
    <3>5. Total(other, Kids(table, s)) = Total(table, Kids(table, s)) + n
      BY <2>1, <3>4, TotalGrows
    <3> QED
      BY <3>2, <3>5
  <2> QED
    BY <2>4, <2>5
<1> QED
  BY <1>5, <1>6, <1>7, <1>8

-----------------------------------------------------------------------------
(* The rows that an insertion writes *)

TimesOf(row) == row.start \in Times /\ row.end \in Times

LEMMA EarlierLater ==
  ASSUME NEW x \in Times, NEW y \in Times
  PROVE  LET lo == IF x < y THEN x ELSE y
             hi == IF y < x THEN x ELSE y IN
         /\ lo \in Times /\ lo <= x /\ lo <= y
         /\ hi \in Times /\ x <= hi /\ y <= hi
<1>1. x \in Int /\ y \in Int
  BY TimesAssumption
<1>2. CASE x < y
  BY <1>1, <1>2
<1>3. CASE ~ (x < y)
  BY <1>1, <1>3
<1> QED
  BY <1>2, <1>3

LEMMA RowTimes ==
  /\ \A r \in TraceRows : r.start \in Int /\ r.end \in Int
  /\ \A r \in SessionRows : r.start \in Int /\ r.end \in Int
  /\ \A r \in SpanRows : r.start \in Int /\ r.end \in Int
<1>1. \A x \in Times : x \in Int
  BY TimesAssumption
<1>2. /\ \A r \in TraceRows : r.start \in Times /\ r.end \in Times
      /\ \A r \in SessionRows : r.start \in Times /\ r.end \in Times
      /\ \A r \in SpanRows : r.start \in Times /\ r.end \in Times
  BY DEF TraceRows, SessionRows, SpanRows
<1> QED
  BY <1>1, <1>2

\* Widening covers the old times and the new and changes nothing else.
LEMMA WiderTrace ==
  ASSUME NEW row \in TraceRows, NEW a \in Times, NEW b \in Times
  PROVE  LET w == Wider(row, a, b) IN
         /\ w \in TraceRows /\ w.project = row.project /\ w.session = row.session
         /\ w.start <= row.start /\ w.start <= a /\ row.end <= w.end /\ b <= w.end
<1> DEFINE lo == IF a < row.start THEN a ELSE row.start
           hi == IF row.end < b THEN b ELSE row.end
           w == Wider(row, a, b)
<1>1. row.start \in Times /\ row.end \in Times
  BY DEF TraceRows
<1>2. /\ lo \in Times /\ lo <= row.start /\ lo <= a
      /\ hi \in Times /\ row.end <= hi /\ b <= hi
  BY <1>1, EarlierLater
<1>3. w = [row EXCEPT !.start = lo, !.end = hi]
  BY DEF Wider
<1> HIDE DEF lo, hi, w
<1>4. w \in TraceRows /\ w.project = row.project /\ w.session = row.session /\ w.start = lo /\ w.end = hi
  BY <1>2, <1>3 DEF TraceRows
<1> QED
  BY <1>2, <1>4 DEF w

LEMMA WiderSession ==
  ASSUME NEW row \in SessionRows, NEW a \in Times, NEW b \in Times
  PROVE  LET w == Wider(row, a, b) IN
         /\ w \in SessionRows /\ w.project = row.project
         /\ w.start <= row.start /\ w.start <= a /\ row.end <= w.end /\ b <= w.end
<1> DEFINE lo == IF a < row.start THEN a ELSE row.start
           hi == IF row.end < b THEN b ELSE row.end
           w == Wider(row, a, b)
<1>1. row.start \in Times /\ row.end \in Times
  BY DEF SessionRows
<1>2. /\ lo \in Times /\ lo <= row.start /\ lo <= a
      /\ hi \in Times /\ row.end <= hi /\ b <= hi
  BY <1>1, EarlierLater
<1>3. w = [row EXCEPT !.start = lo, !.end = hi]
  BY DEF Wider
<1> HIDE DEF lo, hi, w
<1>4. w \in SessionRows /\ w.project = row.project /\ w.start = lo /\ w.end = hi
  BY <1>2, <1>3 DEF SessionRows
<1> QED
  BY <1>2, <1>4 DEF w

LEMMA SentFields ==
  ASSUME NEW p \in Payload
  PROVE  /\ p.id \in SpanIds /\ p.trace \in Traces /\ p.parent \in SpanIds \cup {None}
         /\ p.session \in Sessions \cup {None} /\ p.start \in Times /\ p.end \in Times
         /\ p.count \in Nat
BY PayloadAssumption DEF SpanRecords

\* The trace row after an insertion: it covers the span and the row before it,
\* keeps that row's project, and its session if it had one.
LEMMA TraceRowWritten ==
  ASSUME TypeOK, NEW p \in Payload, NEW project \in Projects
  PROVE  LET row == TraceFor(p, project)
             old == traces[p.trace] IN
         /\ row \in TraceRows /\ row.start <= p.start /\ p.end <= row.end
         /\ old = None => row.project = project
         /\ old # None => /\ row.start <= old.start /\ old.end <= row.end
                          /\ row.project = old.project
                          /\ old.session # None => row.session = old.session
<1> USE SentFields
<1>1. CASE traces[p.trace] = None
  BY <1>1, TimesAssumption DEF TraceFor, TraceRows
<1>2. CASE traces[p.trace] # None
  <2> DEFINE w == Wider(traces[p.trace], p.start, p.end)
             row == TraceFor(p, project)
  <2>1. traces[p.trace] \in TraceRows
    BY <1>2 DEF TypeOK
  <2>2. /\ w \in TraceRows /\ w.project = traces[p.trace].project
        /\ w.session = traces[p.trace].session
        /\ w.start <= traces[p.trace].start /\ w.start <= p.start
        /\ traces[p.trace].end <= w.end /\ p.end <= w.end
    BY <2>1, WiderTrace
  <2>3. row = [w EXCEPT !.session = IF w.session = None THEN p.session ELSE w.session]
    BY <1>2 DEF TraceFor
  <2> HIDE DEF w
  <2>4. /\ row \in TraceRows /\ row.project = w.project
        /\ row.start = w.start /\ row.end = w.end
        /\ w.session # None => row.session = w.session
    BY <2>2, <2>3 DEF TraceRows
  <2> HIDE DEF row
  <2>5. QED
    BY <1>2, <2>2, <2>4 DEF row
<1> QED
  BY <1>1, <1>2

\* The session row after an insertion covers the trace row and what it was.
LEMMA SessionRowWritten ==
  ASSUME TypeOK, NEW p \in Payload, NEW row \in TraceRows, row.session # None
  PROVE  LET u == SessionFor(row, p)
             old == sessions[row.session] IN
         /\ u \in SessionRows /\ u.start <= row.start /\ row.end <= u.end
         /\ old = None => u.project = row.project
         /\ old # None => /\ u.start <= old.start /\ old.end <= u.end
                          /\ u.project = old.project
<1>1. /\ row.session \in Sessions /\ row.start \in Times /\ row.end \in Times
      /\ row.project \in Projects
  BY DEF TraceRows
<1>2. CASE sessions[row.session] = None
  <2> DEFINE u == [project |-> row.project, start |-> row.start, end |-> row.end]
  <2>1. SessionFor(row, p) = u
    BY <1>2 DEF SessionFor
  <2>2. u \in SessionRows /\ u.start <= row.start /\ row.end <= u.end /\ u.project = row.project
    <3>1. u \in SessionRows
      BY <1>1 DEF SessionRows
    <3>2. row.start <= row.start /\ row.end <= row.end
      BY <1>1, EarlierLater
    <3> QED
      BY <3>1, <3>2
  <2> HIDE DEF u
  <2> QED
    BY <1>2, <2>1, <2>2
<1>3. CASE sessions[row.session] # None
  <2>1. sessions[row.session] \in SessionRows
    BY <1>1, <1>3 DEF TypeOK
  <2> QED
    BY <1>1, <1>3, <2>1, WiderSession DEF SessionFor
<1> QED
  BY <1>2, <1>3

\* Every stored span was sent, and by FamilyAssumption by one span record only.
FromPayload(table) ==
  \A s \in Stored(table) :
    \E p \in Payload : p.id = s /\ p.parent = table[s].parent /\ p.trace = table[s].trace

LEMMA SentSpansRank ==
  ASSUME NEW table, SpanTable(table), FromPayload(table)
  PROVE  \E rank : Ranks(rank, table)
<1>1. PICK rank \in [SpanIds -> 1..Cardinality(SpanIds)] :
        \A p \in Payload : p.parent # None => rank[p.parent] < rank[p.id]
  BY FamilyAssumption
<1>2. Stored(table) \subseteq SpanIds
  BY DEF SpanTable, Stored
<1>3. rank \in [SpanIds -> Nat]
  <2>1. 1..Cardinality(SpanIds) \subseteq Nat
    OBVIOUS
  <2> QED
    BY <1>1, <2>1
<1>4. ASSUME NEW x \in Stored(table), table[x].parent \in Stored(table)
      PROVE  rank[table[x].parent] < rank[x]
  <2>1. PICK p \in Payload : p.id = x /\ p.parent = table[x].parent
    BY DEF FromPayload
  <2>2. p.parent # None
    BY <1>2, <1>4, <2>1, NoneAssumption
  <2> QED
    BY <1>1, <2>1, <2>2
<1> QED
  BY <1>3, <1>4 DEF Ranks

-----------------------------------------------------------------------------
\* The row of a new span.
NewRow(p) ==
  [trace |-> p.trace, parent |-> p.parent, start |-> p.start, end |-> p.end,
   own |-> p.count, sum |-> SumFor(p)]
WithNew(p) == [spans EXCEPT ![p.id] = NewRow(p)]

LEMMA KidsAreSummable ==
  ASSUME NEW table, SpanTable(table), NEW s
  PROVE  Summable(table, Kids(table, s))
<1>1. Kids(table, s) \subseteq SpanIds
  BY DEF Kids, Stored, SpanTable
<1>2. IsFiniteSet(Kids(table, s))
  BY <1>1, IdsAssumption, FS_Subset
<1>3. ASSUME NEW c \in Kids(table, s) PROVE table[c].sum \in Int
  <2>1. table[c] \in SpanRows
    BY DEF Kids, Stored, SpanTable
  <2> QED
    BY <2>1 DEF SpanRows
<1> QED
  BY <1>2, <1>3 DEF Summable

LEMMA ChildrenAreKids == \A s : ChildrenOf(s) = Kids(spans, s)
BY DEF ChildrenOf, Kids

\* The table with the new span, before the counts move up.
LEMMA TableWithNew ==
  ASSUME TypeOK, FromPayload(spans), NEW p \in Payload, spans[p.id] = None
  PROVE  /\ SumFor(p) \in Int /\ SumFor(p) = p.count + Total(spans, Kids(spans, p.id))
         /\ SpanTable(WithNew(p)) /\ FromPayload(WithNew(p))
         /\ Stored(WithNew(p)) = Stored(spans) \cup {p.id} /\ p.id \notin Stored(spans)
         /\ WithNew(p)[p.id] = NewRow(p)
         /\ \A s \in Stored(spans) : WithNew(p)[s] = spans[s]
<1>1. SpanTable(spans) /\ DOMAIN spans = SpanIds
  BY DEF TypeOK, SpanTable
<1>2. SumFor(p) = p.count + Total(spans, Kids(spans, p.id))
  BY ChildrenAreKids DEF SumFor
<1>3. SumFor(p) \in Int
  BY <1>1, <1>2, KidsAreSummable, TotalIsInt, SentFields
<1>4. NewRow(p) \in SpanRows
  BY <1>3, SentFields DEF NewRow, SpanRows
<1>5. NewRow(p) # None
  BY <1>4, NoneAssumption
<1> DEFINE T == WithNew(p)
<1>6. /\ T[p.id] = NewRow(p) /\ p.id \in SpanIds /\ DOMAIN T = SpanIds
      /\ \A s \in SpanIds : s # p.id => T[s] = spans[s]
  BY <1>1, SentFields DEF WithNew
<1>7. SpanTable(T)
  <2>1. \A s \in SpanIds : T[s] \in SpanRows \cup {None}
    BY <1>1, <1>4, <1>6 DEF SpanTable
  <2> QED
    BY <1>1, <2>1 DEF SpanTable, WithNew
<1> HIDE DEF T
<1>8. Stored(T) = Stored(spans) \cup {p.id} /\ p.id \notin Stored(spans)
  BY <1>1, <1>5, <1>6 DEF Stored
<1>9. \A s \in Stored(spans) : s \in SpanIds /\ s # p.id /\ T[s] = spans[s]
  BY <1>1, <1>6, <1>8 DEF Stored
<1>10. FromPayload(T)
  <2> SUFFICES ASSUME NEW s \in Stored(T)
               PROVE  \E q \in Payload : q.id = s /\ q.parent = T[s].parent /\ q.trace = T[s].trace
    BY DEF FromPayload
  <2>1. CASE s = p.id
    BY <1>6, <2>1 DEF NewRow
  <2>2. CASE s \in Stored(spans)
    BY <1>9, <2>2 DEF FromPayload
  <2> QED
    BY <1>8, <2>1, <2>2
<1> QED
  BY <1>2, <1>3, <1>6, <1>7, <1>8, <1>9, <1>10 DEF T

SameSpan(a, b) ==
  /\ a.own = b.own /\ a.parent = b.parent /\ a.trace = b.trace
  /\ a.start = b.start /\ a.end = b.end

\* An insertion adds the span, if its id is new, and keeps what the others are.
LEMMA SpansAfterInsert ==
  ASSUME TypeOK, FromPayload(spans), NEW p \in Payload, NEW project \in Projects,
         InsertSpan(p, project)
  PROVE  /\ SpanTable(spans') /\ FromPayload(spans')
         /\ Stored(spans') = Stored(spans) \cup {p.id}
         /\ \A s \in Stored(spans) : SameSpan(spans'[s], spans[s])
         /\ spans[p.id] = None => SameSpan(spans'[p.id], NewRow(p))
<1>1. CASE spans[p.id] # None
  <2>1. spans' = spans
    BY <1>1 DEF InsertSpan
  <2>2. SpanTable(spans) /\ p.id \in Stored(spans)
    BY <1>1, SentFields DEF TypeOK, SpanTable, Stored
  <2> QED
    BY <1>1, <2>1, <2>2 DEF SameSpan
<1>2. CASE spans[p.id] = None
  <2> DEFINE T == WithNew(p)
  <2>1. /\ SumFor(p) \in Int /\ SpanTable(T) /\ FromPayload(T)
        /\ Stored(T) = Stored(spans) \cup {p.id}
        /\ T[p.id] = NewRow(p) /\ \A s \in Stored(spans) : T[s] = spans[s]
    BY <1>2, TableWithNew
  <2>2. spans' = AddToAncestors(T, p.parent, SumFor(p))
    BY <1>2 DEF InsertSpan, WithNew, NewRow
  <2>3. PICK rank : Ranks(rank, T)
    BY <2>1, SentSpansRank
  <2> HIDE DEF T
  <2>4. /\ SpanTable(spans') /\ Stored(spans') = Stored(T)
        /\ \A s \in Stored(T) : SameSpan(spans'[s], T[s])
    BY <2>1, <2>2, <2>3, CountsMoveUp DEF SameSpan
  <2>5. FromPayload(spans')
    BY <2>1, <2>4 DEF FromPayload, SameSpan
  <2> QED
    BY <2>1, <2>4, <2>5
<1> QED
  BY <1>1, <1>2

LEMMA InsertKeepsTypes ==
  ASSUME TypeOK, FromPayload(spans), NEW p \in Payload, NEW project \in Projects,
         InsertSpan(p, project)
  PROVE  TypeOK'
<1> DEFINE row == TraceFor(p, project)
<1>1. /\ row \in TraceRows /\ p.trace \in Traces
      /\ traces[p.trace] = None => row.project = project
      /\ traces[p.trace] # None => row.project = traces[p.trace].project
  BY TraceRowWritten, SentFields
<1>2. /\ traces' = [traces EXCEPT ![p.trace] = row]
      /\ sessions' = IF row.session = None THEN sessions
                     ELSE [sessions EXCEPT ![row.session] = SessionFor(row, p)]
      /\ projects' = IF traces[p.trace] = None THEN projects \cup {project} ELSE projects
      /\ event' = {} \/ event' = {row.project}
  BY DEF InsertSpan
<1> HIDE DEF row
<1>3. row.session \in Sessions \cup {None} /\ row.project \in Projects /\ row # None
  BY <1>1, NoneAssumption DEF TraceRows
<1>4. row.session # None =>
        /\ SessionFor(row, p) \in SessionRows /\ SessionFor(row, p) # None
        /\ sessions[row.session] = None => SessionFor(row, p).project = row.project
        /\ sessions[row.session] # None =>
             SessionFor(row, p).project = sessions[row.session].project
  BY <1>1, SessionRowWritten, NoneAssumption
<1>5. projects' \subseteq Projects /\ event' \subseteq Projects
  BY <1>2, <1>3 DEF TypeOK
<1>6. traces' \in [Traces -> TraceRows \cup {None}]
  BY <1>1, <1>2 DEF TypeOK
<1>7. sessions' \in [Sessions -> SessionRows \cup {None}]
  BY <1>2, <1>4 DEF TypeOK
<1>8. spans' \in [SpanIds -> SpanRows \cup {None}]
  BY SpansAfterInsert DEF SpanTable
<1>9. row.project \in projects' /\ projects \subseteq projects'
  <2>1. CASE traces[p.trace] = None
    BY <1>1, <1>2, <2>1
  <2>2. CASE traces[p.trace] # None
    <3>1. traces[p.trace].project \in projects
      BY <1>1, <2>2 DEF TypeOK, Stored
    <3>2. projects' = projects
      BY <1>2, <2>2
    <3>3. row.project = traces[p.trace].project
      BY <1>1, <2>2
    <3> QED
      BY <3>1, <3>2, <3>3
  <2> QED
    BY <2>1, <2>2
<1>10. /\ \A u \in Sessions : sessions[u] # None => sessions'[u] # None
       /\ row.session # None => sessions'[row.session] # None
  BY <1>2, <1>3, <1>4 DEF TypeOK
<1>11. ASSUME NEW t \in Stored(traces')
       PROVE  /\ traces'[t].project \in projects'
              /\ traces'[t].session # None => sessions'[traces'[t].session] # None
  <2>1. CASE t = p.trace
    <3>1. traces'[t] = row
      BY <1>1, <1>2, <2>1 DEF TypeOK
    <3> QED
      BY <1>9, <1>10, <3>1
  <2>2. CASE t # p.trace
    <3>1. traces'[t] = traces[t] /\ t \in Stored(traces) /\ traces[t] \in TraceRows
      BY <1>1, <1>2, <1>6, <2>2 DEF TypeOK, Stored
    <3>2. traces[t].session \in Sessions \cup {None}
      BY <3>1 DEF TraceRows
    <3> QED
      BY <1>9, <1>10, <3>1, <3>2 DEF TypeOK
  <2> QED
    BY <2>1, <2>2
<1>12. ASSUME NEW u \in Stored(sessions') PROVE sessions'[u].project \in projects'
  <2>1. u \in Sessions
    BY <1>7 DEF Stored
  <2>2. CASE sessions'[u] = sessions[u]
    BY <1>9, <2>1, <2>2 DEF TypeOK, Stored
  <2>3. CASE sessions'[u] # sessions[u]
    <3>1. u = row.session /\ row.session # None /\ sessions'[u] = SessionFor(row, p)
      BY <1>2, <1>3, <2>1, <2>3 DEF TypeOK
    <3>2. sessions[u] # None => sessions[u].project \in projects
      BY <2>1 DEF TypeOK, Stored
    <3> QED
      BY <1>4, <1>9, <3>1, <3>2
  <2> QED
    BY <2>2, <2>3
<1>13. ASSUME NEW s \in Stored(spans') PROVE traces'[spans'[s].trace] # None
  <2>1. \A t \in Traces : traces[t] # None => traces'[t] # None
    BY <1>1, <1>2, <1>3 DEF TypeOK
  <2>2. traces'[p.trace] # None
    BY <1>1, <1>2, <1>3 DEF TypeOK
  <2>3. CASE s \in Stored(spans)
    <3>1. spans'[s].trace = spans[s].trace
      BY <2>3, SpansAfterInsert DEF SameSpan
    <3>2. spans[s].trace \in Traces /\ traces[spans[s].trace] # None
      <4>1. spans[s] \in SpanRows
        BY <2>3 DEF TypeOK, Stored
      <4> QED
        BY <2>3, <4>1 DEF TypeOK, SpanRows
    <3> QED
      BY <2>1, <3>1, <3>2
  <2>4. CASE s = p.id /\ s \notin Stored(spans)
    <3>1. spans[p.id] = None
      BY <2>4, SentFields DEF TypeOK, Stored
    <3>2. spans'[s].trace = p.trace
      BY <2>4, <3>1, SpansAfterInsert DEF SameSpan, NewRow
    <3> QED
      BY <2>2, <3>2
  <2> QED
    BY <2>3, <2>4, SpansAfterInsert
<1> QED
  BY <1>5, <1>6, <1>7, <1>8, <1>11, <1>12, <1>13 DEF TypeOK

\* By FamilyAssumption a child is in its parent's trace, and a span sent again
\* comes in the trace it is stored in.
LEMMA KidsShareTrace ==
  ASSUME NEW table, FromPayload(table), NEW s \in Stored(table), NEW c \in Kids(table, s)
  PROVE  table[c].trace = table[s].trace
<1>1. PICK p \in Payload : p.id = s /\ p.trace = table[s].trace
  BY DEF FromPayload
<1>2. c \in Stored(table) /\ table[c].parent = s
  BY DEF Kids
<1>3. PICK q \in Payload : q.id = c /\ q.parent = s /\ q.trace = table[c].trace
  BY <1>2 DEF FromPayload
<1> QED
  BY <1>1, <1>3, FamilyAssumption

LEMMA SentAgain ==
  ASSUME FromPayload(spans), NEW p \in Payload, p.id \in Stored(spans)
  PROVE  spans[p.id].trace = p.trace
<1>1. PICK q \in Payload : q.id = p.id /\ q.trace = spans[p.id].trace
  BY DEF FromPayload
<1> QED
  BY <1>1, FamilyAssumption

\* A span on the way up from a span's parent is not the span itself.
LEMMA NotAboveItself ==
  ASSUME NEW table, SpanTable(table), NEW rank, Ranks(rank, table), NEW x \in Stored(table)
  PROVE  x \notin Ancestors(table, table[x].parent) /\ table[x].parent # x
<1>1. \A y \in Stored(table) : rank[y] \in Nat
  BY DEF SpanTable, Stored, Ranks
<1>2. table[x].parent # x
  BY <1>1 DEF Ranks
<1>3. ASSUME x \in Ancestors(table, table[x].parent) PROVE FALSE
  <2>1. table[x].parent \in Stored(table)
    BY <1>3, NoAncestors
  <2>2. rank[x] <= rank[table[x].parent] /\ rank[table[x].parent] < rank[x]
    BY <1>3, <2>1, AncestorsRank DEF Ranks
  <2> QED
    BY <1>1, <2>1, <2>2
<1> QED
  BY <1>2, <1>3

AddsUp(table) ==
  \A s \in Stored(table) : table[s].sum = table[s].own + Total(table, Kids(table, s))

LEMMA CountsAddUpIs == CountsAddUp <=> AddsUp(spans)
BY ChildrenAreKids DEF CountsAddUp, AddsUp

LEMMA InsertAddsUp ==
  ASSUME TypeOK, FromPayload(spans), AddsUp(spans), NEW p \in Payload,
         NEW project \in Projects, InsertSpan(p, project)
  PROVE  AddsUp(spans')
<1>1. CASE spans[p.id] # None
  <2>1. spans' = spans
    BY <1>1 DEF InsertSpan
  <2> QED
    BY <2>1
<1>2. CASE spans[p.id] = None
  <2> DEFINE T == WithNew(p)
             n == SumFor(p)
             q == p.parent
             A == Ancestors(T, q)
  <2>1. /\ n \in Int /\ n = p.count + Total(spans, Kids(spans, p.id))
        /\ SpanTable(T) /\ FromPayload(T)
        /\ Stored(T) = Stored(spans) \cup {p.id} /\ p.id \notin Stored(spans)
        /\ T[p.id] = NewRow(p) /\ \A s \in Stored(spans) : T[s] = spans[s]
    BY <1>2, TableWithNew
  <2>2. spans' = AddToAncestors(T, q, n)
    BY <1>2 DEF InsertSpan, WithNew, NewRow
  <2>3. PICK rank : Ranks(rank, T)
    BY <2>1, SentSpansRank
  <2>4. T[p.id].parent = q /\ T[p.id].own = p.count /\ T[p.id].sum = n
    BY <2>1 DEF NewRow
  <2> HIDE DEF T, n, q
  <2>5. p.id \notin A /\ q # p.id
    BY <2>1, <2>3, <2>4, NotAboveItself
  <2>6. q \in Stored(T) => q \in A
    BY AncestorsClosed
  <2> HIDE DEF A
  <2>7. SpanTable(spans') /\ Stored(spans') = Stored(T)
    BY <2>1, <2>2, <2>3, CountsMoveUp
  <2>8. \A s \in Stored(T) :
          /\ spans'[s].own = T[s].own /\ spans'[s].parent = T[s].parent
          /\ spans'[s].sum = T[s].sum + (IF s \in A THEN n ELSE 0)
          /\ Total(spans', Kids(T, s))
               = Total(T, Kids(T, s)) + (IF s \in A /\ s # q THEN n ELSE 0)
    BY <2>1, <2>2, <2>3, CountsMoveUp DEF A
  <2> SUFFICES ASSUME NEW s \in Stored(T)
               PROVE  spans'[s].sum = spans'[s].own + Total(spans', Kids(spans', s))
    BY <2>7 DEF AddsUp
  <2>9. Kids(spans', s) = Kids(T, s)
    BY <2>7, <2>8 DEF Kids
  <2>10. /\ Summable(T, Kids(T, s)) /\ Total(T, Kids(T, s)) \in Int
         /\ Summable(spans, Kids(spans, s)) /\ Total(spans, Kids(spans, s)) \in Int
    BY <2>1, KidsAreSummable, TotalIsInt DEF TypeOK, SpanTable
  <2>11. T[s].sum \in Int /\ T[s].own \in Int
    <3>1. T[s] \in SpanRows
      BY <2>1 DEF SpanTable, Stored
    <3> QED
      BY <3>1 DEF SpanRows
  <2>12. Kids(T, s) = IF s = q THEN Kids(spans, s) \cup {p.id} ELSE Kids(spans, s)
    BY <2>1, <2>4 DEF Kids
  <2>13. \A c \in Kids(spans, s) : T[c].sum = spans[c].sum /\ c # p.id
    BY <2>1 DEF Kids
  <2>14. CASE s = p.id
    <3>1. Total(T, Kids(T, s)) = Total(spans, Kids(spans, s))
      BY <2>5, <2>10, <2>12, <2>13, <2>14, TotalSame DEF Summable
    <3> QED
      BY <2>1, <2>4, <2>5, <2>8, <2>9, <2>10, <2>11, <2>14, <3>1
  <2>15. CASE s # p.id /\ s = q
    <3>1. Total(T, Kids(T, s)) = Total(spans, Kids(spans, s)) + n
      <4>1. T[p.id].sum \in Int /\ p.id \notin Kids(spans, s)
        BY <2>1, <2>4, <2>13
      <4>2. Total(T, Kids(spans, s) \cup {p.id}) = Total(spans, Kids(spans, s)) + T[p.id].sum
        BY <2>10, <2>13, <4>1, TotalWith
      <4> QED
        BY <2>4, <2>12, <2>15, <4>2
    <3>2. T[s].sum = T[s].own + Total(spans, Kids(spans, s))
      BY <2>1, <2>15 DEF AddsUp
    <3> QED
      BY <2>1, <2>6, <2>8, <2>9, <2>10, <2>11, <2>15, <3>1, <3>2
  <2>16. CASE s # p.id /\ s # q
    <3>1. Total(T, Kids(T, s)) = Total(spans, Kids(spans, s))
      BY <2>10, <2>12, <2>13, <2>16, TotalSame DEF Summable
    <3>2. T[s].sum = T[s].own + Total(spans, Kids(spans, s))
      BY <2>1, <2>16 DEF AddsUp
    <3>3. Total(spans', Kids(spans', s))
            = Total(spans, Kids(spans, s)) + (IF s \in A THEN n ELSE 0)
      BY <2>8, <2>9, <2>16, <3>1
    <3> QED
      BY <2>1, <2>8, <2>10, <2>11, <3>2, <3>3
  <2> QED
    BY <2>14, <2>15, <2>16
<1> QED
  BY <1>1, <1>2

LEMMA InsertHoldsSpans ==
  ASSUME TypeOK, FromPayload(spans), TracesHoldSpans, NEW p \in Payload,
         NEW project \in Projects, InsertSpan(p, project)
  PROVE  TracesHoldSpans'
<1> DEFINE row == TraceFor(p, project)
           u == row.session
<1>1. /\ row \in TraceRows /\ row.start <= p.start /\ p.end <= row.end
      /\ p.trace \in Traces /\ p.id \in SpanIds
      /\ traces[p.trace] # None =>
           /\ row.start <= traces[p.trace].start /\ traces[p.trace].end <= row.end
  BY TraceRowWritten, SentFields
<1>2. /\ traces' = [traces EXCEPT ![p.trace] = row]
      /\ u = None => sessions' = sessions
      /\ u # None => sessions' = [sessions EXCEPT ![u] = SessionFor(row, p)]
  BY DEF InsertSpan
<1> HIDE DEF row
<1>3. u # None =>
        /\ u \in Sessions /\ SessionFor(row, p).start <= row.start
        /\ row.end <= SessionFor(row, p).end /\ SessionFor(row, p) \in SessionRows
        /\ sessions[u] # None => /\ SessionFor(row, p).start <= sessions[u].start
                                 /\ sessions[u].end <= SessionFor(row, p).end
  <2>1. row.session # None => row.session \in Sessions
    BY <1>1 DEF TraceRows
  <2> QED
    BY <1>1, <2>1, SessionRowWritten
<1>4. /\ traces'[p.trace] = row /\ row # None
      /\ \A t \in Traces \ {p.trace} : traces'[t] = traces[t]
      /\ Stored(traces') = Stored(traces) \cup {p.trace}
  <2>1. /\ traces'[p.trace] = row
        /\ \A t \in Traces \ {p.trace} : traces'[t] = traces[t]
        /\ DOMAIN traces = Traces /\ DOMAIN traces' = Traces
    BY <1>1, <1>2 DEF TypeOK
  <2>2. row # None
    BY <1>1, NoneAssumption
  <2> QED
    BY <1>1, <2>1, <2>2 DEF Stored
<1>5. \A s \in Stored(spans') :
        \/ s \in Stored(spans) /\ SameSpan(spans'[s], spans[s])
        \/ s = p.id /\ spans[p.id] = None /\ SameSpan(spans'[s], NewRow(p))
  <2>1. p.id \notin Stored(spans) => spans[p.id] = None
    BY <1>1 DEF TypeOK, Stored
  <2> QED
    BY <2>1, SpansAfterInsert
<1>6. \A s \in Stored(spans) : /\ spans[s] \in SpanRows /\ spans[s].trace \in Stored(traces)
                               /\ traces[spans[s].trace] \in TraceRows
  <2> SUFFICES ASSUME NEW s \in Stored(spans)
               PROVE  /\ spans[s] \in SpanRows /\ spans[s].trace \in Stored(traces)
                      /\ traces[spans[s].trace] \in TraceRows
    OBVIOUS
  <2>1. spans[s] \in SpanRows
    BY DEF TypeOK, Stored
  <2>2. spans[s].trace \in Traces
    BY <2>1 DEF SpanRows
  <2> QED
    BY <2>1, <2>2 DEF TypeOK, Stored
<1>7. ASSUME NEW t \in Stored(traces') PROVE SpansOf(t)' # {}
  <2>1. CASE t = p.trace
    <3>1. p.id \in Stored(spans') /\ spans'[p.id].trace = p.trace
      <4>1. p.id \in Stored(spans')
        BY SpansAfterInsert
      <4>2. p.id \in Stored(spans) => spans[p.id].trace = p.trace
        BY SentAgain
      <4> QED
        BY <1>5, <4>1, <4>2 DEF SameSpan, NewRow
    <3> QED
      BY <2>1, <3>1 DEF SpansOf
  <2>2. CASE t # p.trace
    <3>1. PICK s \in Stored(spans) : spans[s].trace = t
      BY <1>4, <2>2 DEF TracesHoldSpans, SpansOf
    <3>2. s \in Stored(spans') /\ spans'[s].trace = t
      BY <3>1, SpansAfterInsert DEF SameSpan
    <3> QED
      BY <3>2 DEF SpansOf
  <2> QED
    BY <2>1, <2>2
<1>8. ASSUME NEW s \in Stored(spans')
      PROVE  /\ traces'[spans'[s].trace].start <= spans'[s].start
             /\ spans'[s].end <= traces'[spans'[s].trace].end
  <2>1. CASE s = p.id /\ SameSpan(spans'[s], NewRow(p))
    BY <1>1, <1>4, <2>1 DEF SameSpan, NewRow
  <2>2. CASE s \in Stored(spans) /\ SameSpan(spans'[s], spans[s])
    <3> DEFINE t == spans[s].trace
    <3>1. /\ traces[t].start <= spans[s].start /\ spans[s].end <= traces[t].end
          /\ traces[t].start \in Int /\ traces[t].end \in Int
          /\ spans[s].start \in Int /\ spans[s].end \in Int
          /\ t \in Traces /\ traces[t] # None
      <4>1. traces[t].start <= spans[s].start /\ spans[s].end <= traces[t].end
        BY <2>2 DEF TracesHoldSpans
      <4>2. spans[s] \in SpanRows /\ traces[t] \in TraceRows /\ t \in Stored(traces)
        BY <1>6, <2>2
      <4>3. t \in Traces /\ traces[t] # None
        BY <4>2 DEF Stored, TypeOK
      <4> QED
        BY <4>1, <4>2, <4>3, RowTimes
    <3>2. spans'[s].trace = t /\ spans'[s].start = spans[s].start /\ spans'[s].end = spans[s].end
      BY <2>2 DEF SameSpan
    <3> HIDE DEF t
    <3>3. CASE t # p.trace
      BY <1>4, <3>1, <3>2, <3>3
    <3>4. CASE t = p.trace
      <4>1. row.start \in Int /\ row.end \in Int
        BY <1>1, RowTimes
      <4>2. row.start <= traces[t].start /\ traces[t].end <= row.end /\ traces'[t] = row
        BY <1>1, <1>4, <3>1, <3>4
      <4> QED
        BY <3>1, <3>2, <4>1, <4>2
    <3> QED
      BY <3>3, <3>4
  <2> QED
    BY <1>5, <2>1, <2>2
<1>9. ASSUME NEW t \in Stored(traces'), traces'[t].session # None
      PROVE  /\ sessions'[traces'[t].session].start <= traces'[t].start
             /\ traces'[t].end <= sessions'[traces'[t].session].end
  <2>1. CASE t = p.trace
    <3>1. traces'[t] = row /\ u # None
      BY <1>4, <1>9, <2>1
    <3>2. sessions'[u] = SessionFor(row, p)
      BY <1>2, <1>3, <3>1 DEF TypeOK
    <3> QED
      BY <1>3, <3>1, <3>2
  <2>2. CASE t # p.trace
    <3> DEFINE v == traces[t].session
    <3>1. t \in Stored(traces) /\ traces'[t] = traces[t] /\ t \in Traces /\ v # None
      BY <1>4, <1>9, <2>2 DEF TypeOK, Stored
    <3>2. traces[t] \in TraceRows /\ v \in Sessions /\ sessions[v] \in SessionRows
          /\ sessions[v] # None
      <4>1. traces[t] \in TraceRows /\ sessions[v] # None
        BY <3>1 DEF TypeOK, Stored
      <4>2. v \in Sessions
        BY <3>1, <4>1 DEF TraceRows
      <4> QED
        BY <4>1, <4>2 DEF TypeOK
    <3>3. /\ sessions[v].start <= traces[t].start /\ traces[t].end <= sessions[v].end
          /\ sessions[v].start \in Int /\ sessions[v].end \in Int
          /\ traces[t].start \in Int /\ traces[t].end \in Int
      <4>1. sessions[v].start <= traces[t].start /\ traces[t].end <= sessions[v].end
        BY <3>1 DEF TracesHoldSpans
      <4> QED
        BY <3>2, <4>1, RowTimes
    <3> HIDE DEF v
    <3>4. traces'[t].session = v
      BY <3>1 DEF v
    <3>5. CASE v # u \/ u = None
      <4>1. sessions'[v] = sessions[v]
        BY <1>2, <1>3, <3>2, <3>5 DEF TypeOK
      <4> QED
        BY <3>1, <3>3, <3>4, <4>1
    <3>6. CASE v = u /\ u # None
      <4> DEFINE z == SessionFor(row, p)
      <4>1. sessions'[v] = z
        BY <1>2, <1>3, <3>6 DEF TypeOK
      <4>2. z.start <= sessions[v].start /\ sessions[v].end <= z.end
        BY <1>3, <3>2, <3>6
      <4>3. z.start \in Int /\ z.end \in Int
        BY <1>3, <3>6, RowTimes
      <4> HIDE DEF z
      <4> QED
        BY <3>1, <3>3, <3>4, <4>1, <4>2, <4>3
    <3> QED
      BY <3>5, <3>6
  <2> QED
    BY <2>1, <2>2
<1> QED
  BY <1>7, <1>8, <1>9 DEF TracesHoldSpans

-----------------------------------------------------------------------------
(* Deletions and moves *)

Lost(T, U) == T \cup {t \in Stored(traces) : traces[t].session \in U}

\* What is left after RemoveRows is as it was.
LEMMA WhatIsLeft ==
  ASSUME TypeOK, NEW T, NEW U, RemoveRows(T, U)
  PROVE  /\ traces' \in [Traces -> TraceRows \cup {None}]
         /\ sessions' \in [Sessions -> SessionRows \cup {None}]
         /\ SpanTable(spans')
         /\ Stored(traces') = Stored(traces) \ Lost(T, U)
         /\ Stored(sessions') = Stored(sessions) \ U
         /\ Stored(spans') = {s \in Stored(spans) : spans[s].trace \notin Lost(T, U)}
         /\ \A t \in Stored(traces') : traces'[t] = traces[t]
         /\ \A u \in Stored(sessions') : sessions'[u] = sessions[u]
         /\ \A s \in Stored(spans') : spans'[s] = spans[s]
<1>1. /\ traces' = [t \in Traces |-> IF t \in Lost(T, U) THEN None ELSE traces[t]]
      /\ sessions' = [u \in Sessions |-> IF u \in U THEN None ELSE sessions[u]]
      /\ spans' = [s \in SpanIds |->
           IF spans[s] # None /\ spans[s].trace \in Lost(T, U) THEN None ELSE spans[s]]
  BY DEF RemoveRows, Lost
<1>2. traces' \in [Traces -> TraceRows \cup {None}]
  BY <1>1 DEF TypeOK
<1>3. sessions' \in [Sessions -> SessionRows \cup {None}]
  BY <1>1 DEF TypeOK
<1>4. SpanTable(spans')
  BY <1>1 DEF TypeOK, SpanTable
<1>5. /\ Stored(traces') = Stored(traces) \ Lost(T, U)
      /\ \A t \in Stored(traces') : traces'[t] = traces[t]
  BY <1>1 DEF TypeOK, Stored
<1>6. /\ Stored(sessions') = Stored(sessions) \ U
      /\ \A u \in Stored(sessions') : sessions'[u] = sessions[u]
  BY <1>1 DEF TypeOK, Stored
<1>7. /\ Stored(spans') = {s \in Stored(spans) : spans[s].trace \notin Lost(T, U)}
      /\ \A s \in Stored(spans') : spans'[s] = spans[s]
  BY <1>1 DEF TypeOK, Stored
<1> QED
  BY <1>2, <1>3, <1>4, <1>5, <1>6, <1>7

LEMMA RowFields ==
  ASSUME TypeOK
  PROVE  /\ \A t \in Stored(traces) : /\ t \in Traces /\ traces[t] \in TraceRows
                                      /\ traces[t].session \in Sessions \cup {None}
                                      /\ traces[t].session # None =>
                                           traces[t].session \in Stored(sessions)
         /\ \A u \in Stored(sessions) : u \in Sessions /\ sessions[u] \in SessionRows
         /\ \A s \in Stored(spans) : /\ s \in SpanIds /\ spans[s] \in SpanRows
                                     /\ spans[s].trace \in Stored(traces)
                                     /\ spans[s].sum \in Int /\ spans[s].own \in Int
<1>1. ASSUME NEW t \in Stored(traces)
      PROVE  /\ t \in Traces /\ traces[t] \in TraceRows
             /\ traces[t].session \in Sessions \cup {None}
             /\ traces[t].session # None => traces[t].session \in Stored(sessions)
  <2>1. t \in Traces /\ traces[t] \in TraceRows
    BY DEF TypeOK, Stored
  <2>2. traces[t].session \in Sessions \cup {None}
    BY <2>1 DEF TraceRows
  <2>3. traces[t].session # None => sessions[traces[t].session] # None
    BY DEF TypeOK
  <2> QED
    BY <2>1, <2>2, <2>3 DEF TypeOK, Stored
<1>2. ASSUME NEW u \in Stored(sessions) PROVE u \in Sessions /\ sessions[u] \in SessionRows
  BY DEF TypeOK, Stored
<1>3. ASSUME NEW s \in Stored(spans)
      PROVE  /\ s \in SpanIds /\ spans[s] \in SpanRows /\ spans[s].trace \in Stored(traces)
             /\ spans[s].sum \in Int /\ spans[s].own \in Int
  <2>1. s \in SpanIds /\ spans[s] \in SpanRows
    BY DEF TypeOK, Stored
  <2>2. spans[s].trace \in Traces /\ spans[s].sum \in Int /\ spans[s].own \in Int
    BY <2>1 DEF SpanRows
  <2>3. traces[spans[s].trace] # None
    BY DEF TypeOK
  <2> QED
    BY <2>1, <2>2, <2>3 DEF TypeOK, Stored
<1> QED
  BY <1>1, <1>2, <1>3

\* Rows go with what they hang on; a project goes only with all that is in it.
LEMMA RemoveKeeps ==
  ASSUME TypeOK, FromPayload(spans), TracesHoldSpans, AddsUp(spans), NEW T, NEW U,
         RemoveRows(T, U), projects' \subseteq projects, event' \subseteq Projects,
         \A t \in Stored(traces) : traces[t].project \notin projects' => t \in Lost(T, U),
         \A u \in Stored(sessions) : sessions[u].project \notin projects' => u \in U
  PROVE  TypeOK' /\ FromPayload(spans') /\ TracesHoldSpans' /\ AddsUp(spans')
<1> DEFINE lost == Lost(T, U)
<1>1. /\ traces' \in [Traces -> TraceRows \cup {None}]
      /\ sessions' \in [Sessions -> SessionRows \cup {None}]
      /\ SpanTable(spans')
      /\ Stored(traces') = Stored(traces) \ lost
      /\ Stored(sessions') = Stored(sessions) \ U
      /\ Stored(spans') = {s \in Stored(spans) : spans[s].trace \notin lost}
      /\ \A t \in Stored(traces') : traces'[t] = traces[t]
      /\ \A u \in Stored(sessions') : sessions'[u] = sessions[u]
      /\ \A s \in Stored(spans') : spans'[s] = spans[s]
  BY WhatIsLeft
<1>2. \A t \in Stored(traces) : traces[t].session \in U => t \in lost
  BY DEF Lost
<1> HIDE DEF lost
<1>3. \A t \in Stored(traces') : traces'[t].session # None =>
        /\ traces[t].session \in Stored(sessions')
        /\ sessions'[traces[t].session] = sessions[traces[t].session]
  BY <1>1, <1>2, RowFields
<1>4. TypeOK'
  <2>1. projects' \subseteq Projects
    BY DEF TypeOK
  <2>2. \A t \in Stored(traces') : traces'[t].project \in projects'
    BY <1>1 DEF lost
  <2>3. \A u \in Stored(sessions') : sessions'[u].project \in projects'
    BY <1>1
  <2>4. \A t \in Stored(traces') :
          traces'[t].session # None => sessions'[traces'[t].session] # None
    BY <1>1, <1>3 DEF Stored
  <2>5. \A s \in Stored(spans') : traces'[spans'[s].trace] # None
    <3>1. \A s \in Stored(spans') : spans'[s].trace \in Stored(traces')
      BY <1>1, RowFields
    <3> QED
      BY <3>1 DEF Stored
  <2> QED
    BY <1>1, <2>1, <2>2, <2>3, <2>4, <2>5 DEF TypeOK, SpanTable
<1>5. FromPayload(spans')
  BY <1>1 DEF FromPayload
<1>6. TracesHoldSpans'
  <2>1. ASSUME NEW t \in Stored(traces') PROVE SpansOf(t)' # {}
    <3>1. PICK s \in Stored(spans) : spans[s].trace = t
      BY <1>1 DEF TracesHoldSpans, SpansOf
    <3>2. s \in Stored(spans') /\ spans'[s].trace = t
      BY <1>1, <3>1
    <3> QED
      BY <3>2 DEF SpansOf
  <2>2. ASSUME NEW s \in Stored(spans')
        PROVE  /\ traces'[spans'[s].trace].start <= spans'[s].start
               /\ spans'[s].end <= traces'[spans'[s].trace].end
    <3>1. spans'[s] = spans[s] /\ s \in Stored(spans)
      BY <1>1
    <3>2. traces'[spans[s].trace] = traces[spans[s].trace]
      BY <1>1, RowFields
    <3> QED
      BY <3>1, <3>2 DEF TracesHoldSpans
  <2>3. ASSUME NEW t \in Stored(traces'), traces'[t].session # None
        PROVE  /\ sessions'[traces'[t].session].start <= traces'[t].start
               /\ traces'[t].end <= sessions'[traces'[t].session].end
    <3>1. traces'[t] = traces[t] /\ t \in Stored(traces)
      BY <1>1
    <3>2. sessions'[traces[t].session] = sessions[traces[t].session]
      BY <1>3, <2>3
    <3> QED
      BY <2>3, <3>1, <3>2 DEF TracesHoldSpans
  <2> QED
    BY <2>1, <2>2, <2>3 DEF TracesHoldSpans
<1>7. AddsUp(spans')
  <2> SUFFICES ASSUME NEW s \in Stored(spans')
               PROVE  spans'[s].sum = spans'[s].own + Total(spans', Kids(spans', s))
    BY DEF AddsUp
  <2>1. s \in Stored(spans) /\ spans'[s] = spans[s]
    BY <1>1
  <2>2. Kids(spans', s) = Kids(spans, s)
    <3>1. \A c \in Kids(spans, s) : spans[c].trace = spans[s].trace
      BY <2>1, KidsShareTrace
    <3> QED
      BY <1>1, <2>1, <3>1 DEF Kids
  <2>3. IsFiniteSet(Kids(spans, s))
    BY KidsAreSummable DEF TypeOK, SpanTable, Summable
  <2>4. \A c \in Kids(spans', s) : spans[c].sum = spans'[c].sum
    BY <1>1 DEF Kids
  <2>5. Total(spans, Kids(spans', s)) = Total(spans', Kids(spans', s))
    BY <2>2, <2>3, <2>4, TotalSame
  <2> QED
    BY <2>1, <2>2, <2>5 DEF AddsUp
<1> QED
  BY <1>4, <1>5, <1>6, <1>7

Without(x) == [spans EXCEPT ![x] = None]

LEMMA TableWithout ==
  ASSUME TypeOK, FromPayload(spans), NEW x \in Stored(spans)
  PROVE  /\ SpanTable(Without(x)) /\ FromPayload(Without(x))
         /\ Stored(Without(x)) = Stored(spans) \ {x}
         /\ \A s \in Stored(spans) \ {x} : Without(x)[s] = spans[s]
<1> DEFINE T == Without(x)
<1>1. x \in SpanIds /\ DOMAIN spans = SpanIds
  BY DEF TypeOK, Stored
<1>2. T[x] = None /\ DOMAIN T = SpanIds /\ \A s \in SpanIds \ {x} : T[s] = spans[s]
  BY <1>1 DEF Without
<1>3. SpanTable(T)
  <2>1. \A s \in SpanIds : T[s] \in SpanRows \cup {None}
    BY <1>2 DEF TypeOK
  <2> QED
    BY <1>1, <2>1 DEF SpanTable, Without
<1> HIDE DEF T
<1>4. Stored(T) = Stored(spans) \ {x} /\ \A s \in Stored(spans) \ {x} : T[s] = spans[s]
  BY <1>1, <1>2 DEF Stored
<1>5. FromPayload(T)
  BY <1>4 DEF FromPayload
<1> QED
  BY <1>3, <1>4, <1>5 DEF T

LastOfTrace(x) == SpansOf(spans[x].trace) = {x}

LEMMA SpansAfterDelete ==
  ASSUME TypeOK, FromPayload(spans), NEW x \in Stored(spans), DeleteSpan(x)
  PROVE  /\ SpanTable(spans') /\ FromPayload(spans')
         /\ Stored(spans') = Stored(spans) \ {x}
         /\ \A s \in Stored(spans') : SameSpan(spans'[s], spans[s])
<1> DEFINE T == Without(x)
<1>1. /\ SpanTable(T) /\ FromPayload(T) /\ Stored(T) = Stored(spans) \ {x}
      /\ \A s \in Stored(spans) \ {x} : T[s] = spans[s]
  BY TableWithout
<1>2. CASE LastOfTrace(x)
  <2>1. spans' = T
    BY <1>2 DEF DeleteSpan, LastOfTrace, Without
  <2> HIDE DEF T
  <2> QED
    BY <1>1, <2>1 DEF SameSpan
<1>3. CASE ~ LastOfTrace(x)
  <2>1. spans' = AddToAncestors(T, spans[x].parent, - spans[x].sum)
    BY <1>3 DEF DeleteSpan, LastOfTrace, Without
  <2>2. - spans[x].sum \in Int
    BY RowFields
  <2>3. PICK rank : Ranks(rank, T)
    BY <1>1, SentSpansRank
  <2> HIDE DEF T
  <2>4. /\ SpanTable(spans') /\ Stored(spans') = Stored(T)
        /\ \A s \in Stored(T) : SameSpan(spans'[s], T[s])
    BY <1>1, <2>1, <2>2, <2>3, CountsMoveUp DEF SameSpan
  <2>5. FromPayload(spans')
    BY <1>1, <2>4 DEF FromPayload, SameSpan
  <2> QED
    BY <1>1, <2>4, <2>5
<1> QED
  BY <1>2, <1>3

LEMMA DeleteAddsUp ==
  ASSUME TypeOK, FromPayload(spans), AddsUp(spans), NEW x \in Stored(spans), DeleteSpan(x)
  PROVE  AddsUp(spans')
<1> DEFINE T == Without(x)
           q == spans[x].parent
           n == - spans[x].sum
           A == Ancestors(T, q)
<1>1. /\ SpanTable(T) /\ FromPayload(T) /\ Stored(T) = Stored(spans) \ {x}
      /\ \A s \in Stored(spans) \ {x} : T[s] = spans[s]
  BY TableWithout
<1>2. n \in Int /\ n = - spans[x].sum /\ spans[x].sum \in Int
  BY RowFields
<1>3. PICK rank : Ranks(rank, T)
  BY <1>1, SentSpansRank
<1>4. \A s \in Stored(T) : Kids(T, s) = Kids(spans, s) \ {x} /\ (s # q => x \notin Kids(spans, s))
  <2> HIDE DEF T
  <2> QED
    BY <1>1 DEF Kids
<1>5. q \in Stored(T) => q \in A
  BY AncestorsClosed
<1> HIDE DEF T, A
<1>6. ASSUME NEW s \in Stored(T)
      PROVE  /\ T[s].sum = T[s].own + Total(spans, Kids(spans, s))
             /\ T[s].sum \in Int /\ T[s].own \in Int
             /\ Total(T, Kids(T, s)) \in Int
             /\ Total(spans, Kids(spans, s))
                  = Total(T, Kids(T, s)) + (IF s = q THEN spans[x].sum ELSE 0)
  <2>1. s \in Stored(spans) /\ T[s] = spans[s]
    BY <1>1
  <2>2. /\ Summable(spans, Kids(spans, s)) /\ IsFiniteSet(Kids(T, s))
        /\ Total(T, Kids(T, s)) \in Int
    BY <1>1, KidsAreSummable, TotalIsInt DEF TypeOK, SpanTable, Summable
  <2>3. \A c \in Kids(T, s) : T[c].sum = spans[c].sum
    BY <1>1 DEF Kids
  <2>4. Total(T, Kids(T, s)) = Total(spans, Kids(T, s))
    BY <2>2, <2>3, TotalSame
  <2>5. CASE s = q
    <3>1. x \in Kids(spans, s)
      BY <2>5 DEF Kids
    <3>2. Total(spans, Kids(spans, s)) = spans[x].sum + Total(spans, Kids(spans, s) \ {x})
      BY <2>2, <3>1, TotalWithout
    <3>3. Total(spans, Kids(spans, s) \ {x}) = Total(T, Kids(T, s))
      BY <1>4, <2>4
    <3> QED
      BY <1>2, <2>1, <2>2, <2>5, <3>2, <3>3, RowFields DEF AddsUp
  <2>6. CASE s # q
    <3>1. Kids(T, s) = Kids(spans, s)
      BY <1>4, <2>6
    <3>2. Total(spans, Kids(spans, s)) = Total(T, Kids(T, s))
      BY <2>4, <3>1
    <3> QED
      BY <2>1, <2>2, <2>6, <3>2, RowFields DEF AddsUp
  <2> QED
    BY <2>5, <2>6
<1> HIDE DEF q, n
<1>7. CASE LastOfTrace(x)
  <2>1. spans' = T
    BY <1>7 DEF DeleteSpan, LastOfTrace, Without, T
  <2>2. q \notin Stored(T)
    <3>1. SUFFICES ASSUME q \in Stored(T) PROVE FALSE
      OBVIOUS
    <3>2. q \in Stored(spans) /\ q # x /\ x \in Kids(spans, q)
      BY <1>1, <3>1 DEF Kids, q
    <3>3. spans[q].trace = spans[x].trace
      BY <3>2, KidsShareTrace
    <3> QED
      BY <1>7, <3>2, <3>3 DEF LastOfTrace, SpansOf
  <2> QED
    BY <1>6, <2>1, <2>2 DEF AddsUp
<1>8. CASE ~ LastOfTrace(x)
  <2>1. spans' = AddToAncestors(T, q, n)
    BY <1>8 DEF DeleteSpan, LastOfTrace, Without, T, q, n
  <2>2. SpanTable(spans') /\ Stored(spans') = Stored(T)
    BY <1>1, <1>2, <1>3, <2>1, CountsMoveUp
  <2>3. \A s \in Stored(T) :
          /\ spans'[s].own = T[s].own /\ spans'[s].parent = T[s].parent
          /\ spans'[s].sum = T[s].sum + (IF s \in A THEN n ELSE 0)
          /\ Total(spans', Kids(T, s))
               = Total(T, Kids(T, s)) + (IF s \in A /\ s # q THEN n ELSE 0)
    BY <1>1, <1>2, <1>3, <2>1, CountsMoveUp DEF A
  <2> SUFFICES ASSUME NEW s \in Stored(T)
               PROVE  spans'[s].sum = spans'[s].own + Total(spans', Kids(spans', s))
    BY <2>2 DEF AddsUp
  <2>4. Kids(spans', s) = Kids(T, s)
    BY <2>2, <2>3 DEF Kids
  <2>5. CASE s = q
    BY <1>2, <1>5, <1>6, <2>3, <2>4, <2>5
  <2>6. CASE s # q
    BY <1>2, <1>6, <2>3, <2>4, <2>6
  <2> QED
    BY <2>5, <2>6
<1> QED
  BY <1>7, <1>8

\* The last span of a trace takes the trace's row along; its session stays.
LEMMA DeleteSpanKeeps ==
  ASSUME TypeOK, FromPayload(spans), TracesHoldSpans, NEW x \in Stored(spans), DeleteSpan(x)
  PROVE  TypeOK' /\ TracesHoldSpans'
<1> DEFINE gone == IF LastOfTrace(x) THEN {spans[x].trace} ELSE {}
<1>1. /\ SpanTable(spans') /\ Stored(spans') = Stored(spans) \ {x}
      /\ \A s \in Stored(spans') : SameSpan(spans'[s], spans[s])
  BY SpansAfterDelete
<1>2. /\ projects' = projects /\ sessions' = sessions
      /\ LastOfTrace(x) => traces' = [traces EXCEPT ![spans[x].trace] = None]
      /\ ~ LastOfTrace(x) => traces' = traces
  BY DEF DeleteSpan, LastOfTrace
<1>3. spans[x].trace \in Traces /\ DOMAIN traces = Traces
  BY RowFields DEF TypeOK
<1>4. /\ Stored(traces') = Stored(traces) \ gone
      /\ \A t \in Stored(traces') : traces'[t] = traces[t]
      /\ traces' \in [Traces -> TraceRows \cup {None}]
  <2>1. CASE LastOfTrace(x)
    <3>1. traces' = [traces EXCEPT ![spans[x].trace] = None]
      BY <1>2, <2>1
    <3>2. traces'[spans[x].trace] = None /\ DOMAIN traces' = Traces
          /\ \A t \in Traces \ {spans[x].trace} : traces'[t] = traces[t]
      BY <1>3, <3>1
    <3>3. traces' \in [Traces -> TraceRows \cup {None}]
      BY <1>3, <3>1 DEF TypeOK
    <3> QED
      BY <1>3, <2>1, <3>2, <3>3 DEF Stored
  <2>2. CASE ~ LastOfTrace(x)
    BY <1>2, <2>2 DEF TypeOK
  <2> QED
    BY <2>1, <2>2
<1>5. \A s \in Stored(spans') : /\ s \in Stored(spans)
                                /\ spans'[s].trace = spans[s].trace
                                /\ spans[s].trace \in Stored(traces')
  <2> SUFFICES ASSUME NEW s \in Stored(spans')
               PROVE  /\ s \in Stored(spans) /\ spans'[s].trace = spans[s].trace
                      /\ spans[s].trace \in Stored(traces')
    OBVIOUS
  <2>1. s \in Stored(spans) /\ s # x /\ spans'[s].trace = spans[s].trace
    BY <1>1 DEF SameSpan
  <2>2. spans[s].trace \in Stored(traces)
    BY <2>1, RowFields
  <2>3. LastOfTrace(x) => spans[s].trace # spans[x].trace
    BY <2>1 DEF LastOfTrace, SpansOf
  <2> QED
    BY <1>4, <2>1, <2>2, <2>3
<1>6. event' \subseteq Projects
  BY DEF DeleteSpan, TypeOK
<1>7. TypeOK'
  <2>1. \A t \in Stored(traces') :
          /\ traces'[t].project \in projects'
          /\ traces'[t].session # None => sessions'[traces'[t].session] # None
    BY <1>2, <1>4 DEF TypeOK
  <2>2. \A u \in Stored(sessions') : sessions'[u].project \in projects'
    BY <1>2 DEF TypeOK
  <2>3. \A s \in Stored(spans') : traces'[spans'[s].trace] # None
    BY <1>5 DEF Stored
  <2>4. projects' \subseteq Projects /\ sessions' \in [Sessions -> SessionRows \cup {None}]
    BY <1>2 DEF TypeOK
  <2> QED
    BY <1>1, <1>4, <1>6, <2>1, <2>2, <2>3, <2>4 DEF TypeOK, SpanTable
<1>8. TracesHoldSpans'
  <2>1. ASSUME NEW t \in Stored(traces') PROVE SpansOf(t)' # {}
    <3>1. SpansOf(t) # {} /\ t \in Stored(traces)
      BY <1>4 DEF TracesHoldSpans
    <3>2. PICK s \in SpansOf(t) : s # x
      <4>1. CASE t = spans[x].trace
        <5>1. ~ LastOfTrace(x)
          BY <1>4, <4>1
        <5> QED
          BY <3>1, <4>1, <5>1 DEF LastOfTrace
      <4>2. CASE t # spans[x].trace
        BY <3>1, <4>2 DEF SpansOf
      <4> QED
        BY <4>1, <4>2
    <3>3. s \in Stored(spans') /\ spans'[s].trace = t
      BY <1>1, <3>2 DEF SpansOf, SameSpan
    <3> QED
      BY <3>3 DEF SpansOf
  <2>2. ASSUME NEW s \in Stored(spans')
        PROVE  /\ traces'[spans'[s].trace].start <= spans'[s].start
               /\ spans'[s].end <= traces'[spans'[s].trace].end
    BY <1>1, <1>4, <1>5 DEF TracesHoldSpans, SameSpan
  <2>3. ASSUME NEW t \in Stored(traces'), traces'[t].session # None
        PROVE  /\ sessions'[traces'[t].session].start <= traces'[t].start
               /\ traces'[t].end <= sessions'[traces'[t].session].end
    BY <1>2, <1>4, <2>3 DEF TracesHoldSpans
  <2> QED
    BY <2>1, <2>2, <2>3 DEF TracesHoldSpans
<1> QED
  BY <1>7, <1>8

\* A move writes the traces' project and nothing else.
LEMMA TransferKeeps ==
  ASSUME TypeOK, FromPayload(spans), TracesHoldSpans, AddsUp(spans),
         NEW T \in SUBSET Stored(traces), NEW dest \in Projects, TransferTraces(T, dest)
  PROVE  TypeOK' /\ FromPayload(spans') /\ TracesHoldSpans' /\ AddsUp(spans')
<1>1. /\ traces' = [t \in Traces |->
           IF t \in T THEN [traces[t] EXCEPT !.project = dest] ELSE traces[t]]
      /\ event' = {} /\ projects' = projects /\ sessions' = sessions /\ spans' = spans
      /\ dest \in projects
  BY DEF TransferTraces
<1>2. ASSUME NEW t \in Traces
      PROVE  /\ traces[t] = None => traces'[t] = None
             /\ traces[t] # None =>
                  /\ traces'[t] \in TraceRows /\ traces'[t] # None
                  /\ traces'[t].session = traces[t].session
                  /\ traces'[t].start = traces[t].start /\ traces'[t].end = traces[t].end
                  /\ traces'[t].project \in {traces[t].project, dest}
  <2>1. CASE t \in T
    <3>1. traces[t] # None /\ traces[t] \in TraceRows
      BY <2>1, RowFields DEF Stored
    <3>2. traces'[t] = [traces[t] EXCEPT !.project = dest]
      BY <1>1, <2>1
    <3>3. /\ traces'[t] \in TraceRows /\ traces'[t].session = traces[t].session
          /\ traces'[t].start = traces[t].start /\ traces'[t].end = traces[t].end
          /\ traces'[t].project = dest
      BY <3>1, <3>2 DEF TraceRows
    <3> QED
      BY <3>1, <3>3, NoneAssumption
  <2>2. CASE t \notin T
    <3>1. traces'[t] = traces[t]
      BY <1>1, <2>2
    <3> QED
      BY <3>1 DEF TypeOK
  <2> QED
    BY <2>1, <2>2
<1>3. traces' \in [Traces -> TraceRows \cup {None}]
  <2>1. \A t \in Traces : traces'[t] \in TraceRows \cup {None}
    BY <1>2
  <2> QED
    BY <1>1, <2>1
<1>4. Stored(traces') = Stored(traces)
  BY <1>2, <1>3 DEF Stored, TypeOK
<1>5. \A t \in Stored(traces) : t \in Traces /\ traces[t] # None
  BY DEF Stored, TypeOK
<1>6. TypeOK'
  <2>1. \A t \in Stored(traces') :
          /\ traces'[t].project \in projects'
          /\ traces'[t].session # None => sessions'[traces'[t].session] # None
    BY <1>1, <1>2, <1>4, <1>5 DEF TypeOK
  <2>2. \A s \in Stored(spans') : traces'[spans'[s].trace] # None
    <3>1. \A s \in Stored(spans') : spans'[s].trace \in Stored(traces')
      BY <1>1, <1>4, RowFields
    <3> QED
      BY <3>1 DEF Stored
  <2> QED
    BY <1>1, <1>3, <2>1, <2>2 DEF TypeOK
<1>7. TracesHoldSpans'
  <2>1. \A t \in Stored(traces') : SpansOf(t)' # {}
    BY <1>1, <1>4 DEF TracesHoldSpans, SpansOf
  <2>2. \A s \in Stored(spans') :
          /\ traces'[spans'[s].trace].start <= spans'[s].start
          /\ spans'[s].end <= traces'[spans'[s].trace].end
    <3>1. \A s \in Stored(spans) : spans[s].trace \in Stored(traces)
      BY RowFields
    <3> QED
      BY <1>1, <1>2, <1>5, <3>1 DEF TracesHoldSpans
  <2>3. \A t \in Stored(traces') : traces'[t].session # None =>
          /\ sessions'[traces'[t].session].start <= traces'[t].start
          /\ traces'[t].end <= sessions'[traces'[t].session].end
    BY <1>1, <1>2, <1>4, <1>5 DEF TracesHoldSpans
  <2> QED
    BY <2>1, <2>2, <2>3 DEF TracesHoldSpans
<1> QED
  BY <1>1, <1>6, <1>7

-----------------------------------------------------------------------------
(* The invariant *)

\* Counts add up only if spans come in families, and a trace is not left empty
\* only if a span sent again is in the trace it is stored in: so the invariant
\* says where the stored spans come from.
Inv == TypeOK /\ FromPayload(spans) /\ TracesHoldSpans /\ AddsUp(spans)

LEMMA InitInv == Init => Inv
<1> SUFFICES ASSUME Init PROVE Inv
  OBVIOUS
<1>1. Stored(traces) = {} /\ Stored(sessions) = {} /\ Stored(spans) = {}
  BY DEF Init, Stored
<1>2. TypeOK
  BY <1>1, DefaultAssumption DEF Init, TypeOK
<1>3. TracesHoldSpans
  BY <1>1 DEF TracesHoldSpans
<1> QED
  BY <1>1, <1>2, <1>3 DEF Inv, FromPayload, AddsUp

\* Any deletion of rows that leaves every project there is.
LEMMA RemoveOnly ==
  ASSUME Inv, NEW T, NEW U, RemoveRows(T, U), projects' = projects, event' \subseteq Projects
  PROVE  Inv'
<1>1. /\ \A t \in Stored(traces) : traces[t].project \in projects'
      /\ \A u \in Stored(sessions) : sessions[u].project \in projects'
  BY DEF Inv, TypeOK
<1> QED
  BY <1>1, RemoveKeeps DEF Inv

LEMMA StepInv == Inv /\ [Next]_vars => Inv'
<1> SUFFICES ASSUME Inv, [Next]_vars PROVE Inv'
  OBVIOUS
<1> USE DEF Inv
<1>1. ASSUME NEW p \in Payload, NEW project \in Projects, InsertSpan(p, project) PROVE Inv'
  BY <1>1, InsertKeepsTypes, SpansAfterInsert, InsertHoldsSpans, InsertAddsUp
<1>2. ASSUME NEW p \in Projects, CreateProject(p) PROVE Inv'
  <2>1. /\ projects' = projects \cup {p} /\ event' = {p}
        /\ traces' = traces /\ sessions' = sessions /\ spans' = spans
    BY <1>2 DEF CreateProject
  <2>2. TypeOK'
    BY <2>1 DEF TypeOK
  <2>3. TracesHoldSpans'
    BY <2>1 DEF TracesHoldSpans, SpansOf
  <2> QED
    BY <2>1, <2>2, <2>3
<1>3. ASSUME NEW s \in SpanIds, DeleteSpan(s) PROVE Inv'
  <2>1. s \in Stored(spans)
    BY <1>3 DEF DeleteSpan, Stored, TypeOK
  <2> QED
    BY <1>3, <2>1, DeleteSpanKeeps, SpansAfterDelete, DeleteAddsUp
<1>4. ASSUME NEW t \in Traces, DeleteTrace(t) PROVE Inv'
  <2>1. t \in Stored(traces) /\ traces[t].project \in Projects
    BY <1>4 DEF DeleteTrace, Stored, TypeOK
  <2> QED
    BY <1>4, <2>1, RemoveOnly DEF DeleteTrace
<1>5. ASSUME NEW T \in SUBSET Stored(traces), DeleteTraces(T) PROVE Inv'
  <2>1. {traces[t].project : t \in T} \subseteq Projects
    BY DEF TypeOK
  <2> QED
    BY <1>5, <2>1, RemoveOnly DEF DeleteTraces
<1>6. ASSUME NEW T \in SUBSET Stored(traces), NEW dest \in Projects, TransferTraces(T, dest)
      PROVE  Inv'
  BY <1>6, TransferKeeps
<1>7. ASSUME NEW p \in Projects, NEW before \in Times \cup {None}, ClearProject(p, before)
      PROVE  Inv'
  BY <1>7, RemoveOnly DEF ClearProject
<1>8. ASSUME NEW U \in SUBSET Stored(sessions), DeleteSessions(U) PROVE Inv'
  <2>1. {sessions[u].project : u \in U} \subseteq Projects
    BY DEF TypeOK
  <2> QED
    BY <1>8, <2>1, RemoveOnly DEF DeleteSessions
<1>9. ASSUME NEW p \in Projects, DeleteProject(p) PROVE Inv'
  <2> DEFINE U == {u \in Stored(sessions) : sessions[u].project = p}
  <2>1. projects' = projects \ {p} /\ event' \subseteq Projects /\ RemoveRows(TracesIn(p), U)
    BY <1>9 DEF DeleteProject
  <2>2. \A t \in Stored(traces) : traces[t].project \notin projects' => t \in Lost(TracesIn(p), U)
    BY <2>1 DEF TypeOK, Lost, TracesIn
  <2>3. \A u \in Stored(sessions) : sessions[u].project \notin projects' => u \in U
    BY <2>1 DEF TypeOK
  <2> HIDE DEF U
  <2> QED
    BY <2>1, <2>2, <2>3, RemoveKeeps
<1>10. CASE UNCHANGED vars
  BY <1>10 DEF vars, TypeOK, TracesHoldSpans, SpansOf
<1> QED
  BY <1>1, <1>2, <1>3, <1>4, <1>5, <1>6, <1>7, <1>8, <1>9, <1>10 DEF Next

LEMMA StoreInvariant == Spec => []Inv
<1>1. Init => Inv
  BY InitInv
<1>2. Inv /\ [Next]_vars => Inv'
  BY StepInv
<1> QED
  BY <1>1, <1>2, PTL DEF Spec

-----------------------------------------------------------------------------
(* Whose spans a step changes *)

\* If a removal takes spans from a project it takes one of its traces.
LEMMA RemovalTakesFrom ==
  ASSUME Inv, NEW T, NEW U, RemoveRows(T, U), NEW p, SpansIn(p)' # SpansIn(p)
  PROVE  \E t \in Stored(traces) \cap Lost(T, U) : traces[t].project = p
<1>1. SUFFICES ASSUME \A t \in Stored(traces) \cap Lost(T, U) : traces[t].project # p
               PROVE  SpansIn(p)' = SpansIn(p)
  OBVIOUS
<1>2. /\ Stored(traces') = Stored(traces) \ Lost(T, U)
      /\ Stored(spans') = {s \in Stored(spans) : spans[s].trace \notin Lost(T, U)}
      /\ \A t \in Stored(traces') : traces'[t] = traces[t]
      /\ \A s \in Stored(spans') : spans'[s] = spans[s]
  BY WhatIsLeft DEF Inv
<1>3. \A s \in Stored(spans) : spans[s].trace \in Stored(traces)
  BY RowFields DEF Inv
<1>4. SpansIn(p)' = {s \in Stored(spans') : traces'[spans'[s].trace].project = p}
  BY DEF SpansIn
<1> QED
  BY <1>1, <1>2, <1>3, <1>4 DEF SpansIn

\* An insertion changes its trace's project only, and puts an event if it does.
LEMMA InsertAnnounced ==
  ASSUME Inv, NEW r \in Payload, NEW project \in Projects, InsertSpan(r, project), NEW p,
         SpansIn(p)' # SpansIn(p)
  PROVE  p \in event'
<1> DEFINE row == TraceFor(r, project)
<1>1. /\ traces' = [traces EXCEPT ![r.trace] = row]
      /\ spans[r.id] = None => event' = {row.project}
      /\ traces[r.trace] # None => row.project = traces[r.trace].project
      /\ r.trace \in Traces /\ DOMAIN traces = Traces
  BY SentFields, TraceRowWritten DEF InsertSpan, Inv, TypeOK
<1> HIDE DEF row
<1>2. ASSUME NEW s \in Stored(spans)
      PROVE  /\ s \in Stored(spans')
             /\ traces'[spans'[s].trace].project = traces[spans[s].trace].project
  <2>1. spans'[s].trace = spans[s].trace /\ s \in Stored(spans')
    BY SpansAfterInsert DEF Inv, SameSpan
  <2>2. spans[s].trace \in Traces /\ traces[spans[s].trace] # None
    BY RowFields DEF Inv, Stored
  <2>3. CASE spans[s].trace = r.trace
    BY <1>1, <2>1, <2>2, <2>3
  <2>4. CASE spans[s].trace # r.trace
    BY <1>1, <2>1, <2>2, <2>4
  <2> QED
    BY <2>3, <2>4
<1>3. SpansIn(p)' = {s \in Stored(spans') : traces'[spans'[s].trace].project = p}
  BY DEF SpansIn
<1>4. CASE spans[r.id] # None
  <2>1. Stored(spans') = Stored(spans)
    BY <1>4 DEF InsertSpan
  <2> QED
    BY <1>2, <1>3, <2>1 DEF SpansIn
<1>5. CASE spans[r.id] = None
  <2>1. Stored(spans') = Stored(spans) \cup {r.id}
    BY SpansAfterInsert DEF Inv
  <2>2. spans'[r.id].trace = r.trace
    BY <1>5, SpansAfterInsert DEF Inv, SameSpan, NewRow
  <2>3. traces'[spans'[r.id].trace].project = row.project
    BY <1>1, <2>2
  <2>4. p = row.project
    <3>1. SUFFICES ASSUME p # row.project PROVE SpansIn(p)' = SpansIn(p)
      OBVIOUS
    <3>2. r.id \notin Stored(spans)
      BY <1>5 DEF Stored
    <3> QED
      BY <1>2, <1>3, <2>1, <2>3, <3>1, <3>2 DEF SpansIn
  <2> QED
    BY <1>1, <1>5, <2>4
<1> QED
  BY <1>4, <1>5

SessionsInOneProject ==
  \A t \in Stored(traces) : traces[t].session # None =>
    sessions[traces[t].session].project = traces[t].project

Announced ==
  \A p \in projects \cap projects' : SpansIn(p)' # SpansIn(p) =>
    \/ p \in event'
    \/ \E s \in SpanIds : DeleteSpan(s)
    \/ \E T \in SUBSET Stored(traces), dest \in Projects : TransferTraces(T, dest)

LEMMA StepAnnounced == Inv /\ SessionsInOneProject /\ [Next]_vars => Announced
<1> SUFFICES ASSUME Inv, SessionsInOneProject, [Next]_vars,
                    NEW p \in projects \cap projects', SpansIn(p)' # SpansIn(p)
             PROVE  \/ p \in event'
                    \/ \E s \in SpanIds : DeleteSpan(s)
                    \/ \E T \in SUBSET Stored(traces), dest \in Projects : TransferTraces(T, dest)
  BY DEF Announced
<1>1. ASSUME NEW r \in Payload, NEW project \in Projects, InsertSpan(r, project) PROVE p \in event'
  BY <1>1, InsertAnnounced
<1>2. ASSUME NEW q \in Projects, CreateProject(q) PROVE FALSE
  BY <1>2 DEF CreateProject, SpansIn
<1>3. ASSUME NEW t \in Traces, DeleteTrace(t) PROVE p \in event'
  <2>1. RemoveRows({t}, {}) /\ event' = {traces[t].project}
    BY <1>3 DEF DeleteTrace
  <2>2. Lost({t}, {}) = {t}
    BY DEF Lost
  <2> QED
    BY <2>1, <2>2, RemovalTakesFrom
<1>4. ASSUME NEW T \in SUBSET Stored(traces), DeleteTraces(T) PROVE p \in event'
  <2> DEFINE U == SessionsOf(T) \ SessionsOf(Stored(traces) \ T)
  <2>1. RemoveRows(T, U) /\ event' = {traces[t].project : t \in T}
    BY <1>4 DEF DeleteTraces
  <2>2. Lost(T, U) = T
    BY DEF Lost, SessionsOf
  <2> HIDE DEF U
  <2> QED
    BY <2>1, <2>2, RemovalTakesFrom
<1>5. ASSUME NEW q \in Projects, NEW before \in Times \cup {None}, ClearProject(q, before)
      PROVE  p \in event'
  <2> DEFINE T == {t \in TracesIn(q) : before = None \/ traces[t].start < before}
  <2>1. RemoveRows(T, SessionsOf(T)) /\ event' = {q}
    BY <1>5 DEF ClearProject
  <2>2. PICK t \in Stored(traces) \cap Lost(T, SessionsOf(T)) : traces[t].project = p
    <3> HIDE DEF T
    <3> QED
      BY <2>1, RemovalTakesFrom
  <2>3. CASE t \in T
    BY <2>1, <2>2, <2>3 DEF TracesIn
  <2>4. CASE t \notin T
    <3>1. traces[t].session \in SessionsOf(T)
      BY <2>2, <2>4 DEF Lost
    <3>2. PICK x \in T : traces[x].session = traces[t].session /\ traces[t].session # None
      BY <3>1 DEF SessionsOf
    <3>3. traces[x].project = q /\ x \in Stored(traces)
      BY DEF TracesIn
    <3>4. traces[t].project = traces[x].project
      BY <3>2, <3>3 DEF SessionsInOneProject
    <3> QED
      BY <2>1, <2>2, <3>3, <3>4
  <2> QED
    BY <2>3, <2>4
<1>6. ASSUME NEW U \in SUBSET Stored(sessions), DeleteSessions(U) PROVE p \in event'
  <2>1. RemoveRows({}, U) /\ event' = {sessions[u].project : u \in U}
    BY <1>6 DEF DeleteSessions
  <2>2. PICK t \in Stored(traces) \cap Lost({}, U) : traces[t].project = p
    BY <2>1, RemovalTakesFrom
  <2>3. traces[t].session \in U
    BY <2>2 DEF Lost
  <2>4. traces[t].session # None
    BY <2>3, RowFields, NoneAssumption DEF Inv
  <2> QED
    BY <2>1, <2>2, <2>3, <2>4 DEF SessionsInOneProject
<1>7. ASSUME NEW q \in Projects, DeleteProject(q) PROVE FALSE
  <2> DEFINE U == {u \in Stored(sessions) : sessions[u].project = q}
  <2>1. RemoveRows(TracesIn(q), U) /\ projects' = projects \ {q}
    BY <1>7 DEF DeleteProject
  <2>2. PICK t \in Stored(traces) \cap Lost(TracesIn(q), U) : traces[t].project = p
    <3> HIDE DEF U
    <3> QED
      BY <2>1, RemovalTakesFrom
  <2>3. CASE t \in TracesIn(q)
    BY <2>1, <2>2, <2>3 DEF TracesIn
  <2>4. CASE traces[t].session \in U
    <3>1. traces[t].session # None /\ sessions[traces[t].session].project = q
      BY <2>4, RowFields, NoneAssumption DEF Inv
    <3> QED
      BY <2>1, <2>2, <3>1 DEF SessionsInOneProject
  <2> QED
    BY <2>2, <2>3, <2>4 DEF Lost
<1>8. CASE UNCHANGED vars
  BY <1>8 DEF vars, SpansIn
<1> QED
  BY <1>1, <1>2, <1>3, <1>4, <1>5, <1>6, <1>7, <1>8 DEF Next

-----------------------------------------------------------------------------
(* Theorems *)

\* Whatever is sent, moved and deleted, rows keep their types and every
\* reference has its row (insert_span, the deletions, the cascades).
THEOREM StoreTypes == Spec => []TypeOK
<1>1. Inv => TypeOK
  BY DEF Inv
<1> QED
  BY <1>1, StoreInvariant, PTL

\* In whatever order the spans of any families arrive and are deleted, what a
\* span has summed up is its own count and its stored children's sums.
THEOREM StoreCountsAddUp == Spec => []CountsAddUp
<1>1. Inv => CountsAddUp
  BY CountsAddUpIs DEF Inv
<1> QED
  BY <1>1, StoreInvariant, PTL

\* No trace row is empty, and the intervals of traces and sessions cover what
\* is in them.
THEOREM StoreTracesHoldSpans == Spec => []TracesHoldSpans
<1>1. Inv => TracesHoldSpans
  BY DEF Inv
<1> QED
  BY <1>1, StoreInvariant, PTL

\* deleteTraces removes the traces it names and no other.
THEOREM StoreSparesOthers == Spec => DeleteTracesSparesOthers
<1>1. Inv => \A T \in SUBSET Stored(traces) :
               DeleteTraces(T) => Stored(traces') = Stored(traces) \ T
  <2> SUFFICES ASSUME Inv, NEW T \in SUBSET Stored(traces), DeleteTraces(T)
               PROVE  Stored(traces') = Stored(traces) \ T
    OBVIOUS
  <2> DEFINE U == SessionsOf(T) \ SessionsOf(Stored(traces) \ T)
  <2>1. RemoveRows(T, U)
    BY DEF DeleteTraces
  <2>2. Lost(T, U) = T
    BY DEF Lost, SessionsOf
  <2> HIDE DEF U
  <2> QED
    BY <2>1, <2>2, WhatIsLeft DEF Inv
<1> QED
  BY <1>1, StoreInvariant, PTL DEF DeleteTracesSparesOthers

\* While traces are in their sessions' projects, every step that changes which
\* spans a project has names the project in its event, except a transfer and
\* delete_span.
THEOREM StoreChangesAnnounced == Spec => ChangesAreAnnounced
<1>1. Inv /\ [Next]_vars => (SessionsInOneProject => Announced)
  BY StepAnnounced
<1>2. Spec => [][SessionsInOneProject => Announced]_vars
  BY <1>1, StoreInvariant, PTL DEF Spec
<1> QED
  BY <1>2 DEF ChangesAreAnnounced, SessionsInOneProject, Announced
=============================================================================
