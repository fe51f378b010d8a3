--------------------------- MODULE Readers_proofs ----------------------------
(***************************************************************************)
(* Theorems about what readers of extracted-core are told: cached answers  *)
(* (Caches), for any projects and ids, and listings page by page (Paging), *)
(* for any limits and any number of rows and changes.                      *)
(***************************************************************************)
EXTENDS Caches, Paging, FiniteSetTheorems, SequenceTheorems, FunctionTheorems,
        WellFoundedInduction, TLAPS

-----------------------------------------------------------------------------
(* The invariant of a walk *)

KeptInOrder(q) ==
  \A m, n \in DOMAIN q :
    m < n /\ {q[m], q[n]} \subseteq steady => Ahead(Place(q[m]), Place(q[n]))

\* The cursor c says that the client has been shown row i, if i kept its place.
Passed(c, i) ==
  IF listing = "root" THEN ~Ahead(c, Place(i)) ELSE Ahead(<<0, i>>, <<0, c[2]>>)

\* What is shown or will be with this answer is in order and, of what kept its
\* place, exactly what the cursor says.
Fits(shown, c, at) ==
  /\ KeptInOrder(shown)
  /\ IF at = "done" THEN steady \subseteq ToSet(shown)
     ELSE IF c = <<>> THEN shown = <<>>
     ELSE \A i \in steady : i \in ToSet(shown) <=> Passed(c, i)

WalkInv ==
  WalkTypeOK /\ steady \subseteq Listed /\ (CursorFits => Fits(seen \o edges, cursor, pc))

-----------------------------------------------------------------------------
(* The listing's order, and rows in that order *)

Spots == Nat \X Nat

LEMMA AheadOrders ==
  ASSUME NEW p \in Spots, NEW q \in Spots, NEW r \in Spots, order \in {"asc", "desc"}
  PROVE  /\ ~Ahead(p, p)
         /\ Ahead(p, q) /\ Ahead(q, r) => Ahead(p, r)
         /\ Ahead(p, q) => ~Ahead(q, p)
         /\ p # q => Ahead(p, q) \/ Ahead(q, p)
BY DEF Ahead, Less, Spots

LEMMA RowIdsAreNats ==
  ASSUME WalkTypeOK
  PROVE  /\ DOMAIN rows \subseteq 1 .. MaxId /\ MaxId \in Nat /\ MaxTime \in Nat
         /\ order \in {"asc", "desc"}
         /\ \A i \in DOMAIN rows : i \in Nat \ {0} /\ rows[i].start \in 0 .. MaxTime
BY BoundsAssumption DEF WalkTypeOK, RowRecords

LEMMA PlacesAreSpots ==
  ASSUME WalkTypeOK, NEW i \in DOMAIN rows
  PROVE  /\ Place(i) \in (0 .. MaxTime) \X (1 .. MaxId)
         /\ Place(i) \in Spots /\ Place(i)[2] = i
BY RowIdsAreNats DEF Place, Spots

LEMMA RowsAreOrdered ==
  ASSUME WalkTypeOK, NEW i \in DOMAIN rows, NEW j \in DOMAIN rows
  PROVE  /\ ~Ahead(Place(i), Place(i))
         /\ Ahead(Place(i), Place(j)) => ~Ahead(Place(j), Place(i))
         /\ i # j => Ahead(Place(i), Place(j)) \/ Ahead(Place(j), Place(i))
<1>1. Place(i) \in Spots /\ Place(j) \in Spots /\ Place(i)[2] = i /\ Place(j)[2] = j
  BY PlacesAreSpots
<1>2. order \in {"asc", "desc"}
  BY RowIdsAreNats
<1>q. QED
  BY <1>1, <1>2, AheadOrders

LEMMA RowsAheadOfRows ==
  ASSUME WalkTypeOK, NEW i \in DOMAIN rows, NEW j \in DOMAIN rows, NEW k \in DOMAIN rows,
         Ahead(Place(i), Place(j)), Ahead(Place(j), Place(k))
  PROVE  Ahead(Place(i), Place(k))
<1>1. Place(i) \in Spots /\ Place(j) \in Spots /\ Place(k) \in Spots
  BY PlacesAreSpots
<1>2. order \in {"asc", "desc"}
  BY RowIdsAreNats
<1>q. QED
  BY <1>1, <1>2, AheadOrders

LEMMA RowsAreFinite ==
  ASSUME WalkTypeOK, NEW S \in SUBSET DOMAIN rows
  PROVE  IsFiniteSet(S) /\ Cardinality(S) \in Nat
<1>1. IsFiniteSet(1 .. MaxId)
  BY BoundsAssumption, FS_Interval
<1>2. S \subseteq 1 .. MaxId
  BY RowIdsAreNats
<1>3. IsFiniteSet(S)
  BY <1>1, <1>2, FS_Subset
<1>q. QED
  BY <1>3, FS_CardinalityType

\* Before counts up along the order, and takes every value below the number of rows.
LEMMA BeforeCounts ==
  ASSUME WalkTypeOK, NEW S \in SUBSET DOMAIN rows, NEW i \in S
  PROVE  Before(S, i) \in 0 .. Cardinality(S) - 1
<1> DEFINE B == {j \in S : Ahead(Place(j), Place(i))}
<1>1. IsFiniteSet(S) /\ Cardinality(S) \in Nat
  BY RowsAreFinite
<1>2. B \subseteq S \ {i}
  BY RowsAreOrdered
<1>3. IsFiniteSet(S \ {i}) /\ Cardinality(S \ {i}) = Cardinality(S) - 1
  BY <1>1, FS_RemoveElement
<1> HIDE DEF B
<1>4. IsFiniteSet(B) /\ Cardinality(B) <= Cardinality(S \ {i})
  BY <1>2, <1>3, FS_Subset
<1>5. Cardinality(B) \in Nat
  BY <1>4, FS_CardinalityType
<1>6. Before(S, i) = Cardinality(B)
  BY DEF Before, B
<1>q. QED
  BY <1>1, <1>3, <1>4, <1>5, <1>6

LEMMA BeforeGrows ==
  ASSUME WalkTypeOK, NEW S \in SUBSET DOMAIN rows, NEW i \in S, NEW k \in S,
         Ahead(Place(i), Place(k))
  PROVE  Before(S, i) < Before(S, k)
<1> DEFINE B(x) == {j \in S : Ahead(Place(j), Place(x))}
<1>1. B(i) \cup {i} \subseteq B(k) /\ i \notin B(i)
  BY RowsAreOrdered, RowsAheadOfRows
<1>2. B(i) \subseteq S /\ B(k) \subseteq S
  OBVIOUS
<1>3. IsFiniteSet(S)
  BY RowsAreFinite
<1> HIDE DEF B
<1>4. IsFiniteSet(B(i)) /\ IsFiniteSet(B(k))
  BY <1>2, <1>3, FS_Subset
<1>5. Cardinality(B(i) \cup {i}) = Cardinality(B(i)) + 1
  BY <1>1, <1>4, FS_AddElement
<1>6. Cardinality(B(i) \cup {i}) <= Cardinality(B(k))
  BY <1>1, <1>4, FS_Subset
<1>7. Cardinality(B(i)) \in Nat /\ Cardinality(B(k)) \in Nat
  BY <1>4, FS_CardinalityType
<1>8. Before(S, i) = Cardinality(B(i)) /\ Before(S, k) = Cardinality(B(k))
  BY DEF Before, B
<1>q. QED
  BY <1>5, <1>6, <1>7, <1>8

LEMMA BeforeTakesAll ==
  ASSUME WalkTypeOK, NEW S \in SUBSET DOMAIN rows, NEW n \in 1 .. Cardinality(S)
  PROVE  \E i \in S : Before(S, i) = n - 1
<1> DEFINE T == 0 .. Cardinality(S) - 1
           f == [i \in S |-> Before(S, i)]
<1>1. IsFiniteSet(S) /\ Cardinality(S) \in Nat
  BY RowsAreFinite
<1>2. f \in [S -> T]
  BY BeforeCounts
<1>3. ASSUME NEW i \in S, NEW j \in S, f[i] = f[j] PROVE i = j
  <2>1. Before(S, i) = Before(S, j)
    BY <1>3
  <2>2. Before(S, i) \in Nat /\ Before(S, j) \in Nat
    BY <1>1, BeforeCounts
  <2>3. CASE i # j
    <3>1. Ahead(Place(i), Place(j)) \/ Ahead(Place(j), Place(i))
      BY <2>3, RowsAreOrdered
    <3>q. QED
      BY <2>1, <2>2, <3>1, BeforeGrows
  <2>q. QED
    BY <2>3
<1>4. IsFiniteSet(T) /\ Cardinality(T) = Cardinality(S)
  <2>1. Cardinality(S) - 1 \in Int /\ ~(0 > Cardinality(S) - 1)
    BY <1>1
  <2>2. /\ IsFiniteSet(0 .. Cardinality(S) - 1)
        /\ Cardinality(0 .. Cardinality(S) - 1) = Cardinality(S) - 1 - 0 + 1
    BY <2>1, FS_Interval
  <2>q. QED
    BY <1>1, <2>2
<1>5. n - 1 \in T
  BY <1>1
<1> HIDE DEF T
<1>6. f \in Injection(S, T)
  BY <1>2, <1>3 DEF Injection, IsInjective
<1>7. f \in Surjection(S, T)
  <2> HIDE DEF f
  <2>q. QED
    BY <1>4, <1>6, FS_Injection
<1>8. \E i \in S : f[i] = n - 1
  <2> HIDE DEF f
  <2>q. QED
    BY <1>5, <1>7 DEF Surjection
<1>q. QED
  BY <1>8

\* InOrder lists each of the rows once, in the listing's order.
LEMMA InOrderLists ==
  ASSUME WalkTypeOK, NEW S \in SUBSET DOMAIN rows
  PROVE  /\ Len(InOrder(S)) = Cardinality(S) /\ Len(InOrder(S)) \in Nat
         /\ DOMAIN InOrder(S) = 1 .. Len(InOrder(S))
         /\ InOrder(S) \in Seq(S)
         /\ \A i \in S : \E n \in DOMAIN InOrder(S) : InOrder(S)[n] = i
         /\ \A m, n \in DOMAIN InOrder(S) :
              m < n => Ahead(Place(InOrder(S)[m]), Place(InOrder(S)[n]))
<1> DEFINE f == InOrder(S)
<1>1. IsFiniteSet(S) /\ Cardinality(S) \in Nat
  BY RowsAreFinite
<1>2. \A n \in 1 .. Cardinality(S) : f[n] \in S /\ Before(S, f[n]) = n - 1
  BY BeforeTakesAll DEF InOrder
<1>3. f \in [1 .. Cardinality(S) -> S]
  BY <1>2 DEF InOrder
<1> HIDE DEF f
<1>4. f \in Seq(S) /\ Len(f) = Cardinality(S) /\ DOMAIN f = 1 .. Len(f)
  BY <1>1, <1>3
<1>5. ASSUME NEW m \in DOMAIN f, NEW n \in DOMAIN f
      PROVE  /\ f[m] = f[n] => m = n
             /\ m < n => Ahead(Place(f[m]), Place(f[n]))
  <2>1. /\ m \in Nat /\ n \in Nat /\ f[m] \in S /\ f[n] \in S
        /\ Before(S, f[m]) = m - 1 /\ Before(S, f[n]) = n - 1
    BY <1>1, <1>2, <1>4
  <2>2. Ahead(Place(f[n]), Place(f[m])) => n - 1 < m - 1
    BY <2>1, BeforeGrows
  <2>3. f[m] # f[n] => Ahead(Place(f[m]), Place(f[n])) \/ Ahead(Place(f[n]), Place(f[m]))
    BY <2>1, RowsAreOrdered
  <2>q. QED
    BY <2>1, <2>2, <2>3
<1>6. ASSUME NEW i \in S PROVE \E n \in DOMAIN f : f[n] = i
  <2> DEFINE n == Before(S, i) + 1
  <2>1. n \in 1 .. Cardinality(S)
    BY <1>1, BeforeCounts
  <2>2. Before(S, i) = n - 1
    BY <1>1, BeforeCounts
  <2> HIDE DEF n
  <2>3. f[n] \in S /\ Before(S, f[n]) = n - 1
    BY <1>2, <2>1
  <2>4. n - 1 \in Nat
    BY <1>1, <2>1
  <2>5. ~Ahead(Place(f[n]), Place(i)) /\ ~Ahead(Place(i), Place(f[n]))
    BY <2>2, <2>3, <2>4, BeforeGrows
  <2>6. f[n] = i
    BY <2>3, <2>5, RowsAreOrdered
  <2>q. QED
    BY <1>4, <2>1, <2>6
<1>q. QED
  BY <1>1, <1>4, <1>5, <1>6 DEF f

-----------------------------------------------------------------------------
(* Pages: the first rows in order, and pages put after one another *)

LEMMA MembersOfSeq ==
  ASSUME NEW T, NEW s \in Seq(T)
  PROVE  /\ Len(s) \in Nat /\ DOMAIN s = 1 .. Len(s)
         /\ \A n \in DOMAIN s : s[n] \in T
         /\ ToSet(s) \subseteq T
         /\ \A x : x \in ToSet(s) <=> \E n \in DOMAIN s : s[n] = x
<1>1. Len(s) \in Nat /\ DOMAIN s = 1 .. Len(s) /\ \A n \in DOMAIN s : s[n] \in T
  BY LenProperties
<1>q. QED
  BY <1>1 DEF ToSet

LEMMA FirstOfInOrder ==
  ASSUME WalkTypeOK, NEW S \in SUBSET DOMAIN rows, NEW n \in 0 .. Len(InOrder(S)),
         NEW p, p = FirstOf(InOrder(S), n)
  PROVE  /\ p \in Seq(S) /\ Len(p) = n
         /\ \A k \in 1 .. n : p[k] \in S
         /\ KeptInOrder(p)
         /\ n = Len(InOrder(S)) => ToSet(p) = S
         /\ n > 0 => \A i \in S : i \in ToSet(p) <=> ~Ahead(Place(p[n]), Place(i))
         /\ n < Len(InOrder(S)) =>
              /\ InOrder(S)[n + 1] \in S
              /\ \A i \in S : i \in ToSet(p) <=> Ahead(Place(i), Place(InOrder(S)[n + 1]))
<1> DEFINE f == InOrder(S)
<1>1. /\ f \in Seq(S) /\ Len(f) \in Nat /\ DOMAIN f = 1 .. Len(f)
      /\ \A i \in S : \E k \in DOMAIN f : f[k] = i
      /\ \A m, k \in DOMAIN f : m < k => Ahead(Place(f[m]), Place(f[k]))
  BY InOrderLists
<1>2. p = SubSeq(f, 1, n) /\ n \in 0 .. Len(f)
  BY DEF FirstOf
<1> HIDE DEF f
<1>3. \A k \in DOMAIN f : f[k] \in S
  BY <1>1, MembersOfSeq
<1>4. p \in Seq(S) /\ Len(p) = n /\ \A k \in 1 .. n : p[k] = f[k]
  <2>1. \A k \in 1 .. n : f[k] \in S
    BY <1>1, <1>2, <1>3
  <2>2. /\ SubSeq(f, 1, n) \in Seq(S)
        /\ Len(SubSeq(f, 1, n)) = IF 1 <= n THEN n - 1 + 1 ELSE 0
        /\ \A k \in 1 .. n - 1 + 1 : SubSeq(f, 1, n)[k] = f[1 + k - 1]
    BY <1>1, <1>2, <2>1, SubSeqProperties
  <2>q. QED
    BY <1>1, <1>2, <2>2
<1>5. DOMAIN p = 1 .. n /\ \A x : x \in ToSet(p) <=> \E k \in 1 .. n : f[k] = x
  BY <1>4, MembersOfSeq
<1>6. \A k \in 1 .. n : k \in DOMAIN f
  BY <1>1, <1>2
<1>7. KeptInOrder(p)
  BY <1>1, <1>4, <1>5, <1>6 DEF KeptInOrder
<1>8. ASSUME NEW k \in DOMAIN f
      PROVE  f[k] \in ToSet(p) <=> k <= n
  <2>1. ASSUME NEW m \in 1 .. n, f[m] = f[k], ~(k <= n) PROVE FALSE
    <3>1. m < k /\ m \in DOMAIN f
      BY <1>1, <1>6, <2>1
    <3>2. Ahead(Place(f[m]), Place(f[k])) /\ f[m] \in S /\ f[k] \in S
      BY <1>1, <1>3, <3>1
    <3>q. QED
      BY <2>1, <3>2, RowsAreOrdered
  <2>2. k <= n => k \in 1 .. n
    BY <1>1, <1>2
  <2>q. QED
    BY <1>5, <2>1, <2>2
<1>9. ASSUME NEW m \in DOMAIN f, NEW k \in DOMAIN f
      PROVE  Ahead(Place(f[m]), Place(f[k])) <=> m < k
  <2>1. m \in Nat /\ k \in Nat /\ f[m] \in S /\ f[k] \in S
    BY <1>1, <1>3
  <2>2. CASE m < k
    BY <1>1, <2>2
  <2>3. CASE m = k
    BY <2>1, <2>3, RowsAreOrdered
  <2>4. CASE k < m
    <3>1. Ahead(Place(f[k]), Place(f[m]))
      BY <1>1, <2>4
    <3>q. QED
      BY <2>1, <2>4, <3>1, RowsAreOrdered
  <2>q. QED
    BY <2>1, <2>2, <2>3, <2>4
<1>10. ASSUME n = Len(f) PROVE ToSet(p) = S
  <2>1. \A x \in S : x \in ToSet(p)
    BY <1>1, <1>8, <1>10
  <2>2. ToSet(p) \subseteq S
    BY <1>4, MembersOfSeq
  <2>q. QED
    BY <2>1, <2>2
<1>11. ASSUME n > 0, NEW i \in S
       PROVE  i \in ToSet(p) <=> ~Ahead(Place(p[n]), Place(i))
  <2>1. PICK k \in DOMAIN f : f[k] = i
    BY <1>1
  <2>2. n \in DOMAIN f /\ p[n] = f[n] /\ n \in Nat /\ k \in Nat
    BY <1>1, <1>2, <1>4, <1>11
  <2>q. QED
    BY <1>8, <1>9, <2>1, <2>2
<1>12. ASSUME n < Len(f)
       PROVE  /\ f[n + 1] \in S
              /\ \A i \in S : i \in ToSet(p) <=> Ahead(Place(i), Place(f[n + 1]))
  <2>1. n + 1 \in DOMAIN f /\ n \in Nat
    BY <1>1, <1>2, <1>12
  <2>2. ASSUME NEW i \in S
        PROVE  i \in ToSet(p) <=> Ahead(Place(i), Place(f[n + 1]))
    <3>1. PICK k \in DOMAIN f : f[k] = i
      BY <1>1
    <3>2. k \in Nat
      BY <1>1
    <3>q. QED
      BY <1>8, <1>9, <2>1, <3>1, <3>2
  <2>q. QED
    BY <1>3, <2>1, <2>2
<1>q. QED
  BY <1>3, <1>4, <1>6, <1>7, <1>10, <1>11, <1>12 DEF f

LEMMA JoinedInOrder ==
  ASSUME NEW T, NEW q \in Seq(T), NEW p \in Seq(T), KeptInOrder(q), KeptInOrder(p),
         \A i \in ToSet(q) \cap steady, j \in ToSet(p) \cap steady : Ahead(Place(i), Place(j))
  PROVE  KeptInOrder(q \o p) /\ ToSet(q \o p) = ToSet(q) \cup ToSet(p)
<1> DEFINE r == q \o p
<1>1. /\ Len(q) \in Nat /\ DOMAIN q = 1 .. Len(q) /\ Len(p) \in Nat /\ DOMAIN p = 1 .. Len(p)
      /\ \A x : x \in ToSet(q) <=> \E n \in DOMAIN q : q[n] = x
      /\ \A x : x \in ToSet(p) <=> \E n \in DOMAIN p : p[n] = x
  BY MembersOfSeq
<1>2. /\ r \in Seq(T) /\ Len(r) = Len(q) + Len(p)
      /\ \A n \in 1 .. Len(q) + Len(p) : r[n] = IF n <= Len(q) THEN q[n] ELSE p[n - Len(q)]
  BY ConcatProperties
<1> HIDE DEF r
<1>3. DOMAIN r = 1 .. Len(q) + Len(p) /\ \A x : x \in ToSet(r) <=> \E n \in DOMAIN r : r[n] = x
  BY <1>2, MembersOfSeq
<1>4. \A n \in DOMAIN r :
        \/ n \in DOMAIN q /\ r[n] = q[n]
        \/ n > Len(q) /\ n - Len(q) \in DOMAIN p /\ r[n] = p[n - Len(q)]
  BY <1>1, <1>2, <1>3
<1>5. ASSUME NEW m \in DOMAIN r, NEW n \in DOMAIN r, m < n, {r[m], r[n]} \subseteq steady
      PROVE  Ahead(Place(r[m]), Place(r[n]))
  <2>1. m \in Nat /\ n \in Nat
    BY <1>3
  <2>2. CASE m \in DOMAIN q /\ n \in DOMAIN q /\ r[m] = q[m] /\ r[n] = q[n]
    BY <1>5, <2>2 DEF KeptInOrder
  <2>3. CASE /\ m \in DOMAIN q /\ r[m] = q[m]
             /\ n - Len(q) \in DOMAIN p /\ r[n] = p[n - Len(q)]
    BY <1>1, <1>5, <2>3
  <2>4. CASE /\ m - Len(q) \in DOMAIN p /\ r[m] = p[m - Len(q)]
             /\ n - Len(q) \in DOMAIN p /\ r[n] = p[n - Len(q)]
    <3>1. m - Len(q) < n - Len(q)
      BY <1>1, <1>5, <2>1
    <3>q. QED
      BY <1>5, <2>4, <3>1 DEF KeptInOrder
  <2>5. ~(n \in DOMAIN q /\ m > Len(q))
    BY <1>1, <1>5, <2>1
  <2>q. QED
    BY <1>4, <2>2, <2>3, <2>4, <2>5
<1>6. KeptInOrder(r)
  BY <1>5 DEF KeptInOrder
<1>7. ASSUME NEW x \in ToSet(r) PROVE x \in ToSet(q) \cup ToSet(p)
  BY <1>1, <1>3, <1>4
<1>8. ASSUME NEW x \in ToSet(q) PROVE x \in ToSet(r)
  <2>1. PICK n \in DOMAIN q : q[n] = x
    BY <1>1
  <2>2. n \in DOMAIN r /\ r[n] = x
    BY <1>1, <1>2, <1>3, <2>1
  <2>q. QED
    BY <1>3, <2>2
<1>9. ASSUME NEW x \in ToSet(p) PROVE x \in ToSet(r)
  <2>1. PICK n \in DOMAIN p : p[n] = x
    BY <1>1
  <2>2. n + Len(q) \in 1 .. Len(q) + Len(p) /\ ~(n + Len(q) <= Len(q)) /\ n + Len(q) - Len(q) = n
    BY <1>1, <2>1
  <2>3. n + Len(q) \in DOMAIN r /\ r[n + Len(q)] = x
    BY <1>2, <1>3, <2>1, <2>2
  <2>q. QED
    BY <1>3, <2>3
<1>q. QED
  BY <1>6, <1>7, <1>8, <1>9 DEF r

LEMMA NothingIsInOrder == KeptInOrder(<<>>) /\ ToSet(<<>>) = {}
BY DEF KeptInOrder, ToSet

\* The largest row id, or none.
LEMMA GreatestId ==
  ASSUME WalkTypeOK
  PROVE  /\ Max(DOMAIN rows \cup {0}) \in Nat
         /\ \A i \in DOMAIN rows : i <= Max(DOMAIN rows \cup {0})
<1> DEFINE A == DOMAIN rows \cup {0}
           Below == {p \in Nat \X Nat : p[1] < p[2]}
           Gaps == {MaxId - i : i \in A}
<1>1. MaxId \in Nat /\ \A i \in A : i \in Nat /\ MaxId - i \in Nat
  BY RowIdsAreNats
<1>2. IsWellFoundedOn(Below, Nat)
  BY NatLessThanWellFounded DEF OpToRel
<1>3. Gaps \subseteq Nat /\ Gaps # {}
  BY <1>1
<1>4. \E x \in Gaps : \A y \in Gaps : <<y, x>> \notin Below
  <2> HIDE DEF Below, Gaps
  <2> QED
    BY <1>2, <1>3, WFMin
<1>5. PICK m \in A : \A i \in A : <<MaxId - i, MaxId - m>> \notin Below
  BY <1>4
<1>6. ASSUME NEW i \in A PROVE m >= i
  <2>1. MaxId - i \in Nat /\ MaxId - m \in Nat /\ i \in Nat /\ m \in Nat
    BY <1>1
  <2>2. ~(MaxId - i < MaxId - m)
    BY <1>5, <2>1
  <2>q. QED
    BY <1>1, <2>1, <2>2
<1>7. Max(A) \in A /\ \A i \in A : Max(A) >= i
  <2> HIDE DEF A
  <2> QED
    BY <1>6 DEF Max
<1>q. QED
  BY <1>1, <1>7

-----------------------------------------------------------------------------
(* The walk begins, and rows change *)

LEMMA WalkInvInit == WalkInit => WalkInv
<1>1. SUFFICES ASSUME WalkInit PROVE WalkInv
  OBVIOUS
<1>2. PICK S \in SUBSET (1 .. MaxId - 1) : rows \in [S -> RowRecords]
  BY <1>1 DEF WalkInit
<1>3. DOMAIN rows \subseteq 1 .. MaxId /\ \A i \in DOMAIN rows : rows[i] \in RowRecords
  BY <1>2, BoundsAssumption
<1>4. Limit \in Nat \ {0} /\ Retries \in Nat /\ MaxRowChanges \in Nat
  BY SizesAssumption, BoundsAssumption
<1>5. <<>> \in Seq(1 .. MaxId) /\ Len(<<>>) = 0 /\ <<>> \o <<>> = <<>>
  BY EmptySeq, ConcatEmptySeq
<1>6. WalkTypeOK
  BY <1>1, <1>3, <1>4, <1>5 DEF WalkInit, WalkTypeOK, Listed
<1>7. Fits(seen \o edges, cursor, pc)
  BY <1>1, <1>5, NothingIsInOrder DEF WalkInit, Fits
<1>q. QED
  BY <1>1, <1>6, <1>7 DEF WalkInit, WalkInv

\* Rows may come, go and move: what kept its place has kept its neighbours' order.
LEMMA ChangeKeeps ==
  ASSUME WalkInv, WalkTypeOK', Change, steady' \subseteq steady,
         \A i \in steady' : i \in Listed' /\ Place(i)' = Place(i)
  PROVE  WalkInv'
<1>1. /\ listing' = listing /\ order' = order /\ cursor' = cursor /\ pc' = pc
      /\ edges' = edges /\ seen' = seen /\ changes' = changes + 1
  BY DEF Change
<1>2. CursorFits' => CursorFits
  <2>1. changes \in Nat
    BY BoundsAssumption DEF WalkInv, WalkTypeOK
  <2>q. QED
    BY <1>1, <2>1 DEF CursorFits
<1>3. ASSUME Fits(seen \o edges, cursor, pc) PROVE Fits(seen \o edges, cursor, pc)'
  <2> DEFINE q == seen \o edges
  <2>1. q' = q
    BY <1>1
  <2>2. \A p1, p2 : Ahead(p1, p2)' <=> Ahead(p1, p2)
    BY <1>1 DEF Ahead
  <2>3. \A i \in steady' : Passed(cursor, i)' <=> Passed(cursor, i)
    BY <1>1 DEF Passed, Ahead
  <2>4. KeptInOrder(q)'
    <3>1. SUFFICES ASSUME NEW m \in DOMAIN q, NEW n \in DOMAIN q, m < n,
                          q[m] \in steady', q[n] \in steady'
                   PROVE  Ahead(Place(q[m]), Place(q[n]))'
      BY <2>1 DEF KeptInOrder
    <3>2. Ahead(Place(q[m]), Place(q[n]))
      BY <1>3, <3>1 DEF Fits, KeptInOrder
    <3>3. Place(q[m])' = Place(q[m]) /\ Place(q[n])' = Place(q[n])
      BY <2>1, <3>1
    <3>q. QED
      BY <1>1, <3>2, <3>3 DEF Ahead
  <2>5. pc = "done" => steady' \subseteq ToSet(q)'
    BY <1>3, <2>1 DEF Fits, ToSet
  <2>6. pc # "done" /\ cursor = <<>> => q' = <<>>
    BY <1>3, <2>1 DEF Fits
  <2>7. pc # "done" /\ cursor # <<>> => \A i \in steady' : i \in ToSet(q)' <=> Passed(cursor, i)'
    BY <1>3, <2>1, <2>3 DEF Fits, ToSet
  <2>q. QED
    BY <1>1, <2>4, <2>5, <2>6, <2>7 DEF Fits
<1>q. QED
  BY <1>2, <1>3 DEF WalkInv

LEMMA InsertKeeps ==
  ASSUME WalkInv, Insert
  PROVE  WalkInv'
<1> DEFINE new == Max(DOMAIN rows \cup {0}) + 1
<1>1. PICK r \in RowRecords :
        /\ new <= MaxId
        /\ rows' = [i \in DOMAIN rows \cup {new} |-> IF i = new THEN r ELSE rows[i]]
  BY DEF Insert
<1>2. new \in Nat \ {0} /\ \A i \in DOMAIN rows : i < new
  BY GreatestId, RowIdsAreNats DEF WalkInv
<1> HIDE DEF new
<1>3. WalkTypeOK /\ steady \subseteq Listed /\ Change /\ steady' = steady
  BY DEF WalkInv, Insert
<1>4. /\ DOMAIN rows' = DOMAIN rows \cup {new} /\ new \notin DOMAIN rows
      /\ \A i \in DOMAIN rows : rows'[i] = rows[i]
  BY <1>1, <1>2, <1>3, RowIdsAreNats
<1>5. WalkTypeOK'
  <2>1. DOMAIN rows' \subseteq 1 .. MaxId /\ \A i \in DOMAIN rows' : rows'[i] \in RowRecords
    BY <1>1, <1>2, <1>3, <1>4, BoundsAssumption DEF WalkTypeOK
  <2>q. QED
    BY <1>3, <1>4, <2>1, BoundsAssumption DEF WalkTypeOK, Change
<1>6. \A i \in steady' : i \in Listed' /\ Place(i)' = Place(i)
  BY <1>3, <1>4 DEF Listed, Place, Change
<1>q. QED
  BY <1>3, <1>5, <1>6, ChangeKeeps

LEMMA DeleteKeeps ==
  ASSUME WalkInv, NEW i \in DOMAIN rows, Delete(i)
  PROVE  WalkInv'
<1>1. WalkTypeOK /\ steady \subseteq Listed /\ Change /\ steady' = steady \ {i}
  BY DEF WalkInv, Delete
<1>2. DOMAIN rows' = DOMAIN rows \ {i} /\ \A j \in DOMAIN rows' : rows'[j] = rows[j]
  BY DEF Delete
<1>3. WalkTypeOK'
  <2>1. DOMAIN rows' \subseteq 1 .. MaxId /\ \A j \in DOMAIN rows' : rows'[j] \in RowRecords
    BY <1>1, <1>2 DEF WalkTypeOK
  <2>q. QED
    BY <1>1, <1>2, <2>1, BoundsAssumption DEF WalkTypeOK, Change
<1>4. \A j \in steady' : j \in Listed' /\ Place(j)' = Place(j)
  BY <1>1, <1>2 DEF Listed, Place, Change
<1>q. QED
  BY <1>1, <1>3, <1>4, ChangeKeeps

LEMMA UpdateKeeps ==
  ASSUME WalkInv, NEW i \in DOMAIN rows, NEW r \in RowRecords, Update(i, r)
  PROVE  WalkInv'
<1>1. WalkTypeOK /\ steady \subseteq Listed /\ Change
  BY DEF WalkInv, Update
<1>2. /\ DOMAIN rows' = DOMAIN rows /\ rows'[i] = r
      /\ \A j \in DOMAIN rows : j # i => rows'[j] = rows[j]
  BY DEF Update
<1>3. /\ steady' \subseteq steady
      /\ i \in steady' => Place(i)' = Place(i) /\ i \in Listed'
  BY DEF Update
<1>4. WalkTypeOK'
  <2>1. DOMAIN rows' \subseteq 1 .. MaxId /\ \A j \in DOMAIN rows' : rows'[j] \in RowRecords
    BY <1>1, <1>2 DEF WalkTypeOK
  <2>q. QED
    BY <1>1, <1>2, <1>3, <2>1, BoundsAssumption DEF WalkTypeOK, Change
<1>5. \A j \in steady' : j # i => j \in Listed' /\ Place(j)' = Place(j)
  BY <1>1, <1>2, <1>3 DEF Listed, Place, Change
<1>q. QED
  BY <1>1, <1>3, <1>4, <1>5, ChangeKeeps

-----------------------------------------------------------------------------
(* Pages of spans, sessions, projects and traces over REST *)

\* Where the cursor fits, the order of the rows is that of their ids.
LEMMA PlaceById ==
  ASSUME WalkTypeOK, CursorFits, listing # "root", NEW i \in DOMAIN rows, NEW j \in DOMAIN rows
  PROVE  Ahead(Place(i), Place(j)) <=> Ahead(<<0, i>>, <<0, j>>)
<1>1. i \in Nat /\ j \in Nat /\ rows[i].start \in Nat /\ rows[j].start \in Nat
  BY RowIdsAreNats
<1>2. CASE listing = "id"
  BY <1>2 DEF Place
<1>3. CASE listing = "time"
  <2>1. /\ i < j => rows[i].start <= rows[j].start
        /\ j < i => rows[j].start <= rows[i].start
    BY <1>3 DEF CursorFits
  <2>2. Place(i) = <<rows[i].start, i>> /\ Place(j) = <<rows[j].start, j>>
    BY <1>3 DEF Place
  <2>3. i = j \/ i < j \/ j < i
    BY <1>1
  <2>q. QED
    BY <1>1, <2>1, <2>2, <2>3 DEF Ahead, Less
<1>q. QED
  BY <1>2, <1>3, ListingsAssumption DEF WalkTypeOK

LEMMA RestPageKeeps ==
  ASSUME WalkInv, RestPage
  PROVE  WalkInv'
<1> DEFINE S == {i \in DOMAIN rows : FromId(i)}
           found == InOrder(S)
           n == IF Len(found) > Limit THEN Limit ELSE Len(found)
           p == FirstOf(found, n)
<1>1. /\ WalkTypeOK /\ steady \subseteq Listed /\ listing # "root" /\ pc = "ask"
      /\ UNCHANGED <<listing, rows, order, edges, retries, steady, changes>>
      /\ CursorFits' => CursorFits
  BY DEF WalkInv, RestPage, CursorFits
<1>2. Limit \in Nat \ {0} /\ S \in SUBSET DOMAIN rows /\ steady \subseteq DOMAIN rows
  BY <1>1, SizesAssumption DEF WalkTypeOK
<1>3. /\ Len(found) \in Nat /\ found \in Seq(S)
  BY <1>1, <1>2, InOrderLists
<1>4. n \in 0 .. Len(found)
  BY <1>2, <1>3
<1> HIDE DEF S
<1>5. /\ p \in Seq(S) /\ KeptInOrder(p)
      /\ n = Len(found) => ToSet(p) = S
      /\ n < Len(found) =>
           /\ found[n + 1] \in S
           /\ \A i \in S : i \in ToSet(p) <=> Ahead(Place(i), Place(found[n + 1]))
  BY <1>1, <1>2, <1>4, FirstOfInOrder
<1>6. seen' = seen \o p
  <2>1. CASE Len(found) > Limit
    BY <1>1, <2>1 DEF RestPage, S
  <2>2. CASE ~(Len(found) > Limit)
    <3>1. p = found
      BY <1>3, <2>2, SubSeqFull DEF FirstOf
    <3>q. QED
      BY <1>1, <2>2, <3>1 DEF RestPage, S
  <2>q. QED
    BY <2>1, <2>2
<1>7. \/ /\ n < Len(found) /\ n = Limit
         /\ cursor' = Place(found[n + 1]) /\ pc' = "ask"
      \/ n = Len(found) /\ cursor' = <<>> /\ pc' = "done"
  BY <1>2, <1>3 DEF RestPage, S
<1> HIDE DEF found, n, p
<1>8. p \in Seq(1 .. MaxId) /\ seen \in Seq(1 .. MaxId) /\ edges = <<>>
  <2>1. S \subseteq 1 .. MaxId
    BY <1>1, <1>2, RowIdsAreNats
  <2>q. QED
    BY <1>1, <1>5, <2>1, SeqMonotonic DEF WalkTypeOK
<1>9. seen \o edges = seen /\ (seen \o edges)' = seen \o p
  <2>1. seen \o p \in Seq(1 .. MaxId)
    BY <1>8, ConcatProperties
  <2>q. QED
    BY <1>1, <1>6, <1>8, <2>1, ConcatEmptySeq
<1>10. WalkTypeOK'
  <2>1. seen' \in Seq(1 .. MaxId)
    BY <1>6, <1>8, ConcatProperties
  <2>2. cursor' \in {<<>>} \cup (0 .. MaxTime) \X (1 .. MaxId)
    <3>1. ASSUME n < Len(found) PROVE Place(found[n + 1]) \in (0 .. MaxTime) \X (1 .. MaxId)
      BY <1>1, <1>2, <1>5, <3>1, PlacesAreSpots
    <3>q. QED
      BY <1>7, <3>1
  <2>q. QED
    BY <1>1, <1>7, <2>1, <2>2 DEF WalkTypeOK
<1>11. ASSUME CursorFits PROVE Fits(seen \o edges, cursor, pc)'
  <2>1. Fits(seen, cursor, "ask")
    BY <1>1, <1>9, <1>11 DEF WalkInv
  <2>2. ASSUME NEW i \in steady, i \notin S
        PROVE  cursor # <<>> /\ cursor[2] \in Nat /\ Ahead(<<0, i>>, <<0, cursor[2]>>)
    BY <1>1, <1>2, <2>2 DEF S, FromId, WalkTypeOK
  <2>3. ASSUME NEW i \in S, cursor # <<>>
        PROVE  cursor[2] \in Nat /\ ~Ahead(<<0, i>>, <<0, cursor[2]>>)
    BY <1>1, <2>3 DEF S, FromId, WalkTypeOK
  <2>4. \A i \in steady : i \in ToSet(seen) <=> i \notin S
    <3>1. CASE cursor = <<>>
      <4>1. \A i \in steady : i \in S
        BY <2>2, <3>1
      <4>2. ToSet(seen) = {}
        BY <2>1, <3>1, NothingIsInOrder DEF Fits
      <4>q. QED
        BY <4>1, <4>2
    <3>2. CASE cursor # <<>>
      <4>1. \A i \in steady : i \in ToSet(seen) <=> Ahead(<<0, i>>, <<0, cursor[2]>>)
        BY <1>1, <2>1, <3>2 DEF Fits, Passed
      <4>q. QED
        BY <2>2, <2>3, <3>2, <4>1
    <3>q. QED
      BY <3>1, <3>2
  <2>5. ASSUME NEW i \in steady, i \notin S, NEW j \in S
        PROVE  Ahead(Place(i), Place(j))
    <3>1. /\ cursor # <<>> /\ cursor[2] \in Nat
          /\ Ahead(<<0, i>>, <<0, cursor[2]>>) /\ ~Ahead(<<0, j>>, <<0, cursor[2]>>)
      BY <2>2, <2>3, <2>5
    <3>2. i \in DOMAIN rows /\ j \in DOMAIN rows /\ i \in Nat /\ j \in Nat
      BY <1>1, <1>2, RowIdsAreNats
    <3>3. Ahead(<<0, i>>, <<0, j>>)
      BY <1>1, <3>1, <3>2, RowIdsAreNats DEF Ahead, Less
    <3>q. QED
      BY <1>1, <1>11, <3>2, <3>3, PlaceById
  <2>6. KeptInOrder(seen \o p) /\ ToSet(seen \o p) = ToSet(seen) \cup ToSet(p)
    <3>1. ToSet(p) \subseteq S
      BY <1>5, MembersOfSeq
    <3>2. \A i \in ToSet(seen) \cap steady, j \in ToSet(p) \cap steady : Ahead(Place(i), Place(j))
      BY <2>4, <2>5, <3>1
    <3>3. KeptInOrder(seen)
      BY <2>1 DEF Fits
    <3>q. QED
      BY <1>5, <1>8, <3>2, <3>3, JoinedInOrder
  <2>7. Fits(seen \o p, cursor', pc')
    <3>1. CASE n = Len(found) /\ pc' = "done"
      <4>1. \A i \in steady : i \in ToSet(seen \o p)
        BY <1>5, <2>4, <2>6, <3>1
      <4>q. QED
        BY <2>6, <3>1, <4>1 DEF Fits
    <3>2. CASE n < Len(found) /\ cursor' = Place(found[n + 1]) /\ pc' = "ask"
      <4> DEFINE k == found[n + 1]
      <4>1. k \in S /\ \A i \in S : i \in ToSet(p) <=> Ahead(Place(i), Place(k))
        BY <1>5, <3>2
      <4>2. k \in DOMAIN rows /\ cursor' = Place(k)
        BY <1>2, <3>2, <4>1
      <4> HIDE DEF k
      <4>3. Place(k)[2] = k /\ Place(k) # <<>>
        BY <1>1, <4>2, PlacesAreSpots DEF Spots
      <4>4. \A i \in steady : i \in ToSet(seen \o p) <=> Ahead(Place(i), Place(k))
        <5>1. ASSUME NEW i \in steady, i \in S
              PROVE  i \in ToSet(seen \o p) <=> Ahead(Place(i), Place(k))
          BY <2>4, <2>6, <4>1, <5>1
        <5>2. ASSUME NEW i \in steady, i \notin S
              PROVE  i \in ToSet(seen \o p) <=> Ahead(Place(i), Place(k))
          BY <2>4, <2>5, <2>6, <4>1, <5>2
        <5>q. QED
          BY <5>1, <5>2
      <4>5. \A i \in steady : Ahead(Place(i), Place(k)) <=> Ahead(<<0, i>>, <<0, k>>)
        BY <1>1, <1>2, <1>11, <4>2, PlaceById
      <4>6. \A i \in steady : i \in ToSet(seen \o p) <=> Passed(cursor', i)
        BY <1>1, <4>2, <4>3, <4>4, <4>5 DEF Passed
      <4>q. QED
        BY <2>6, <3>2, <4>2, <4>3, <4>6 DEF Fits
    <3>q. QED
      BY <1>7, <3>1, <3>2
  <2>q. QED
    BY <1>1, <1>9, <2>7 DEF Fits, KeptInOrder, Passed, Place, Ahead
<1>12. steady' \subseteq Listed'
  BY <1>1 DEF Listed
<1>q. QED
  BY <1>1, <1>10, <1>11, <1>12 DEF WalkInv

-----------------------------------------------------------------------------
(* Root spans by the start time of their traces *)

\* The traces after the cursor, and those that a query for n of them reads.
After == {i \in DOMAIN rows : AfterPlace(i)}
Taken(n) == FirstOf(InOrder(After), IF Len(InOrder(After)) < n THEN Len(InOrder(After)) ELSE n)
Rooted(n) == {i \in ToSet(Taken(n)) : rows[i].rooted}

LEMMA QueryIs ==
  ASSUME NEW n
  PROVE  /\ Query(n).edges = InOrder(Rooted(n))
         /\ Query(n).end = IF Taken(n) = <<>> THEN <<>> ELSE Place(Last(Taken(n)))
         /\ Query(n).more <=> Len(InOrder(After)) > n
BY DEF Query, Taken, After, Rooted

\* An answer's edges are no more than the traces that it read.
LEMMA MembersAreNoMore ==
  ASSUME NEW T, NEW s \in Seq(T), NEW E \in SUBSET ToSet(s)
  PROVE  IsFiniteSet(E) /\ Cardinality(E) <= Len(s)
<1> DEFINE R == ToSet(s)
<1>1. /\ Len(s) \in Nat /\ DOMAIN s = 1 .. Len(s) /\ s \in [1 .. Len(s) -> T]
      /\ \A x : x \in R <=> \E n \in DOMAIN s : s[n] = x
  BY MembersOfSeq, LenProperties
<1> HIDE DEF R
<1>2. s \in Surjection(1 .. Len(s), R)
  BY <1>1 DEF Surjection
<1>3. IsFiniteSet(1 .. Len(s)) /\ Cardinality(1 .. Len(s)) = Len(s)
  <2>1. Len(s) \in Int /\ 1 \in Int /\ (1 > Len(s) => Len(s) = 0)
    BY <1>1
  <2>q. QED
    BY <2>1, FS_Interval
<1>4. IsFiniteSet(R) /\ Cardinality(R) <= Len(s)
  BY <1>2, <1>3, FS_Surjection
<1>5. E \subseteq R
  BY DEF R
<1>6. IsFiniteSet(E) /\ Cardinality(E) <= Cardinality(R)
  BY <1>4, <1>5, FS_Subset
<1>7. Cardinality(E) \in Nat /\ Cardinality(R) \in Nat
  BY <1>4, <1>6, FS_CardinalityType
<1>q. QED
  BY <1>1, <1>4, <1>6, <1>7

LEMMA QueryAnswers ==
  ASSUME WalkTypeOK, NEW n \in Nat \ {0}
  PROVE  /\ Rooted(n) \in SUBSET After /\ After \in SUBSET DOMAIN rows
         /\ Query(n).edges = InOrder(Rooted(n))
         /\ Len(InOrder(Rooted(n))) <= n
         /\ Query(n).end = <<>> => After = {} /\ ~Query(n).more
         /\ Query(n).end # <<>> =>
              /\ \E k \in After : Query(n).end = Place(k)
              /\ \A i \in After :
                   rows[i].rooted => (i \in Rooted(n) <=> ~Ahead(Query(n).end, Place(i)))
         /\ ~Query(n).more => \A i \in After : rows[i].rooted => i \in Rooted(n)
<1> DEFINE f == InOrder(After)
           l == IF Len(f) < n THEN Len(f) ELSE n
           p == Taken(n)
<1>1. After \in SUBSET DOMAIN rows
  BY DEF After
<1>2. /\ Len(f) \in Nat /\ Len(f) = Cardinality(After)
      /\ \A i \in After : \E k \in DOMAIN f : f[k] = i
      /\ DOMAIN f = 1 .. Len(f)
  BY <1>1, InOrderLists
<1>3. l \in 0 .. Len(f) /\ p = FirstOf(f, l)
  BY <1>2 DEF Taken
<1>4. /\ p \in Seq(After) /\ Len(p) = l
      /\ \A k \in 1 .. l : p[k] \in After
      /\ l = Len(f) => ToSet(p) = After
      /\ l > 0 => \A i \in After : i \in ToSet(p) <=> ~Ahead(Place(p[l]), Place(i))
  <2> HIDE DEF l, p
  <2>q. QED
    BY <1>1, <1>3, FirstOfInOrder DEF f
<1>5. /\ Query(n).edges = InOrder(Rooted(n))
      /\ Query(n).end = IF p = <<>> THEN <<>> ELSE Place(Last(p))
      /\ Query(n).more <=> Len(f) > n
      /\ Rooted(n) = {i \in ToSet(p) : rows[i].rooted}
  BY QueryIs DEF Rooted
<1>6. l \in Nat /\ l <= n /\ (l = 0 => Len(f) = 0) /\ (~(Len(f) > n) => l = Len(f))
  BY <1>2
<1> HIDE DEF f, l, p
<1>7. (p = <<>> <=> l = 0) /\ (l > 0 => Last(p) = p[l] /\ l \in 1 .. l)
  BY <1>4, <1>6, EmptySeq DEF Last
<1>8. Rooted(n) \in SUBSET After
  BY <1>4, <1>5, MembersOfSeq
<1>9. Len(InOrder(Rooted(n))) <= n
  <2>1. Rooted(n) \in SUBSET DOMAIN rows
    BY <1>1, <1>8
  <2>2. Len(InOrder(Rooted(n))) = Cardinality(Rooted(n)) /\ Len(InOrder(Rooted(n))) \in Nat
    BY <2>1, InOrderLists
  <2>3. Rooted(n) \in SUBSET ToSet(p)
    BY <1>5
  <2>4. Cardinality(Rooted(n)) <= Len(p)
    BY <1>4, <2>3, MembersAreNoMore
  <2>q. QED
    BY <1>4, <1>6, <2>2, <2>4
<1>10. \A k \in After : Place(k) # <<>>
  BY <1>1, PlacesAreSpots DEF Spots
<1>11. ASSUME Query(n).end = <<>> PROVE After = {} /\ ~Query(n).more
  <2>1. l = 0
    BY <1>4, <1>5, <1>6, <1>7, <1>10, <1>11
  <2>2. Len(f) = 0
    BY <1>6, <2>1
  <2>q. QED
    BY <1>2, <1>5, <2>2
<1>12. ASSUME Query(n).end # <<>>
       PROVE  /\ \E k \in After : Query(n).end = Place(k)
              /\ \A i \in After :
                   rows[i].rooted => (i \in Rooted(n) <=> ~Ahead(Query(n).end, Place(i)))
  <2>1. l > 0 /\ Query(n).end = Place(p[l]) /\ p[l] \in After
    BY <1>4, <1>5, <1>6, <1>7, <1>12
  <2>q. QED
    BY <1>4, <1>5, <2>1
<1>13. ASSUME ~Query(n).more PROVE \A i \in After : rows[i].rooted => i \in Rooted(n)
  BY <1>4, <1>5, <1>6, <1>13
<1>q. QED
  BY <1>1, <1>5, <1>8, <1>9, <1>11, <1>12, <1>13

\* p is the first m edges of a query for n traces, end the cursor that goes with
\* them: that of all the traces read, or of the last edge; at says if more follow.
Reaches(n, m, p, end, at) ==
  /\ p = FirstOf(Query(n).edges, m) /\ at \in {"ask", "done"}
  /\ at = "done" => m = Len(Query(n).edges) /\ ~Query(n).more
  /\ \/ m = Len(Query(n).edges) /\ end = Query(n).end /\ (at = "ask" => Query(n).more)
     \/ m > 0 /\ end = Place(p[m])

\* What an answer holds after m of a query's edges, with the cursor that goes with it.
LEMMA RootsFit ==
  ASSUME WalkTypeOK, steady \subseteq Listed, listing = "root", pc # "done",
         NEW shown \in Seq(1 .. MaxId), Fits(shown, cursor, pc),
         NEW n \in Nat \ {0}, NEW m \in 0 .. Len(Query(n).edges),
         NEW p, NEW end, NEW at, Reaches(n, m, p, end, at)
  PROVE  /\ p \in Seq(1 .. MaxId) /\ Len(p) = m
         /\ end \in {<<>>} \cup (0 .. MaxTime) \X (1 .. MaxId)
         /\ Fits(shown \o p, end, at)
<1> DEFINE E == Rooted(n)
           q == Query(n)
<1>0. /\ p = FirstOf(q.edges, m) /\ at \in {"ask", "done"}
      /\ at = "done" => m = Len(q.edges) /\ ~q.more
      /\ \/ m = Len(q.edges) /\ end = q.end /\ (at = "ask" => q.more)
         \/ m > 0 /\ end = Place(p[m])
  BY DEF Reaches
<1>1. /\ E \in SUBSET After /\ After \in SUBSET DOMAIN rows
      /\ q.edges = InOrder(E)
      /\ q.end = <<>> => After = {} /\ ~q.more
      /\ q.end # <<>> =>
           /\ \E k \in After : q.end = Place(k)
           /\ \A i \in After : rows[i].rooted => (i \in E <=> ~Ahead(q.end, Place(i)))
      /\ ~q.more => \A i \in After : rows[i].rooted => i \in E
  BY QueryAnswers
<1> HIDE DEF E, q
<1>2. /\ p \in Seq(E) /\ Len(p) = m
      /\ \A k \in 1 .. m : p[k] \in E
      /\ KeptInOrder(p)
      /\ m = Len(q.edges) => ToSet(p) = E
      /\ m > 0 => \A i \in E : i \in ToSet(p) <=> ~Ahead(Place(p[m]), Place(i))
  <2>1. m \in 0 .. Len(InOrder(E)) /\ p = FirstOf(InOrder(E), m) /\ E \in SUBSET DOMAIN rows
    BY <1>0, <1>1 DEF q
  <2>q. QED
    BY <1>1, <2>1, FirstOfInOrder
<1>3. ToSet(p) \subseteq E
  BY <1>2, MembersOfSeq
<1>4. p \in Seq(1 .. MaxId)
  <2>1. E \subseteq 1 .. MaxId
    BY <1>1, RowIdsAreNats
  <2>q. QED
    BY <1>2, <2>1, SeqMonotonic
<1>5. /\ \A i \in steady : i \in DOMAIN rows /\ rows[i].rooted
      /\ \A i \in DOMAIN rows : Place(i) \in (0 .. MaxTime) \X (1 .. MaxId) /\ Place(i) # <<>>
      /\ order \in {"asc", "desc"}
  BY PlacesAreSpots, RowIdsAreNats DEF Listed, Spots
<1>c. cursor # <<>> => cursor \in Spots
  BY RowIdsAreNats DEF WalkTypeOK, Spots
<1>s. \A i \in DOMAIN rows : Place(i) \in Spots
  BY PlacesAreSpots
<1>6. \A i \in DOMAIN rows : i \in After <=> cursor = <<>> \/ Ahead(cursor, Place(i))
  BY DEF After, AfterPlace
<1>7. \A i \in steady : i \in ToSet(shown) <=> i \notin After
  <2>1. CASE cursor = <<>>
    <3>1. shown = <<>>
      BY <2>1 DEF Fits
    <3>q. QED
      BY <1>5, <1>6, <2>1, <3>1, NothingIsInOrder
  <2>2. CASE cursor # <<>>
    BY <1>5, <1>6, <2>2 DEF Fits, Passed
  <2>q. QED
    BY <2>1, <2>2
<1>8. ASSUME NEW i \in steady, i \notin After, NEW j \in After
      PROVE  Ahead(Place(i), Place(j))
  <2>1. cursor # <<>> /\ ~Ahead(cursor, Place(i)) /\ Ahead(cursor, Place(j))
    BY <1>1, <1>5, <1>6, <1>8
  <2>2. cursor \in Spots /\ Place(i) \in Spots /\ Place(j) \in Spots
    BY <1>1, <1>5, <1>8, <1>c, <1>s, <2>1
  <2>3. Place(i) # Place(j)
    BY <2>1
  <2>q. QED
    BY <1>5, <2>1, <2>2, <2>3, AheadOrders
<1>9. KeptInOrder(shown \o p) /\ ToSet(shown \o p) = ToSet(shown) \cup ToSet(p)
  <2>1. \A i \in ToSet(shown) \cap steady, j \in ToSet(p) \cap steady : Ahead(Place(i), Place(j))
    BY <1>1, <1>3, <1>7, <1>8
  <2>2. KeptInOrder(shown)
    BY DEF Fits
  <2>q. QED
    BY <1>2, <1>4, <2>1, <2>2, JoinedInOrder
<1>10. end = <<>> \/ \E k \in After : end = Place(k)
  BY <1>0, <1>1, <1>2
<1>11. ASSUME at = "done" PROVE steady \subseteq ToSet(shown \o p)
  <2>1. ToSet(p) = E /\ ~q.more
    BY <1>0, <1>2, <1>11
  <2>q. QED
    BY <1>1, <1>5, <1>7, <1>9, <2>1
<1>12. ASSUME at = "ask"
       PROVE  end # <<>> /\ \A i \in steady : i \in ToSet(shown \o p) <=> ~Ahead(end, Place(i))
  <2>1. end # <<>>
    <3>1. CASE m = Len(q.edges) /\ end = q.end /\ q.more
      BY <1>1, <1>12, <3>1
    <3>2. CASE m > 0 /\ end = Place(p[m])
      <4>1. m \in 1 .. m
        BY <1>2, <3>2, LenProperties
      <4>2. p[m] \in DOMAIN rows
        BY <1>1, <1>2, <4>1
      <4>q. QED
        BY <1>5, <3>2, <4>2
    <3>q. QED
      BY <1>0, <1>12, <3>1, <3>2
  <2>2. PICK k \in After : end = Place(k)
    BY <1>10, <2>1
  <2>3. ASSUME NEW i \in steady, i \notin After
        PROVE  i \in ToSet(shown \o p) <=> ~Ahead(end, Place(i))
    <3>1. Ahead(Place(i), Place(k)) /\ i \in DOMAIN rows /\ k \in DOMAIN rows
      BY <1>1, <1>5, <1>8, <2>2, <2>3
    <3>2. ~Ahead(end, Place(i))
      BY <2>2, <3>1, RowsAreOrdered
    <3>q. QED
      BY <1>7, <1>9, <2>3, <3>2
  <2>4. ASSUME NEW i \in steady, i \in After
        PROVE  i \in ToSet(shown \o p) <=> ~Ahead(end, Place(i))
    <3>1. i \in ToSet(shown \o p) <=> i \in ToSet(p)
      BY <1>7, <1>9, <2>4
    <3>2. rows[i].rooted /\ i \in DOMAIN rows
      BY <1>5
    <3>3. CASE m = Len(q.edges) /\ end = q.end
      BY <1>1, <1>2, <2>1, <2>4, <3>1, <3>2, <3>3
    <3>4. CASE m > 0 /\ end = Place(p[m])
      <4>1. p[m] \in E /\ p[m] \in DOMAIN rows
        BY <1>1, <1>2, <3>4
      <4>2. CASE i \in E
        BY <1>2, <3>1, <3>4, <4>2
      <4>3. CASE i \notin E
        <5>1. q.end # <<>> /\ rows[p[m]].rooted
          BY <1>1, <2>4, <4>1 DEF E, Rooted
        <5>2. Ahead(q.end, Place(i)) /\ ~Ahead(q.end, Place(p[m]))
          BY <1>1, <2>4, <3>2, <4>1, <4>3, <5>1
        <5>3. q.end \in Spots /\ Place(i) \in Spots /\ Place(p[m]) \in Spots
          BY <1>1, <1>s, <3>2, <4>1, <5>1
        <5>4. Ahead(Place(p[m]), Place(i))
          BY <1>5, <5>2, <5>3, AheadOrders
        <5>q. QED
          BY <1>3, <3>1, <3>4, <4>3, <5>4
      <4>q. QED
        BY <4>2, <4>3
    <3>q. QED
      BY <1>0, <3>3, <3>4
  <2>q. QED
    BY <2>1, <2>3, <2>4
<1>13. Fits(shown \o p, end, at)
  BY <1>0, <1>9, <1>11, <1>12 DEF Fits, Passed
<1>q. QED
  BY <1>1, <1>2, <1>4, <1>5, <1>10, <1>13

\* An answer, or another query of it: with the edges e that fit, the walk does.
LEMMA AnswersKeep ==
  ASSUME WalkInv, listing = "root", NEW e \in Seq(1 .. MaxId), Len(e) <= Limit,
         NEW end \in {<<>>} \cup (0 .. MaxTime) \X (1 .. MaxId), NEW more \in BOOLEAN,
         NEW left \in 0 .. Retries, AnswerOrGoOn(e, end, more, left),
         UNCHANGED <<listing, rows, order, steady, changes>>,
         Fits(seen \o e, end, IF more THEN "ask" ELSE "done")
  PROVE  WalkInv'
<1>0. WalkTypeOK /\ steady \subseteq Listed
  BY DEF WalkInv
<1>a. /\ WalkTypeOK' /\ (seen \o edges)' = seen \o e
      /\ pc' \in {"ask", "more", "done"} /\ (pc' = "done" <=> ~more)
  <2>1. Limit \in Nat \ {0} /\ seen \in Seq(1 .. MaxId) /\ Retries \in Nat /\ Len(e) \in Nat
    BY <1>0, SizesAssumption, LenProperties DEF WalkTypeOK
  <2>2. seen \o e \in Seq(1 .. MaxId)
    BY <2>1, ConcatProperties
  <2>3. CASE Len(e) < Limit /\ more /\ left > 0
    <3>1. pc' = "more" /\ edges' = e /\ retries' = left /\ seen' = seen /\ cursor' = end
      BY <2>3 DEF AnswerOrGoOn
    <3>q. QED
      BY <1>0, <2>1, <2>3, <3>1 DEF WalkTypeOK
  <2>4. CASE ~(Len(e) < Limit /\ more /\ left > 0)
    <3>1. /\ pc' = (IF more THEN "ask" ELSE "done") /\ cursor' = end
          /\ edges' = <<>> /\ retries' = 0 /\ seen' = seen \o e
      BY <2>4 DEF AnswerOrGoOn
    <3>2. (seen \o edges)' = seen \o e
      BY <2>2, <3>1, ConcatEmptySeq
    <3>3. <<>> \in Seq(1 .. MaxId) /\ Len(<<>>) = 0
      OBVIOUS
    <3>4. pc' \in {"ask", "more", "done"} /\ (pc' = "done" <=> ~more) /\ pc' # "more"
      BY <3>1
    <3>5. seen' \in Seq(1 .. MaxId) /\ edges' \in Seq(1 .. MaxId) /\ Len(edges') < Limit
      BY <2>1, <2>2, <3>1, <3>3
    <3>q. QED
      BY <1>0, <2>1, <3>1, <3>2, <3>4, <3>5 DEF WalkTypeOK
  <2>q. QED
    BY <2>3, <2>4
<1>b. cursor' = end
  BY DEF AnswerOrGoOn
<1>c. Fits(seen \o e, end, pc')
  BY <1>a DEF Fits
<1>d. Fits(seen \o edges, cursor, pc)'
  BY <1>a, <1>b, <1>c DEF Fits, KeptInOrder, Passed, Place, Ahead
<1>e. steady' \subseteq Listed'
  BY <1>0 DEF Listed
<1>q. QED
  BY <1>a, <1>d, <1>e DEF WalkInv

LEMMA AnswersFit ==
  ASSUME WalkInv, listing = "root", pc # "done",
         NEW n \in Nat \ {0}, NEW m \in 0 .. Len(Query(n).edges),
         Len(edges) + m <= Limit, NEW p, NEW end, NEW at, Reaches(n, m, p, end, at)
  PROVE  /\ edges \o p \in Seq(1 .. MaxId) /\ Len(edges \o p) <= Limit
         /\ end \in {<<>>} \cup (0 .. MaxTime) \X (1 .. MaxId)
         /\ CursorFits
         /\ Fits(seen \o (edges \o p), end, at)
<1> DEFINE shown == seen \o edges
<1>1. /\ WalkTypeOK /\ steady \subseteq Listed /\ CursorFits
      /\ seen \in Seq(1 .. MaxId) /\ edges \in Seq(1 .. MaxId)
  BY DEF WalkInv, WalkTypeOK, CursorFits
<1>2. shown \in Seq(1 .. MaxId)
  BY <1>1, ConcatProperties
<1>3. Fits(shown, cursor, pc)
  BY <1>1 DEF WalkInv
<1> HIDE DEF shown
<1>4. /\ p \in Seq(1 .. MaxId) /\ Len(p) = m
      /\ end \in {<<>>} \cup (0 .. MaxTime) \X (1 .. MaxId)
      /\ Fits(shown \o p, end, at)
  BY <1>1, <1>2, <1>3, RootsFit
<1>5. shown \o p = seen \o (edges \o p)
  BY <1>1, <1>4, ConcatAssociative, SMTT(30) DEF shown
<1>6. edges \o p \in Seq(1 .. MaxId) /\ Len(edges \o p) <= Limit
  BY <1>1, <1>4, ConcatProperties, LenProperties, SizesAssumption
<1>q. QED
  BY <1>1, <1>4, <1>5, <1>6

LEMMA RootPageKeeps ==
  ASSUME WalkInv, RootPage
  PROVE  WalkInv'
<1> DEFINE q == Query(Limit)
           m == Len(q.edges)
           p == FirstOf(q.edges, m)
<1>1. /\ WalkTypeOK /\ listing = "root" /\ pc = "ask" /\ edges = <<>>
      /\ AnswerOrGoOn(q.edges, q.end, q.more, Retries)
      /\ UNCHANGED <<listing, rows, order, steady, changes>>
  BY DEF RootPage, WalkInv, WalkTypeOK
<1>2. Limit \in Nat \ {0} /\ Retries \in 0 .. Retries
  BY SizesAssumption
<1>3. q.edges = InOrder(Rooted(Limit)) /\ Rooted(Limit) \in SUBSET DOMAIN rows /\ m <= Limit
  BY <1>1, <1>2, QueryAnswers
<1>4. q.edges \in Seq(Rooted(Limit)) /\ m \in Nat
  BY <1>1, <1>3, InOrderLists
<1>5. p = q.edges /\ edges \o p = q.edges /\ Len(edges) = 0
  BY <1>1, <1>4, SubSeqFull, ConcatEmptySeq DEF FirstOf
<1>6. q.more \in BOOLEAN /\ m \in 0 .. m /\ Len(edges) + m <= Limit
  BY <1>3, <1>4, <1>5 DEF Query
<1>7. AnswerOrGoOn(edges \o p, q.end, q.more, Retries)
  BY <1>1, <1>5
<1> HIDE DEF p, m
<1>8. p = FirstOf(Query(Limit).edges, m) /\ m = Len(Query(Limit).edges)
  BY DEF p, m
<1> DEFINE at == IF q.more THEN "ask" ELSE "done"
<1>a. /\ at \in {"ask", "done"} /\ (at = "ask" => q.more) /\ (at = "done" => ~q.more)
  OBVIOUS
<1>b. Reaches(Limit, m, p, q.end, at)
  BY <1>8, <1>a DEF Reaches
<1> HIDE DEF q, at
<1>9. /\ edges \o p \in Seq(1 .. MaxId) /\ Len(edges \o p) <= Limit
      /\ q.end \in {<<>>} \cup (0 .. MaxTime) \X (1 .. MaxId)
      /\ Fits(seen \o (edges \o p), q.end, at)
  BY <1>1, <1>2, <1>6, <1>8, <1>b, AnswersFit
<1>q. QED
  BY <1>1, <1>2, <1>6, <1>7, <1>9, AnswersKeep DEF at

LEMMA MoreRootsKeeps ==
  ASSUME WalkInv, MoreRoots
  PROVE  WalkInv'
<1> DEFINE q == Query(Batch)
           needed == Limit - Len(edges)
           m == IF Len(q.edges) < needed THEN Len(q.edges) ELSE needed
           p == FirstOf(q.edges, m)
           e == edges \o p
           more == Len(q.edges) > needed \/ q.more
<1>1. /\ WalkTypeOK /\ listing = "root" /\ pc = "more" /\ edges \in Seq(1 .. MaxId)
      /\ Len(edges) < Limit /\ retries \in 1 .. Retries
      /\ AnswerOrGoOn(e, NextEnd(e, q), more, retries - 1)
      /\ UNCHANGED <<listing, rows, order, steady, changes>>
  BY DEF MoreRoots, WalkInv, WalkTypeOK
<1>2. /\ Limit \in Nat \ {0} /\ Batch \in Nat \ {0} /\ Retries \in Nat /\ Len(edges) \in Nat
      /\ needed \in Nat \ {0} /\ retries - 1 \in 0 .. Retries
  BY <1>1, SizesAssumption, LenProperties
<1>3. q.edges = InOrder(Rooted(Batch)) /\ Rooted(Batch) \in SUBSET DOMAIN rows
  BY <1>1, <1>2, QueryAnswers
<1>4. q.edges \in Seq(Rooted(Batch)) /\ Len(q.edges) \in Nat
  BY <1>1, <1>3, InOrderLists
<1>5. /\ m \in 0 .. Len(q.edges) /\ Len(edges) + m <= Limit
      /\ Len(edges) + m < Limit => m = Len(q.edges) /\ Len(q.edges) < needed
      /\ ~(Len(edges) + m < Limit) => m = needed /\ m > 0
      /\ ~(Len(q.edges) > needed) /\ m = needed => m = Len(q.edges)
  BY <1>2, <1>4
<1>6. p \in Seq(Rooted(Batch)) /\ Len(p) = m /\ Rooted(Batch) \subseteq 1 .. MaxId
  <2> HIDE DEF m
  <2>1. m \in 0 .. Len(InOrder(Rooted(Batch))) /\ p = FirstOf(InOrder(Rooted(Batch)), m)
    BY <1>3, <1>5
  <2> HIDE DEF p
  <2>q. QED
    BY <1>1, <1>3, <2>1, FirstOfInOrder, RowIdsAreNats
<1> HIDE DEF p, m, needed
<1>7. p \in Seq(1 .. MaxId) /\ e \in Seq(1 .. MaxId) /\ Len(e) = Len(edges) + m
  <2>1. p \in Seq(1 .. MaxId)
    BY <1>6, SeqMonotonic
  <2>q. QED
    BY <1>1, <1>6, <2>1, ConcatProperties
<1>8. more \in BOOLEAN
  BY DEF Query
<1>9. /\ \/ m = Len(q.edges) /\ NextEnd(e, q) = q.end /\ (more => q.more)
         \/ m > 0 /\ NextEnd(e, q) = Place(p[m])
      /\ ~more => m = Len(q.edges) /\ ~q.more
  <2>1. CASE Len(e) < Limit
    <3>1. NextEnd(e, q) = q.end /\ m = Len(q.edges) /\ Len(q.edges) < needed
      BY <1>5, <1>7, <2>1 DEF NextEnd
    <3>2. ~(Len(q.edges) > needed)
      BY <1>2, <1>4, <3>1
    <3>q. QED
      BY <3>1, <3>2
  <2>2. CASE ~(Len(e) < Limit)
    <3>1. m = needed /\ m > 0 /\ NextEnd(e, q) = Place(Last(e))
      BY <1>5, <1>7, <2>2 DEF NextEnd
    <3>2. Last(e) = p[m]
      BY <1>1, <1>2, <1>5, <1>6, <1>7, <3>1, ConcatProperties DEF Last
    <3>q. QED
      BY <1>5, <3>1, <3>2
  <2>q. QED
    BY <2>1, <2>2
<1>10. p = FirstOf(Query(Batch).edges, m)
  BY DEF p
<1> DEFINE end == NextEnd(e, q)
           at == IF more THEN "ask" ELSE "done"
<1> HIDE DEF more
<1>11. AnswerOrGoOn(edges \o p, end, more, retries - 1)
  BY <1>1
<1>12. /\ at \in {"ask", "done"}
       /\ \/ m = Len(Query(Batch).edges) /\ end = Query(Batch).end /\ (at = "ask" => Query(Batch).more)
          \/ m > 0 /\ end = Place(p[m])
       /\ at = "done" => m = Len(Query(Batch).edges) /\ ~Query(Batch).more
  BY <1>9
<1>b. Reaches(Batch, m, p, end, at)
  BY <1>10, <1>12 DEF Reaches
<1>13. m \in 0 .. Len(Query(Batch).edges)
  BY <1>5
<1> HIDE DEF end, at
<1>14. /\ edges \o p \in Seq(1 .. MaxId) /\ Len(edges \o p) <= Limit
       /\ end \in {<<>>} \cup (0 .. MaxTime) \X (1 .. MaxId)
       /\ Fits(seen \o (edges \o p), end, at)
  BY <1>1, <1>2, <1>5, <1>13, <1>b, AnswersFit
<1>q. QED
  BY <1>1, <1>2, <1>8, <1>11, <1>14, AnswersKeep DEF at

-----------------------------------------------------------------------------
(* The listings' theorems *)

LEMMA WalkInvNext ==
  ASSUME WalkInv, [WalkNext]_walkVars
  PROVE  WalkInv'
<1>1. CASE Insert
  BY <1>1, InsertKeeps
<1>2. ASSUME NEW i \in DOMAIN rows, Delete(i)
      PROVE  WalkInv'
  BY <1>2, DeleteKeeps
<1>3. ASSUME NEW i \in DOMAIN rows, NEW r \in RowRecords, Update(i, r)
      PROVE  WalkInv'
  BY <1>3, UpdateKeeps
<1>4. CASE RestPage
  BY <1>4, RestPageKeeps
<1>5. CASE RootPage
  BY <1>5, RootPageKeeps
<1>6. CASE MoreRoots
  BY <1>6, MoreRootsKeeps
<1>7. CASE Over \/ UNCHANGED walkVars
  <2>1. UNCHANGED walkVars
    BY <1>7 DEF Over
  <2>q. QED
    <3>1. WalkTypeOK' /\ steady' \subseteq Listed' /\ (CursorFits' => CursorFits)
      BY <2>1 DEF walkVars, WalkInv, WalkTypeOK, Listed, CursorFits
    <3>2. Fits(seen \o edges, cursor, pc) => Fits(seen \o edges, cursor, pc)'
      BY <2>1 DEF walkVars, Fits, KeptInOrder, Passed, Place, Ahead
    <3>q. QED
      BY <3>1, <3>2 DEF WalkInv
<1>q. QED
  BY <1>1, <1>2, <1>3, <1>4, <1>5, <1>6, <1>7 DEF WalkNext

LEMMA WalkInvShowsInOrder == WalkInv => ShownInOrder
<1> SUFFICES ASSUME WalkInv, CursorFits PROVE KeptInOrder(seen)
  BY DEF ShownInOrder, KeptInOrder
<1>1. KeptInOrder(seen \o edges) /\ seen \in Seq(1 .. MaxId) /\ edges \in Seq(1 .. MaxId)
  BY DEF WalkInv, WalkTypeOK, Fits
<1>2. /\ Len(seen) \in Nat /\ Len(edges) \in Nat /\ DOMAIN seen = 1 .. Len(seen)
      /\ DOMAIN (seen \o edges) = 1 .. Len(seen) + Len(edges)
      /\ \A n \in DOMAIN seen : (seen \o edges)[n] = seen[n]
  BY <1>1, LenProperties, ConcatProperties
<1>3. \A n \in DOMAIN seen : n \in DOMAIN (seen \o edges)
  BY <1>2
<1>q. QED
  BY <1>1, <1>2, <1>3 DEF KeptInOrder

LEMMA WalkInvSkipsNothing == WalkInv => NothingSkipped
<1> SUFFICES ASSUME WalkInv, pc = "done", CursorFits PROVE steady \subseteq ToSet(seen)
  BY DEF NothingSkipped, WalkInv
<1>1. edges = <<>> /\ seen \in Seq(1 .. MaxId)
  BY DEF WalkInv, WalkTypeOK
<1>2. seen \o edges = seen
  BY <1>1, ConcatEmptySeq
<1>q. QED
  BY <1>2 DEF WalkInv, Fits

\* However many rows come, go or change between the pages, and at whatever limit,
\* a client is shown the rows that keep their place in the listing's order, each
\* once (get_spans, Project.spans, _paginate_span_by_trace_start_time).
THEOREM ListingShownInOrder == WalkSpec => []ShownInOrder
<1>1. WalkInit => WalkInv
  BY WalkInvInit
<1>2. WalkInv /\ [WalkNext]_walkVars => WalkInv'
  BY WalkInvNext
<1>3. WalkInv => ShownInOrder
  BY WalkInvShowsInOrder
<1>q. QED
  BY <1>1, <1>2, <1>3, PTL DEF WalkSpec

\* And a client that follows the cursors to the last page was shown every row that
\* kept its place: rows that come or go around a cursor take none off the pages.
THEOREM ListingNothingSkipped == WalkSpec => []NothingSkipped
<1>1. WalkInit => WalkInv
  BY WalkInvInit
<1>2. WalkInv /\ [WalkNext]_walkVars => WalkInv'
  BY WalkInvNext
<1>3. WalkInv => NothingSkipped
  BY WalkInvSkipsNothing
<1>q. QED
  BY <1>1, <1>2, <1>3, PTL DEF WalkSpec

-----------------------------------------------------------------------------
(* Cached answers.  StaleFits by itself is not inductive: an early event *)
(* may be read, and the answer loaded again, before its session commits.   *)
(* What forbids this is that nobody reads while the session is open        *)
(* (EarlyIsTold).                                                          *)

\* Sessions that are open change no project too often, and an early event names
\* what its session changes.
WriterFits ==
  /\ writer.at \in {"open", "told"} => \A p \in writer.projects : stored[p] < MaxChanges
  /\ writer.early => writer.ids = writer.projects
  /\ writer.at = "told" => writer.early

\* What an event in place tells of, read or in vain, and what no event told of.
Accounted == untold \cup InVain \cup IF caller = "asleep" THEN batch ELSE {}

\* Once an open session has told of a project, the answer that is cached for it is
\* one of an event in place, or is not there.
EarlyIsTold ==
  writer.at = "told" =>
    \A p \in writer.projects : p \in Accounted \/ cache[p].at # "held"

StaleFits == \A p \in Projects : Stale(p) => p \in Accounted \cup ToBePut

CacheInv == TypeOK /\ WriterFits /\ EarlyIsTold /\ StaleFits

-----------------------------------------------------------------------------
(* The operations *)

\* An event that is put is accounted for, and those before it still are.
LEMMA PutIsAccounted ==
  ASSUME NEW ids \in SUBSET Ids, TypeOK, Put(ids), UNCHANGED <<caller, history>>
  PROVE  /\ batch' \in SUBSET Ids /\ late' \in SUBSET Ids
         /\ Accounted' = Accounted \cup ids
BY DEF Put, TypeOK, Accounted, InVain, history

\* Opening a session keeps the invariant.
LEMMA BeginKeeps ==
  ASSUME CacheInv, NEW S \in SUBSET Projects, NEW ids \in SUBSET Ids, NEW early \in BOOLEAN,
         early => ids = S, Begin(S, ids, early)
  PROVE  CacheInv'
<1>1. TypeOK'
  BY DEF CacheInv, TypeOK, Begin, Writers, Places, history
<1>2. WriterFits'
  BY DEF CacheInv, Begin, WriterFits
<1>3. EarlyIsTold'
  BY DEF CacheInv, Begin, EarlyIsTold
<1>4. StaleFits'
  BY DEF CacheInv, Begin, StaleFits, Stale, Accounted, InVain, history, ToBePut
<1> QED
  BY <1>1, <1>2, <1>3, <1>4 DEF CacheInv

LEMMA PutEarlyKeeps ==
  ASSUME CacheInv, PutEarly
  PROVE  CacheInv'
<1> USE DEF CacheInv
<1>1. writer.ids \in SUBSET Ids /\ writer.ids = writer.projects /\ writer.projects \subseteq Projects
  BY DEF TypeOK, Writers, PutEarly, WriterFits
<1>2. /\ batch' \in SUBSET Ids /\ late' \in SUBSET Ids
      /\ Accounted' = Accounted \cup writer.ids
  BY <1>1, PutIsAccounted DEF PutEarly, history
<1>3. TypeOK'
  BY <1>2 DEF TypeOK, PutEarly, Writers, Places, history
<1>4. /\ writer'.at = "told" /\ writer'.early /\ writer'.projects = writer.projects
      /\ writer'.ids = writer.ids
  BY DEF PutEarly, TypeOK, Writers
<1>5. WriterFits'
  BY <1>4 DEF PutEarly, WriterFits
<1>6. EarlyIsTold'
  BY <1>1, <1>2, <1>4 DEF EarlyIsTold
<1>7. StaleFits'
  BY <1>2, <1>4 DEF PutEarly, StaleFits, Stale, ToBePut
<1> QED
  BY <1>3, <1>5, <1>6, <1>7

LEMMA CommitKeeps ==
  ASSUME CacheInv, Commit
  PROVE  CacheInv'
<1> USE DEF CacheInv
<1>1. /\ writer.at \in {"open", "told"} /\ writer.projects \subseteq Projects
      /\ writer.at = "told" <=> writer.early
  BY DEF Commit, TypeOK, Writers, WriterFits
<1>2. /\ writer'.at = "committed" /\ writer'.early = writer.early
      /\ writer'.projects = writer.projects /\ writer'.ids = writer.ids
  BY DEF Commit, TypeOK, Writers
<1>3. TypeOK'
  <2>1. stored' \in [Projects -> 0..MaxChanges]
    BY <1>1, ChangesAssumption DEF Commit, TypeOK, WriterFits
  <2>2. writer' \in Writers /\ untold' \in SUBSET Projects
    BY <1>1 DEF Commit, TypeOK, Writers, Places
  <2> QED
    BY <2>1, <2>2 DEF Commit, TypeOK
<1>4. WriterFits' /\ EarlyIsTold'
  BY <1>2 DEF WriterFits, EarlyIsTold
<1>5. StaleFits'
  <2> SUFFICES ASSUME NEW p \in Projects, Stale(p)'
               PROVE  p \in (Accounted \cup ToBePut)'
    BY DEF StaleFits
  <2>1. Accounted \subseteq Accounted' /\ ToBePut = {}
    BY <1>1 DEF Commit, history, Accounted, InVain, ToBePut
  <2>2. CASE p \notin writer.projects
    <3>1. Stale(p)
      BY <2>2 DEF Commit, Stale, TypeOK
    <3> QED
      BY <2>1, <3>1 DEF StaleFits
  <2>3. CASE p \in writer.projects /\ writer.early
    <3>1. cache[p].at = "held"
      BY DEF Commit, Stale
    <3>2. p \in Accounted
      BY <1>1, <2>3, <3>1 DEF EarlyIsTold
    <3> QED
      BY <2>1, <3>2
  <2>4. CASE p \in writer.projects /\ ~writer.early
    BY <1>2, <2>4 DEF Commit, ToBePut, Accounted, history
  <2> QED
    BY <2>2, <2>3, <2>4
<1> QED
  BY <1>3, <1>4, <1>5

LEMMA ReleaseKeeps ==
  ASSUME CacheInv, Release
  PROVE  CacheInv'
<1> USE DEF CacheInv
<1>1. writer.ids \in SUBSET Ids
  BY DEF TypeOK, Writers
<1>2. /\ batch' \in SUBSET Ids /\ late' \in SUBSET Ids
      /\ Accounted \cup ToBePut \subseteq Accounted'
  <2>1. CASE writer.early
    BY <2>1 DEF Release, TypeOK, Accounted, InVain, history, ToBePut
  <2>2. CASE ~writer.early
    BY <2>2, <1>1, PutIsAccounted DEF Release, ToBePut, history
  <2> QED
    BY <2>1, <2>2
<1>3. TypeOK' /\ WriterFits' /\ EarlyIsTold'
  BY <1>2 DEF Release, TypeOK, Writers, Places, Idle, WriterFits, EarlyIsTold, history
<1>4. StaleFits'
  BY <1>2 DEF Release, StaleFits, Stale
<1> QED
  BY <1>3, <1>4

LEMMA RollbackKeeps ==
  ASSUME CacheInv, Rollback
  PROVE  CacheInv'
<1> USE DEF CacheInv
<1>1. writer.ids \in SUBSET Ids
  BY DEF TypeOK, Writers
<1>2. /\ batch' \in SUBSET Ids /\ late' \in SUBSET Ids
      /\ Accounted \subseteq Accounted' /\ ToBePut = {}
  <2>1. CASE UNCHANGED <<batch, late>>
    BY <2>1 DEF Rollback, TypeOK, Accounted, InVain, history, ToBePut
  <2>2. CASE Put(writer.ids)
    BY <2>2, <1>1, PutIsAccounted DEF Rollback, ToBePut, history
  <2> QED
    BY <2>1, <2>2 DEF Rollback
<1>3. TypeOK' /\ WriterFits' /\ EarlyIsTold'
  BY <1>2 DEF Rollback, TypeOK, Writers, Places, Idle, WriterFits, EarlyIsTold, history
<1>4. StaleFits'
  BY <1>2 DEF Rollback, StaleFits, Stale
<1> QED
  BY <1>3, <1>4

\* Loading, reading and evicting concern one answer, which is fresh or not held.
LEMMA ReadersKeep ==
  ASSUME CacheInv, NEW p \in Projects, Load(p) \/ Read(p) \/ Evict(p)
  PROVE  CacheInv'
<1> USE DEF CacheInv
<1>1. /\ UNCHANGED <<stored, writer, batch, late, caller>>
      /\ untold \ {p} \subseteq untold' /\ lost \ {p} \subseteq lost'
      /\ \A q \in Projects \ {p} : cache'[q] = cache[q]
      /\ cache'[p].at = "held" => writer.at = "idle" /\ cache'[p].value = stored[p]
  BY DEF TypeOK, Load, Read, Evict, Fresh, history, Pending, Nothing
<1>2. TypeOK'
  BY ChangesAssumption DEF TypeOK, Load, Read, Evict, Fresh, history, Pending, Nothing
<1>3. WriterFits'
  BY <1>1 DEF WriterFits
<1>4. EarlyIsTold'
  BY <1>1 DEF EarlyIsTold, Accounted, InVain, history, TypeOK, Writers
<1>5. StaleFits'
  BY <1>1 DEF StaleFits, Stale, Accounted, InVain, history, ToBePut
<1> QED
  BY <1>2, <1>3, <1>4, <1>5

\* The handler: what it takes from the events it takes from the cache, or forgets.
LEMMA HandlerKeeps ==
  ASSUME CacheInv, Call \/ CallFails \/ Clear
  PROVE  CacheInv'
<1> USE DEF CacheInv
<1>1. TypeOK'
  BY ChangesAssumption DEF TypeOK, Call, CallFails, Clear, Fresh, history, Nothing
<1>2. WriterFits'
  BY DEF WriterFits, Call, CallFails, Clear
<1>3. /\ UNCHANGED <<stored, writer>>
      /\ \A p \in Projects :
           /\ cache'[p].at = "held" => cache'[p] = cache[p]
           /\ cache'[p].at = "held" /\ p \in Accounted => p \in Accounted'
  BY DEF TypeOK, Call, CallFails, Clear, Fresh, history, Nothing, Accounted, InVain
<1>4. EarlyIsTold'
  BY <1>3 DEF EarlyIsTold, TypeOK, Writers
<1>5. StaleFits'
  BY <1>3 DEF StaleFits, Stale, ToBePut
<1> QED
  BY <1>1, <1>2, <1>4, <1>5

-----------------------------------------------------------------------------

LEMMA InitCacheInv == Init => CacheInv
BY ChangesAssumption DEF Init, CacheInv, TypeOK, WriterFits, EarlyIsTold, StaleFits, Stale,
   Nothing, Idle, Writers, Places

LEMMA NextCacheInv == CacheInv /\ [Next]_vars => CacheInv'
<1> SUFFICES ASSUME CacheInv, [Next]_vars PROVE CacheInv'
  OBVIOUS
<1> USE DEF Ids
<1>1. ASSUME NEW S \in SUBSET Projects, InsertSpans(S) PROVE CacheInv'
  BY <1>1, BeginKeeps DEF InsertSpans
<1>2. ASSUME NEW S \in SUBSET Projects, DeleteProject(S) PROVE CacheInv'
  BY <1>2, BeginKeeps DEF DeleteProject
<1>3. ASSUME NEW S \in SUBSET Projects, NEW named \in SUBSET S, DeleteSessions(S, named)
      PROVE CacheInv'
  BY <1>3, BeginKeeps DEF DeleteSessions
<1>4. ASSUME NEW p \in Projects, DeleteTrace(p) \/ DeleteTraces(p) PROVE CacheInv'
  BY <1>4, BeginKeeps, {p} \in SUBSET Projects DEF DeleteTrace, DeleteTraces
<1>5. ASSUME NEW p \in Projects, NEW t \in Traces, DeleteSpan(p, t) PROVE CacheInv'
  BY <1>5, BeginKeeps, {p} \in SUBSET Projects DEF DeleteSpan
<1>6. ASSUME NEW p \in Projects, NEW q \in Projects, Transfer(p, q) PROVE CacheInv'
  BY <1>6, BeginKeeps, {p, q} \in SUBSET Projects DEF Transfer
<1>7. CASE PutEarly \/ Commit \/ Release \/ Rollback
  BY <1>7, PutEarlyKeeps, CommitKeeps, ReleaseKeeps, RollbackKeeps
<1>8. ASSUME NEW p \in Projects, Load(p) \/ Read(p) \/ Evict(p) PROVE CacheInv'
  BY <1>8, ReadersKeep
<1>9. CASE Call \/ CallFails \/ Clear
  BY <1>9, HandlerKeeps
<1>10. CASE UNCHANGED vars
  BY <1>10 DEF vars, history, CacheInv, TypeOK, WriterFits, EarlyIsTold, StaleFits, Stale,
     Accounted, InVain, history, ToBePut
<1> QED
  BY <1>1, <1>2, <1>3, <1>4, <1>5, <1>6, <1>7, <1>8, <1>9, <1>10 DEF Next

\* Whatever the projects, the row ids and the number of changes, an answer that is held
\* and stale is one that an event announces to a handler that will read it, or one whose
\* event was put in vain, or one of a change that had no event of its project.
THEOREM CacheTold == Spec => []StaleIsTold
<1>1. CacheInv => StaleIsTold
  BY DEF CacheInv, StaleFits, StaleIsTold, Accounted, Announced
<1> QED
  BY <1>1, InitCacheInv, NextCacheInv, PTL DEF Spec
=============================================================================
