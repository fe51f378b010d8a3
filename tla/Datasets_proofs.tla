-------------------------- MODULE Datasets_proofs ---------------------------
(***************************************************************************)
(* Rows fit together under every interleaving; with sessions that take     *)
(* turns a version keeps its content, however it is read, and so do the    *)
(* snapshots of experiments.  For any datasets, splits, clients, uploads   *)
(* and bounds on ids.                                                      *)
(***************************************************************************)
EXTENDS Datasets, FiniteSetTheorems, FunctionTheorems, WellFoundedInduction, TLAPS

-----------------------------------------------------------------------------
(* The greatest of some ids *)

LEMMA NewestIsGreatest ==
  ASSUME NEW N \in Nat, NEW S \in SUBSET (0 .. N)
  PROVE  Newest(S) \in 0 .. N /\ Newest(S) \in {0} \cup S /\ \A s \in S : s <= Newest(S)
<1> DEFINE Less == {p \in Nat \X Nat : p[1] < p[2]}
           A == {0} \cup S
           Gaps == {N - s : s \in A}
<1>1. IsWellFoundedOn(Less, Nat)
  BY NatLessThanWellFounded DEF OpToRel
<1>2. Gaps \subseteq Nat /\ Gaps # {}
  OBVIOUS
<1>3. \E x \in Gaps : \A y \in Gaps : <<y, x>> \notin Less
  <2> HIDE DEF Less, Gaps
  <2> QED
    BY <1>1, <1>2, WFMin
<1>4. PICK x \in Gaps : \A y \in Gaps : <<y, x>> \notin Less
  BY <1>3
<1>5. PICK m \in A : x = N - m
  BY <1>4
<1>6. ASSUME NEW s \in A PROVE m >= s
  <2>1. N - s \in Gaps /\ N - s \in Nat /\ x \in Nat
    BY <1>2
  <2>2. ~(N - s < x)
    BY <1>4, <2>1
  <2> QED
    BY <1>5, <2>2
<1>7. Max(A) \in A /\ \A s \in A : Max(A) >= s
  <2> HIDE DEF A
  <2> QED
    BY <1>6 DEF Max
<1>8. A \subseteq 0 .. N /\ S \subseteq A /\ Newest(S) = Max(A)
  BY DEF Newest
<1>9. \A s \in A : s <= Max(A)
  <2> HIDE DEF A
  <2> QED
    BY <1>7, <1>8
<1> QED
  BY <1>7, <1>8, <1>9

-----------------------------------------------------------------------------
(* The inductive invariant *)

Types ==
  /\ lock \in BOOLEAN
  /\ datasets \subseteq Names /\ splits \subseteq Splits /\ revisions \subseteq Revisions
  /\ versions \in [VersionIds -> Names \cup {None}]
  /\ examples \in [ExampleIds -> Names \cup {None}]
  /\ experiments \in [Experiments -> ExperimentRows \cup {None}]
  /\ session \in [Sessions -> Transactions \cup {None}]
  /\ operations \in Seq(Uploads)

\* A version that a transaction has taken is its own, and what it changes is there.
SessionsFit ==
  \A c \in Open :
    /\ session[c].version # None => versions[session[c].version] = None
    /\ \A b \in Open : session[b].version = session[c].version /\ b # c => session[c].version = None
    /\ session[c].kind # "CREATE" => session[c].examples \subseteq ExamplesOf(session[c].dataset)

SnapshotsFit ==
  \A x \in Experiments : experiments[x] # None =>
    \A r \in experiments[x].snapshot : examples[r.example] = experiments[x].dataset

\* An example is created once.
CreatedOnce ==
  /\ \A e \in ExampleIds : examples[e] # None =>
       \E r \in revisions : r.example = e /\ r.kind = "CREATE"
  /\ \A r, q \in revisions :
       r.example = q.example /\ r.kind = "CREATE" /\ q.kind = "CREATE" => r = q

\* One session at a time, whose version is the newest.
OneOpen ==
  /\ \A b, c \in Open : b = c
  /\ \A c \in Open : session[c].version # None =>
       \A v \in VersionIds : versions[v] # None => v < session[c].version

\* Ids follow versions, and nothing follows a deletion.
InOrder ==
  /\ \A r, q \in revisions : r.example = q.example /\ r.version < q.version => r.id < q.id
  /\ \A r, q \in revisions :
       r.example = q.example /\ r.kind = "DELETE" => q.version <= r.version

\* What a transaction changes has not been deleted.
ChangesLiving ==
  \A c \in Open, r \in revisions :
    session[c].kind # "CREATE" /\ r.example \in session[c].examples => r.kind # "DELETE"

DatasetInv ==
  /\ Types /\ RowsFit /\ SessionsFit /\ SnapshotsFit /\ CreatedOnce
  /\ lock => OneOpen /\ InOrder /\ ChangesLiving
  /\ SnapshotHolds

LEMMA InitDatasets == Init => DatasetInv
<1> SUFFICES ASSUME Init PROVE DatasetInv
  OBVIOUS
<1>1. Types
  BY LocksAssumption DEF Init, Types
<1>2. Open = {}
  BY DEF Init, Open
<1>3. RowsFit
  BY <1>1, DatasetsNoneAssumption DEF Init, RowsFit, Types, Sessions
<1>4. SessionsFit /\ SnapshotsFit /\ CreatedOnce /\ OneOpen /\ InOrder /\ ChangesLiving
      /\ SnapshotHolds
  BY <1>2 DEF Init, SessionsFit, SnapshotsFit, CreatedOnce, OneOpen, InOrder, ChangesLiving,
       SnapshotHolds
<1> QED
  BY <1>1, <1>3, <1>4 DEF DatasetInv

-----------------------------------------------------------------------------
(* What readers see depends on *)

LEMMA SameLast ==
  ASSUME NEW e, NEW v,
         \A r : r \in revisions' /\ r.example = e /\ r.version <= v
                <=> r \in revisions /\ r.example = e /\ r.version <= v
  PROVE  LastById(e, v)' = LastById(e, v) /\ LastByVersion(e, v)' = LastByVersion(e, v)
BY DEF LastById, LastByVersion

LEMMA SameReads ==
  ASSUME revisions' = revisions, examples' = examples
  PROVE  \A d, v : ExamplesAt(d, v)' = ExamplesAt(d, v) /\ RevisionsAt(d, v)' = RevisionsAt(d, v)
<1> SUFFICES ASSUME NEW d, NEW v
             PROVE  ExamplesAt(d, v)' = ExamplesAt(d, v) /\ RevisionsAt(d, v)' = RevisionsAt(d, v)
  OBVIOUS
<1>1. \A e : LastById(e, v)' = LastById(e, v) /\ LastByVersion(e, v)' = LastByVersion(e, v)
  BY SameLast
<1>2. ExamplesOf(d)' = ExamplesOf(d)
  BY DEF ExamplesOf
<1> QED
  BY <1>1, <1>2 DEF ExamplesAt, RevisionsAt, Alive

-----------------------------------------------------------------------------
(* Sessions *)

\* Session c becomes t, which may hold the newest version and change what is there.
LEMMA SessionBecomes ==
  ASSUME DatasetInv, NEW c \in Sessions, NEW t \in Transactions \cup {None},
         session' = [session EXCEPT ![c] = t],
         UNCHANGED <<lock, rows>>, operations' \in Seq(Uploads),
         t # None =>
           /\ t.version # None =>
                /\ \A v \in VersionIds : versions[v] # None => v < t.version
                /\ \A b \in Open : b # c => session[b].version # t.version
           /\ t.kind # "CREATE" => t.examples \subseteq ExamplesOf(t.dataset)
           /\ lock => \A b \in Open : b = c
           /\ lock /\ t.kind # "CREATE" =>
                \A r \in revisions : r.example \in t.examples => r.kind # "DELETE"
  PROVE  DatasetInv'
<1>1. /\ session' \in [Sessions -> Transactions \cup {None}] /\ session'[c] = t
      /\ \A b \in Sessions : b # c => session'[b] = session[b]
      /\ lock' = lock /\ datasets' = datasets /\ versions' = versions /\ examples' = examples
      /\ revisions' = revisions /\ splits' = splits /\ inSplit' = inSplit
      /\ experiments' = experiments
  BY DEF DatasetInv, Types, rows
<1>2. Types'
  BY <1>1 DEF DatasetInv, Types
<1>3. RowsFit'
  BY <1>1 DEF DatasetInv, RowsFit
<1>4. Open' \subseteq Open \cup {c} /\ (c \in Open' => t # None)
  BY <1>1 DEF Open
<1>5. SessionsFit'
  <2> SUFFICES ASSUME NEW b \in Open'
               PROVE  /\ session'[b].version # None => versions[session'[b].version] = None
                      /\ \A a \in Open' :
                           session'[a].version = session'[b].version /\ a # b => session'[b].version = None
                      /\ session'[b].kind # "CREATE" =>
                           session'[b].examples \subseteq ExamplesOf(session'[b].dataset)
    BY <1>1 DEF SessionsFit, ExamplesOf
  <2>1. t # None /\ t.version # None => t.version \in VersionIds /\ versions[t.version] = None
    <3> SUFFICES ASSUME t # None, t.version # None
                 PROVE  t.version \in VersionIds /\ versions[t.version] = None
      OBVIOUS
    <3>1. t.version \in VersionIds
      BY DEF Transactions
    <3>2. ~(t.version < t.version)
      BY <3>1 DEF VersionIds
    <3> QED
      BY <3>1, <3>2
  <2>2. CASE b = c
    BY <1>1, <1>4, <2>1, <2>2
  <2>3. CASE b # c
    <3>1. b \in Open /\ session'[b] = session[b]
      BY <1>1, <1>4, <2>3 DEF Open
    <3> QED
      BY <1>1, <1>4, <2>3, <3>1 DEF DatasetInv, SessionsFit
  <2> QED
    BY <2>2, <2>3
<1>6. SnapshotsFit' /\ CreatedOnce' /\ (lock => InOrder)'
  BY <1>1 DEF DatasetInv, SnapshotsFit, CreatedOnce, InOrder
<1>7. (lock => OneOpen /\ ChangesLiving)'
  <2> SUFFICES ASSUME lock PROVE OneOpen' /\ ChangesLiving'
    BY <1>1
  <2>1. CASE c \in Open'
    <3>1. Open' = {c} /\ t # None
      BY <1>4, <2>1
    <3> QED
      BY <1>1, <3>1 DEF OneOpen, ChangesLiving
  <2>2. CASE c \notin Open'
    <3>1. \A b \in Open' : b \in Open /\ session'[b] = session[b]
      BY <1>1, <1>4, <2>2 DEF Open
    <3> QED
      BY <1>1, <3>1 DEF DatasetInv, OneOpen, ChangesLiving
  <2> QED
    BY <2>1, <2>2
<1>8. SnapshotHolds'
  BY <1>1, SameReads DEF DatasetInv, SnapshotHolds
<1> QED
  BY <1>2, <1>3, <1>5, <1>6, <1>7, <1>8 DEF DatasetInv

\* The version that is taken is greater than any stored or taken.
LEMMA FreeVersionIsNew ==
  ASSUME Types
  PROVE  /\ FreeVersion \in Nat \ {0}
         /\ \A v \in VersionIds : versions[v] # None => v < FreeVersion
         /\ \A c \in Open : session[c].version # FreeVersion
<1>1. TakenVersions \subseteq VersionIds
  BY DEF Types, TakenVersions, Open, Transactions
<1>2. MaxVersion \in Nat /\ TakenVersions \in SUBSET (0 .. MaxVersion)
  BY <1>1, BoundsAssumption DEF VersionIds
<1>3. Newest(TakenVersions) \in Nat /\ \A v \in TakenVersions : v <= Newest(TakenVersions)
  BY <1>2, NewestIsGreatest
<1>4. \A v \in TakenVersions : v \in Nat /\ v < FreeVersion /\ v # FreeVersion
  BY <1>1, <1>3 DEF FreeVersion, VersionIds
<1>5. FreeVersion \in Nat \ {0}
  BY <1>3 DEF FreeVersion
<1>6. FreeVersion # None
  BY <1>5, DatasetsNoneAssumption
<1> QED
  BY <1>4, <1>5, <1>6 DEF TakenVersions

LEMMA OnlyOperationsChange ==
  ASSUME DatasetInv, UNCHANGED <<lock, rows, session>>, operations' \in Seq(Uploads)
  PROVE  DatasetInv'
<1>1. /\ lock' = lock /\ datasets' = datasets /\ versions' = versions /\ examples' = examples
      /\ revisions' = revisions /\ splits' = splits /\ inSplit' = inSplit
      /\ experiments' = experiments /\ session' = session /\ Open' = Open
  BY DEF rows, Open
<1>2. Types'
  BY <1>1 DEF DatasetInv, Types
<1>3. RowsFit'
  BY <1>1 DEF DatasetInv, RowsFit
<1>4. SessionsFit' /\ SnapshotsFit' /\ CreatedOnce'
  BY <1>1 DEF DatasetInv, SessionsFit, SnapshotsFit, CreatedOnce, ExamplesOf
<1>5. (lock => OneOpen /\ InOrder /\ ChangesLiving)'
  BY <1>1 DEF DatasetInv, OneOpen, InOrder, ChangesLiving
<1>6. SnapshotHolds'
  BY <1>1, SameReads DEF DatasetInv, SnapshotHolds
<1> QED
  BY <1>2, <1>3, <1>4, <1>5, <1>6 DEF DatasetInv

\* What Begin, and an upload that starts, open.
Opened(kind, d, version, E, split, make) ==
  [kind |-> kind, dataset |-> d, version |-> version, examples |-> E, split |-> split,
   make |-> make]

LEMMA OpensWithVersion ==
  ASSUME DatasetInv, NEW c \in Sessions, NEW kind \in {"CREATE", "DELETE"}, NEW d \in Names,
         NEW E \in SUBSET ExampleIds, NEW split \in Splits \cup {None}, NEW make \in BOOLEAN,
         MayOpen(c), FreeVersion <= MaxVersion,
         kind = "DELETE" =>
           /\ E \subseteq ExamplesOf(d)
           /\ ~\E r \in revisions : r.example \in E /\ r.kind = "DELETE",
         session' = [session EXCEPT ![c] = Opened(kind, d, FreeVersion, E, split, make)],
         UNCHANGED <<lock, rows>>, operations' \in Seq(Uploads)
  PROVE  DatasetInv'
<1> DEFINE t == Opened(kind, d, FreeVersion, E, split, make)
<1>1. /\ FreeVersion \in VersionIds
      /\ \A v \in VersionIds : versions[v] # None => v < FreeVersion
      /\ \A b \in Open : session[b].version # FreeVersion
  BY FreeVersionIsNew, BoundsAssumption DEF DatasetInv, VersionIds
<1>2. t \in Transactions
  BY <1>1 DEF Transactions, Opened
<1>3. t.version = FreeVersion /\ t.kind = kind /\ t.examples = E /\ t.dataset = d
  BY DEF Opened
<1>4. lock => \A b \in Open : b = c
  BY DEF MayOpen
<1> HIDE DEF t
<1>5. session' = [session EXCEPT ![c] = t]
  BY DEF t
<1>6. t.version # None =>
        /\ \A v \in VersionIds : versions[v] # None => v < t.version
        /\ \A b \in Open : b # c => session[b].version # t.version
  BY <1>1, <1>3
<1>7. /\ t.kind # "CREATE" => t.examples \subseteq ExamplesOf(t.dataset)
      /\ t.kind # "CREATE" => \A r \in revisions : r.example \in t.examples => r.kind # "DELETE"
  BY <1>3
<1> QED
  BY <1>2, <1>4, <1>5, <1>6, <1>7, SessionBecomes

\* An example whose newest revision is no deletion has not been deleted.
LEMMA LivingHasNoDeletion ==
  ASSUME Types, RowsFit, InOrder, NEW e \in ExampleIds, Alive(LastById(e, MaxVersion)) # {}
  PROVE  \A r \in revisions : r.example = e => r.kind # "DELETE"
<1> SUFFICES ASSUME NEW r \in revisions, r.example = e, r.kind = "DELETE" PROVE FALSE
  OBVIOUS
<1>1. PICK q \in LastById(e, MaxVersion) : q.kind # "DELETE"
  BY DEF Alive
<1>2. /\ q \in revisions /\ q.example = e
      /\ \A p \in revisions : p.example = e /\ p.version <= MaxVersion => p.id <= q.id
  BY DEF LastById
<1>3. /\ r.version \in 1 .. MaxVersion /\ q.version \in 1 .. MaxVersion
      /\ r.id \in 1 .. MaxRevision /\ q.id \in 1 .. MaxRevision
  BY <1>2 DEF Types, Revisions, VersionIds
<1>4. r.id <= q.id
  BY <1>2, <1>3, BoundsAssumption
<1>5. q.version <= r.version
  BY <1>2 DEF InOrder
<1>6. CASE q.version = r.version
  BY <1>1, <1>2, <1>6 DEF RowsFit
<1>7. CASE q.version # r.version
  <2>1. q.version < r.version
    BY <1>3, <1>5, <1>7
  <2>2. q.id < r.id
    BY <1>2, <2>1 DEF InOrder
  <2> QED
    BY <1>3, <1>4, <2>2
<1> QED
  BY <1>6, <1>7

LEMMA BeginAddKeeps ==
  ASSUME DatasetInv, NEW c \in Clients, NEW d \in Names, BeginAdd(c, d)
  PROVE  DatasetInv'
<1>1. /\ MayOpen(c) /\ FreeVersion <= MaxVersion
      /\ session' = [session EXCEPT ![c] = Opened("CREATE", d, FreeVersion, {}, None, FALSE)]
      /\ UNCHANGED <<lock, rows>> /\ operations' = operations
  BY DEF BeginAdd, Begin, Opened
<1>2. c \in Sessions /\ operations' \in Seq(Uploads)
  BY <1>1 DEF DatasetInv, Types, Sessions
<1> QED
  BY <1>1, <1>2, OpensWithVersion

LEMMA BeginDeleteKeeps ==
  ASSUME DatasetInv, NEW c \in Clients, NEW E \in SUBSET ExampleIds, BeginDelete(c, E)
  PROVE  DatasetInv'
<1>1. PICK d \in datasets :
        /\ E \subseteq ExamplesOf(d)
        /\ session' = [session EXCEPT ![c] = Opened("DELETE", d, FreeVersion, E, None, FALSE)]
        /\ UNCHANGED <<lock, rows>>
  BY DEF BeginDelete, Begin, Opened
<1>2. /\ MayOpen(c) /\ FreeVersion <= MaxVersion /\ operations' = operations
      /\ ~\E r \in revisions : r.example \in E /\ r.kind = "DELETE"
  BY DEF BeginDelete
<1>3. c \in Sessions /\ d \in Names /\ operations' \in Seq(Uploads)
  BY <1>2 DEF DatasetInv, Types, Sessions
<1> QED
  BY <1>1, <1>2, <1>3, OpensWithVersion

LEMMA BeginPatchKeeps ==
  ASSUME DatasetInv, NEW c \in Clients, NEW E \in SUBSET ExampleIds, BeginPatch(c, E)
  PROVE  DatasetInv'
<1>1. PICK d \in datasets :
        /\ E \subseteq ExamplesOf(d)
        /\ session' = [session EXCEPT ![c] = Opened("PATCH", d, None, E, None, FALSE)]
        /\ UNCHANGED <<lock, rows>>
  BY DEF BeginPatch, Begin, Opened
<1>2. /\ MayOpen(c) /\ operations' = operations
      /\ \A e \in E : Alive(LastById(e, MaxVersion)) # {}
  BY DEF BeginPatch
<1>3. c \in Sessions /\ d \in Names /\ operations' \in Seq(Uploads)
  BY <1>2 DEF DatasetInv, Types, Sessions
<1> DEFINE t == Opened("PATCH", d, None, E, None, FALSE)
<1>4. t \in Transactions
  BY <1>3 DEF Transactions, Opened
<1>5. t.version = None /\ t.kind = "PATCH" /\ t.examples = E /\ t.dataset = d
  BY DEF Opened
<1>6. lock => \A b \in Open : b = c
  BY <1>2 DEF MayOpen
<1>7. lock => \A r \in revisions : r.example \in E => r.kind # "DELETE"
  <2> SUFFICES ASSUME lock, NEW r \in revisions, r.example \in E PROVE r.kind # "DELETE"
    OBVIOUS
  <2> QED
    BY <1>2, LivingHasNoDeletion DEF DatasetInv
<1> HIDE DEF t
<1>8. session' = [session EXCEPT ![c] = t]
  BY <1>1 DEF t
<1> QED
  BY <1>1, <1>3, <1>4, <1>5, <1>6, <1>7, <1>8, SessionBecomes

LEMMA StartUploadKeeps ==
  ASSUME DatasetInv, NEW c \in Sessions, NEW u \in Uploads, StartUpload(c, u),
         operations' \in Seq(Uploads)
  PROVE  DatasetInv'
<1>1. /\ MayOpen(c) /\ FreeVersion <= MaxVersion /\ UNCHANGED <<lock, rows>>
      /\ session' = [session EXCEPT ![c] =
           Opened("CREATE", u.name, FreeVersion, {}, u.split, u.name \notin datasets)]
  BY DEF StartUpload, Opened
<1>2. u.name \in Names /\ u.split \in Splits \cup {None}
  BY UploadsAssumption
<1> QED
  BY <1>1, <1>2, OpensWithVersion

LEMMA TakeVersionKeeps ==
  ASSUME DatasetInv, NEW c \in Sessions, TakeVersion(c)
  PROVE  DatasetInv'
<1> DEFINE t == [session[c] EXCEPT !.version = FreeVersion]
<1>1. /\ session[c] # None /\ session' = [session EXCEPT ![c] = t]
      /\ UNCHANGED <<lock, rows>> /\ operations' = operations /\ FreeVersion <= MaxVersion
  BY DEF TakeVersion
<1>2. /\ FreeVersion \in VersionIds
      /\ \A v \in VersionIds : versions[v] # None => v < FreeVersion
      /\ \A b \in Open : session[b].version # FreeVersion
  BY <1>1, FreeVersionIsNew, BoundsAssumption DEF DatasetInv, VersionIds
<1>3. session[c] \in Transactions /\ c \in Open
  BY <1>1 DEF DatasetInv, Types, Open
<1>4. /\ t \in Transactions /\ t.version = FreeVersion /\ t.kind = session[c].kind
      /\ t.examples = session[c].examples /\ t.dataset = session[c].dataset
  BY <1>2, <1>3 DEF Transactions
<1>5. operations' \in Seq(Uploads)
  BY <1>1 DEF DatasetInv, Types
<1> HIDE DEF t
<1>6. t.kind # "CREATE" => t.examples \subseteq ExamplesOf(t.dataset)
  BY <1>3, <1>4 DEF DatasetInv, SessionsFit
<1>7. lock => \A b \in Open : b = c
  BY <1>3 DEF DatasetInv, OneOpen
<1>8. lock /\ t.kind # "CREATE" => \A r \in revisions : r.example \in t.examples => r.kind # "DELETE"
  BY <1>3, <1>4 DEF DatasetInv, ChangesLiving
<1> QED
  BY <1>1, <1>2, <1>4, <1>5, <1>6, <1>7, <1>8, SessionBecomes

LEMMA RollbackKeeps ==
  ASSUME DatasetInv, NEW c \in Sessions, Rollback(c)
  PROVE  DatasetInv'
<1>1. /\ session' = [session EXCEPT ![c] = None]
      /\ UNCHANGED <<lock, rows>> /\ operations' \in Seq(Uploads)
  BY DEF Rollback, DatasetInv, Types
<1> QED
  BY <1>1, SessionBecomes

LEMMA UploadsKeep ==
  ASSUME DatasetInv,
         \/ \E u \in Uploads : Upload(u) \/ \E c \in Clients : SyncUpload(c, u)
         \/ RunOperation \/ DropOperation
  PROVE  DatasetInv'
<1>1. operations \in Seq(Uploads)
  BY DEF DatasetInv, Types
<1>2. ASSUME NEW u \in Uploads, Upload(u) PROVE DatasetInv'
  BY <1>1, <1>2, OnlyOperationsChange DEF Upload
<1>3. ASSUME NEW u \in Uploads, NEW c \in Clients, SyncUpload(c, u) PROVE DatasetInv'
  <2>1. c \in Sessions /\ StartUpload(c, u) /\ operations' = operations
    BY <1>3 DEF SyncUpload, Sessions
  <2> QED
    BY <1>1, <2>1, StartUploadKeeps
<1>4. CASE RunOperation
  <2>1. /\ Inserter \in Sessions /\ Head(operations) \in Uploads
        /\ StartUpload(Inserter, Head(operations)) /\ operations' \in Seq(Uploads)
    BY <1>1, <1>4 DEF RunOperation, Sessions
  <2> QED
    BY <2>1, StartUploadKeeps
<1>5. CASE DropOperation
  BY <1>1, <1>5, OnlyOperationsChange DEF DropOperation
<1> QED
  BY <1>2, <1>3, <1>4, <1>5

-----------------------------------------------------------------------------
(* Commits *)

\* One revision per example, with ids above all others.
LEMMA NewRevisionsAreNew ==
  ASSUME Types, NEW E \in SUBSET ExampleIds, NEW version \in VersionIds,
         NEW kind \in {"CREATE", "PATCH", "DELETE"},
         Newest({r.id : r \in revisions}) + Cardinality(E) <= MaxRevision,
         NEW N, N = NewRevisions(E, version, kind)
  PROVE  /\ N \subseteq Revisions
         /\ \A n \in N : n.example \in E /\ n.version = version /\ n.kind = kind
         /\ \A n \in N, r \in revisions : r.id < n.id
         /\ \A e \in E : \E n \in N : n.example = e
         /\ \A n, m \in N : n.example = m.example => n = m
<1> DEFINE ids == {r.id : r \in revisions}
           top == Newest(ids)
           upTo(e) == {f \in E : f <= e}
           rev(e) == [id |-> top + Cardinality(upTo(e)), example |-> e, version |-> version,
                      kind |-> kind]
<1>1. MaxRevision \in Nat /\ MaxExample \in Nat /\ MaxVersion \in Nat
  BY BoundsAssumption
<1>2. ids \subseteq 0 .. MaxRevision
  BY <1>1 DEF Types, Revisions
<1>3. top \in Nat /\ \A r \in revisions : r.id <= top
  <2>1. \A r \in revisions : r.id \in ids
    OBVIOUS
  <2> HIDE DEF ids
  <2>2. top \in 0 .. MaxRevision /\ \A i \in ids : i <= top
    BY <1>1, <1>2, NewestIsGreatest
  <2> QED
    BY <1>1, <2>1, <2>2
<1>4. IsFiniteSet(E) /\ Cardinality(E) \in Nat
  <2>1. IsFiniteSet(ExampleIds)
    BY <1>1, FS_Interval DEF ExampleIds
  <2> QED
    BY <2>1, FS_Subset, FS_CardinalityType
<1>5. ASSUME NEW e \in E
      PROVE  Cardinality(upTo(e)) \in Nat /\ 1 <= Cardinality(upTo(e))
             /\ Cardinality(upTo(e)) <= Cardinality(E)
  <2>1. e \in Nat /\ e \in upTo(e) /\ upTo(e) \subseteq E
    BY <1>1 DEF ExampleIds
  <2> HIDE DEF upTo
  <2>2. IsFiniteSet(upTo(e)) /\ Cardinality(upTo(e)) <= Cardinality(E)
    BY <1>4, <2>1, FS_Subset
  <2>3. Cardinality(upTo(e)) \in Nat
    BY <2>2, FS_CardinalityType
  <2>4. Cardinality(upTo(e)) # 0
    BY <2>1, <2>2, FS_EmptySet
  <2> QED
    BY <2>2, <2>3, <2>4
<1>6. top + Cardinality(E) <= MaxRevision
  OBVIOUS
<1>7. N = {rev(e) : e \in E}
  BY DEF NewRevisions
<1> HIDE DEF top, upTo
<1>8. \A e \in E : rev(e) \in Revisions
  <2> SUFFICES ASSUME NEW e \in E PROVE rev(e) \in Revisions
    OBVIOUS
  <2>1. top + Cardinality(upTo(e)) \in 1 .. MaxRevision
    BY <1>1, <1>3, <1>4, <1>5, <1>6
  <2> QED
    BY <2>1 DEF Revisions
<1>9. \A e \in E, r \in revisions : r.id < rev(e).id
  <2> SUFFICES ASSUME NEW e \in E, NEW r \in revisions
               PROVE  r.id < top + Cardinality(upTo(e))
    OBVIOUS
  <2>1. r.id \in Nat
    BY <1>1 DEF Types, Revisions
  <2> QED
    BY <1>3, <1>5, <2>1
<1>10. \A e \in E : rev(e).example = e /\ rev(e).version = version /\ rev(e).kind = kind
  OBVIOUS
<1> HIDE DEF rev
<1> QED
  BY <1>6, <1>7, <1>8, <1>9, <1>10

\* What transaction t writes: revisions N, one of each example in E, which are new or
\* of its dataset.
Written(t, E, N) ==
  /\ revisions' = revisions \cup N
  /\ examples' = [e \in ExampleIds |-> IF e \in E THEN t.dataset ELSE examples[e]]
  /\ \A e \in E : examples[e] = IF t.kind = "CREATE" THEN None ELSE t.dataset
  /\ t.kind # "CREATE" => E = t.examples
  /\ \A n \in N : n.example \in E /\ n.version = t.version /\ n.kind = t.kind
  /\ \A n \in N, r \in revisions : r.id < n.id
  /\ \A e \in E : \E n \in N : n.example = e
  /\ \A n, m \in N : n.example = m.example => n = m
  /\ splits \subseteq splits' /\ splits' \subseteq Splits
  /\ inSplit' \subseteq inSplit \cup (splits' \X E)

LEMMA CommitWrites ==
  ASSUME DatasetInv, NEW c \in Sessions, Commit(c)
  PROVE  \E E \in SUBSET ExampleIds, N \in SUBSET Revisions : Written(session[c], E, N)
<1> DEFINE t == session[c]
           taken == {e \in ExampleIds : examples[e] # None}
           next == Newest(taken) + 1
<1>1. Types /\ t \in Transactions /\ t.version \in VersionIds /\ c \in Open
  BY DEF Commit, DatasetInv, Types, Transactions, Open
<1>2. t.kind \in {"CREATE", "PATCH", "DELETE"} /\ t.split \in Splits \cup {None}
      /\ t.examples \in SUBSET ExampleIds /\ t.dataset \in Names
  BY <1>1 DEF Transactions
<1>3. examples \in [ExampleIds -> Names \cup {None}] /\ splits \subseteq Splits
  BY <1>1 DEF Types
<1>4. CASE t.kind = "CREATE"
  <2>1. PICK last \in (next - 1) .. MaxExample :
          /\ examples' = [e \in ExampleIds |->
                            IF e \in next .. last THEN t.dataset ELSE examples[e]]
          /\ WriteRevisions(next .. last, t.version, "CREATE")
          /\ splits' = splits \cup ({t.split} \ {None})
          /\ inSplit' = inSplit \cup (({t.split} \ {None}) \X (next .. last))
    BY <1>4 DEF Commit
  <2>2. MaxExample \in Nat /\ taken \subseteq 0 .. MaxExample
    BY BoundsAssumption DEF ExampleIds
  <2>3. Newest(taken) \in Nat /\ \A e \in taken : e <= Newest(taken)
    BY <2>2, NewestIsGreatest
  <2> HIDE DEF taken
  <2>4. next .. last \subseteq ExampleIds
    BY <2>2, <2>3 DEF ExampleIds
  <2>5. \A e \in next .. last : e \notin taken
    BY <2>2, <2>3
  <2>6. \A e \in next .. last : examples[e] = None
    BY <2>4, <2>5 DEF taken
  <2> DEFINE E == next .. last
             N == NewRevisions(E, t.version, "CREATE")
  <2> HIDE DEF E, t, next
  <2>7. /\ N \subseteq Revisions /\ revisions' = revisions \cup N
        /\ \A n \in N : n.example \in E /\ n.version = t.version /\ n.kind = t.kind
        /\ \A n \in N, r \in revisions : r.id < n.id
        /\ \A e \in E : \E n \in N : n.example = e
        /\ \A n, m \in N : n.example = m.example => n = m
    <3> HIDE DEF N
    <3>1. /\ E \in SUBSET ExampleIds /\ revisions' = revisions \cup N
          /\ Newest({r.id : r \in revisions}) + Cardinality(E) <= MaxRevision
      BY <2>1, <2>4 DEF E, N, WriteRevisions
    <3> QED
      BY <1>1, <1>4, <3>1, NewRevisionsAreNew DEF N
  <2> HIDE DEF N
  <2>8. splits \subseteq splits' /\ splits' \subseteq Splits
        /\ inSplit' \subseteq inSplit \cup (splits' \X E)
    BY <1>2, <1>3, <2>1 DEF E
  <2>9. Written(t, E, N)
    BY <1>4, <2>1, <2>6, <2>7, <2>8 DEF Written, E
  <2>10. E \in SUBSET ExampleIds /\ N \in SUBSET Revisions
    BY <2>4, <2>7 DEF E
  <2> QED
    BY <2>9, <2>10 DEF t
<1>5. CASE t.kind # "CREATE"
  <2> DEFINE E == t.examples
             N == NewRevisions(E, t.version, t.kind)
  <2>1. /\ WriteRevisions(E, t.version, t.kind)
        /\ UNCHANGED <<examples, splits, inSplit>>
    BY <1>5 DEF Commit
  <2>2. \A e \in E : examples[e] = t.dataset
    BY <1>1, <1>5 DEF DatasetInv, SessionsFit, ExamplesOf
  <2> HIDE DEF t
  <2>3. /\ N \subseteq Revisions /\ revisions' = revisions \cup N
        /\ \A n \in N : n.example \in E /\ n.version = t.version /\ n.kind = t.kind
        /\ \A n \in N, r \in revisions : r.id < n.id
        /\ \A e \in E : \E n \in N : n.example = e
        /\ \A n, m \in N : n.example = m.example => n = m
    <3>1. /\ revisions' = revisions \cup N
          /\ Newest({r.id : r \in revisions}) + Cardinality(E) <= MaxRevision
      BY <2>1 DEF WriteRevisions
    <3> HIDE DEF N
    <3> QED
      BY <1>1, <1>2, <3>1, NewRevisionsAreNew DEF N
  <2> HIDE DEF N
  <2>4. examples' = [e \in ExampleIds |-> IF e \in E THEN t.dataset ELSE examples[e]]
    BY <1>3, <2>1, <2>2
  <2>5. Written(t, E, N)
    BY <1>3, <1>5, <2>1, <2>2, <2>3, <2>4 DEF Written
  <2> QED
    BY <1>2, <2>3, <2>5 DEF t
<1> QED
  BY <1>4, <1>5

\* What a commit of transaction t finds and leaves.
LEMMA CommitFacts ==
  ASSUME DatasetInv, NEW c \in Sessions, Commit(c)
  PROVE  /\ c \in Open /\ session[c] \in Transactions /\ session[c].version \in VersionIds
         /\ session[c].dataset \in Names /\ session[c].dataset # None
         /\ versions[session[c].version] = None
         /\ \A r \in revisions : /\ r.example \in ExampleIds /\ r.version \in VersionIds
                                 /\ r.version # session[c].version /\ versions[r.version] # None
         /\ lock' = lock /\ experiments' = experiments /\ operations' = operations
         /\ datasets' = datasets \cup {session[c].dataset}
         /\ versions' = [versions EXCEPT ![session[c].version] = session[c].dataset]
         /\ session' = [session EXCEPT ![c] = None]
<1>1. /\ session[c] # None /\ session[c].version # None
      /\ lock' = lock /\ experiments' = experiments /\ operations' = operations
      /\ datasets' = datasets \cup {session[c].dataset}
      /\ versions' = [versions EXCEPT ![session[c].version] = session[c].dataset]
      /\ session' = [session EXCEPT ![c] = None]
  BY DEF Commit
<1>2. c \in Open /\ session[c] \in Transactions
  BY <1>1 DEF DatasetInv, Types, Open
<1>3. session[c].version \in VersionIds /\ session[c].dataset \in Names
  BY <1>1, <1>2 DEF Transactions
<1>4. session[c].dataset # None
  BY <1>3, DatasetsNoneAssumption
<1>5. versions[session[c].version] = None
  BY <1>1, <1>2 DEF DatasetInv, SessionsFit
<1>6. \A r \in revisions : /\ r.example \in ExampleIds /\ r.version \in VersionIds
                           /\ versions[r.version] # None
  BY DEF DatasetInv, Types, RowsFit, Revisions
<1> QED
  BY <1>1, <1>2, <1>3, <1>4, <1>5, <1>6

\* An example that is there keeps its dataset.
LEMMA CommitKeepsExamples ==
  ASSUME DatasetInv, NEW c \in Sessions, Commit(c), NEW E \in SUBSET ExampleIds, NEW N,
         Written(session[c], E, N)
  PROVE  /\ \A e \in ExampleIds : examples[e] # None => examples'[e] = examples[e]
         /\ \A e \in E : examples'[e] = session[c].dataset
         /\ \A e \in ExampleIds \ E : examples'[e] = examples[e]
BY DEF Written

\* With turns, a commit changes no version that is there.
LEMMA CommitSparesVersions ==
  ASSUME DatasetInv, NEW c \in Sessions, Commit(c), lock,
         NEW d \in Names, NEW v \in VersionIds, versions[v] # None
  PROVE  ExamplesAt(d, v)' = ExamplesAt(d, v) /\ RevisionsAt(d, v)' = RevisionsAt(d, v)
<1> DEFINE t == session[c]
<1>1. PICK E \in SUBSET ExampleIds, N \in SUBSET Revisions : Written(t, E, N)
  BY CommitWrites
<1>2. c \in Open /\ t.version \in VersionIds
  BY CommitFacts
<1>3. v < t.version /\ v \in Int /\ t.version \in Int
  <2>1. v \in Nat /\ t.version \in Nat
    BY <1>2 DEF VersionIds
  <2>2. t.version # None
    BY <2>1, DatasetsNoneAssumption
  <2> QED
    BY <1>2, <2>1, <2>2 DEF DatasetInv, OneOpen
<1>4. revisions' = revisions \cup N /\ \A n \in N : ~(n.version <= v)
  BY <1>1, <1>3 DEF Written
<1>5. \A e : LastById(e, v)' = LastById(e, v) /\ LastByVersion(e, v)' = LastByVersion(e, v)
  <2> SUFFICES ASSUME NEW e
               PROVE  LastById(e, v)' = LastById(e, v) /\ LastByVersion(e, v)' = LastByVersion(e, v)
    OBVIOUS
  <2> QED
    BY <1>4, SameLast
<1>6. ExamplesOf(d) \subseteq ExamplesOf(d)'
  <2>1. d # None
    BY DatasetsNoneAssumption
  <2> QED
    BY <1>1, <2>1, CommitKeepsExamples DEF ExamplesOf
<1>7. \A e \in ExamplesOf(d)' \ ExamplesOf(d) : LastById(e, v) = {} /\ LastByVersion(e, v) = {}
  <2> SUFFICES ASSUME NEW e \in ExamplesOf(d)', e \notin ExamplesOf(d)
               PROVE  \A r \in revisions : r.example # e
    BY DEF LastById, LastByVersion
  <2>1. e \in ExampleIds /\ examples'[e] = d /\ examples[e] # d
    BY DEF ExamplesOf
  <2>2. examples[e] = None
    BY <1>1, <2>1, CommitKeepsExamples
  <2> QED
    BY <2>2 DEF DatasetInv, RowsFit
<1>8. UNION {LastById(e, v)' : e \in ExamplesOf(d)'} = UNION {LastById(e, v) : e \in ExamplesOf(d)}
  BY <1>5, <1>6, <1>7
<1>9. UNION {LastByVersion(e, v)' : e \in ExamplesOf(d)'}
        = UNION {LastByVersion(e, v) : e \in ExamplesOf(d)}
  BY <1>5, <1>6, <1>7
<1> QED
  BY <1>8, <1>9 DEF ExamplesAt, RevisionsAt, Alive

LEMMA CommitKeeps ==
  ASSUME DatasetInv, NEW c \in Sessions, Commit(c)
  PROVE  DatasetInv'
<1> DEFINE t == session[c]
<1>1. PICK E \in SUBSET ExampleIds, N \in SUBSET Revisions : Written(t, E, N)
  BY CommitWrites
<1>2. /\ c \in Open /\ t \in Transactions /\ t.version \in VersionIds
      /\ t.dataset \in Names /\ t.dataset # None /\ versions[t.version] = None
      /\ \A r \in revisions : /\ r.example \in ExampleIds /\ r.version \in VersionIds
                              /\ r.version # t.version /\ versions[r.version] # None
      /\ lock' = lock /\ experiments' = experiments /\ operations' = operations
      /\ datasets' = datasets \cup {t.dataset}
      /\ versions' = [versions EXCEPT ![t.version] = t.dataset]
      /\ session' = [session EXCEPT ![c] = None]
  BY CommitFacts
<1>3. /\ \A e \in ExampleIds : examples[e] # None => examples'[e] = examples[e]
      /\ \A e \in E : examples'[e] = t.dataset
      /\ \A e \in ExampleIds \ E : examples'[e] = examples[e]
  BY <1>1, CommitKeepsExamples
<1>4. /\ revisions' = revisions \cup N
      /\ \A n \in N : n.example \in E /\ n.version = t.version /\ n.kind = t.kind
      /\ \A n \in N, r \in revisions : r.id < n.id
      /\ \A e \in E : \E n \in N : n.example = e
      /\ \A n, m \in N : n.example = m.example => n = m
      /\ splits \subseteq splits' /\ splits' \subseteq Splits
      /\ inSplit' \subseteq inSplit \cup (splits' \X E)
      /\ \A e \in E : examples[e] = IF t.kind = "CREATE" THEN None ELSE t.dataset
      /\ t.kind # "CREATE" => E = t.examples
      /\ examples' \in [ExampleIds -> Names \cup {None}]
  <2>1. examples \in [ExampleIds -> Names \cup {None}]
    BY DEF DatasetInv, Types
  <2> QED
    BY <1>1, <1>2, <2>1 DEF Written
<1>5. /\ versions' \in [VersionIds -> Names \cup {None}] /\ versions'[t.version] = t.dataset
      /\ \A v \in VersionIds : v # t.version => versions'[v] = versions[v]
  BY <1>2 DEF DatasetInv, Types
<1>6. /\ session' \in [Sessions -> Transactions \cup {None}]
      /\ Open' = Open \ {c} /\ \A b \in Open' : session'[b] = session[b]
  BY <1>2 DEF DatasetInv, Types, Open
<1> HIDE DEF t
<1>7. Types'
  BY <1>2, <1>4, <1>5, <1>6 DEF DatasetInv, Types
<1>8. RowsFit'
  <2>1. /\ \A v \in VersionIds : versions'[v] \in datasets' \cup {None}
        /\ \A e \in ExampleIds : examples'[e] \in datasets' \cup {None}
    BY <1>2, <1>3, <1>5 DEF DatasetInv, RowsFit
  <2>2. inSplit' \subseteq splits' \X {e \in ExampleIds : examples'[e] # None}
    <3>1. {e \in ExampleIds : examples[e] # None} \subseteq {e \in ExampleIds : examples'[e] # None}
          /\ E \subseteq {e \in ExampleIds : examples'[e] # None}
      BY <1>2, <1>3
    <3>2. inSplit \subseteq splits \X {e \in ExampleIds : examples[e] # None}
      BY DEF DatasetInv, RowsFit
    <3> QED
      BY <1>4, <3>1, <3>2
  <2>3. ASSUME NEW x \in Experiments, experiments'[x] # None
        PROVE  /\ experiments'[x].dataset \in datasets' /\ versions'[experiments'[x].version] # None
               /\ experiments'[x].splits \subseteq splits'
               /\ experiments'[x].snapshot \subseteq revisions'
    <3>1. /\ experiments[x].dataset \in datasets /\ versions[experiments[x].version] # None
          /\ experiments[x].splits \subseteq splits
          /\ experiments[x].snapshot \subseteq revisions
          /\ experiments[x].version \in VersionIds
      BY <1>2, <2>3 DEF DatasetInv, Types, RowsFit, ExperimentRows
    <3> QED
      BY <1>2, <1>4, <1>5, <3>1
  <2>4. ASSUME NEW r \in revisions'
        PROVE  examples'[r.example] # None /\ examples'[r.example] = versions'[r.version]
    <3>1. CASE r \in revisions
      BY <1>2, <1>3, <1>5, <3>1 DEF DatasetInv, RowsFit
    <3>2. CASE r \in N
      BY <1>2, <1>3, <1>4, <1>5, <3>2
    <3> QED
      BY <1>4, <3>1, <3>2
  <2>5. ASSUME NEW r \in revisions', NEW q \in revisions', r.example = q.example,
               r.version = q.version
        PROVE  r = q
    <3>1. CASE r \in revisions /\ q \in revisions
      BY <2>5, <3>1 DEF DatasetInv, RowsFit
    <3>2. CASE r \in N \/ q \in N
      <4>1. r \in N /\ q \in N
        BY <1>2, <1>4, <2>5, <3>2
      <4> QED
        BY <1>4, <2>5, <4>1
    <3> QED
      BY <1>4, <3>1, <3>2
  <2>6. lock' \in BOOLEAN /\ datasets' \subseteq Names /\ revisions' \subseteq Revisions
        /\ session' \in [Sessions -> Transactions \cup {None}]
    BY <1>7 DEF Types
  <2> QED
    BY <2>1, <2>2, <2>3, <2>4, <2>5, <2>6 DEF RowsFit
<1>9. SessionsFit'
  <2> SUFFICES ASSUME NEW b \in Open'
               PROVE  /\ session'[b].version # None => versions'[session'[b].version] = None
                      /\ \A a \in Open' :
                           session'[a].version = session'[b].version /\ a # b => session'[b].version = None
                      /\ session'[b].kind # "CREATE" =>
                           session'[b].examples \subseteq
                             {e \in ExampleIds : examples'[e] = session'[b].dataset}
    BY DEF SessionsFit, ExamplesOf
  <2>1. b \in Open /\ b # c /\ session'[b] = session[b]
    BY <1>6
  <2>2. session[b].version # None =>
          session[b].version \in VersionIds /\ session[b].version # t.version
    <3>1. session[b] \in Transactions
      BY <2>1 DEF DatasetInv, Types, Open
    <3>2. session[b].version # None => session[b].version \in VersionIds
      BY <3>1 DEF Transactions
    <3> QED
      BY <1>2, <2>1, <3>2 DEF DatasetInv, SessionsFit, t
  <2>3. session[b].version # None => versions'[session[b].version] = None
    BY <1>5, <2>1, <2>2 DEF DatasetInv, SessionsFit
  <2>4. \A a \in Open' : session'[a].version = session[b].version /\ a # b => session[b].version = None
    BY <1>6, <2>1 DEF DatasetInv, SessionsFit
  <2>5. session[b].kind # "CREATE" =>
          session[b].examples \subseteq {e \in ExampleIds : examples'[e] = session[b].dataset}
    <3>1. session[b].dataset \in Names
      BY <2>1 DEF DatasetInv, Types, Open, Transactions
    <3>2. session[b].dataset # None
      BY <3>1, DatasetsNoneAssumption
    <3>3. ExamplesOf(session[b].dataset) \subseteq {e \in ExampleIds : examples'[e] = session[b].dataset}
      BY <1>3, <3>2 DEF ExamplesOf
    <3> QED
      BY <2>1, <3>3 DEF DatasetInv, SessionsFit
  <2> QED
    BY <2>1, <2>3, <2>4, <2>5
<1>10. SnapshotsFit'
  <2> SUFFICES ASSUME NEW x \in Experiments, experiments[x] # None,
                      NEW r \in experiments[x].snapshot
               PROVE  examples'[r.example] = experiments[x].dataset
    BY <1>2 DEF SnapshotsFit
  <2>1. r \in revisions /\ examples[r.example] = experiments[x].dataset
    BY DEF DatasetInv, RowsFit, SnapshotsFit
  <2> QED
    BY <1>2, <1>3, <2>1 DEF DatasetInv, RowsFit
<1>11. CreatedOnce'
  <2>1. ASSUME NEW e \in ExampleIds, examples'[e] # None
        PROVE  \E r \in revisions' : r.example = e /\ r.kind = "CREATE"
    <3>1. CASE examples[e] # None
      BY <1>4, <3>1 DEF DatasetInv, CreatedOnce
    <3>2. CASE examples[e] = None
      <4>1. e \in E /\ t.kind = "CREATE"
        BY <1>2, <1>3, <1>4, <2>1, <3>2
      <4> QED
        BY <1>4, <4>1
    <3> QED
      BY <3>1, <3>2
  <2>2. ASSUME NEW r \in revisions', NEW q \in revisions', r.example = q.example,
               r.kind = "CREATE", q.kind = "CREATE"
        PROVE  r = q
    <3>1. CASE r \in revisions /\ q \in revisions
      BY <2>2, <3>1 DEF DatasetInv, CreatedOnce
    <3>2. CASE r \in N \/ q \in N
      <4>1. t.kind = "CREATE" /\ r.example \in E /\ examples[r.example] = None
        BY <1>4, <2>2, <3>2
      <4>2. r \notin revisions /\ q \notin revisions
        BY <2>2, <4>1 DEF DatasetInv, RowsFit
      <4> QED
        BY <1>4, <2>2, <4>2
    <3> QED
      BY <1>4, <3>1, <3>2
  <2> QED
    BY <2>1, <2>2 DEF CreatedOnce
<1>12. ASSUME lock PROVE OneOpen' /\ InOrder' /\ ChangesLiving'
  <2>1. Open' = {}
    BY <1>2, <1>6, <1>12 DEF DatasetInv, OneOpen
  <2>2. \A r \in revisions : r.version < t.version
    <3>1. t.version # None
      BY <1>2, DatasetsNoneAssumption DEF VersionIds
    <3> QED
      BY <1>2, <1>12, <3>1 DEF DatasetInv, OneOpen, t
  <2>3. \A r \in revisions' : r.version \in Int
    BY <1>7 DEF Types, Revisions, VersionIds
  <2>4. t.version \in Int
    BY <1>2 DEF VersionIds
  <2>5. ASSUME NEW r \in revisions', NEW q \in revisions', r.example = q.example,
               r.version < q.version
        PROVE  r.id < q.id
    <3>1. r \in revisions
      <4> SUFFICES ASSUME r \in N PROVE FALSE
        BY <1>4
      <4>1. q.version < t.version \/ q.version = t.version
        BY <1>4, <2>2
      <4> QED
        BY <1>4, <2>3, <2>4, <2>5, <4>1
    <3>2. CASE q \in revisions
      BY <1>12, <2>5, <3>1, <3>2 DEF DatasetInv, InOrder
    <3>3. CASE q \in N
      BY <1>4, <3>1, <3>3
    <3> QED
      BY <1>4, <3>2, <3>3
  <2>6. ASSUME NEW r \in revisions', NEW q \in revisions', r.example = q.example,
               r.kind = "DELETE"
        PROVE  q.version <= r.version
    <3>1. CASE r \in N
      <4>1. q.version < t.version \/ q.version = t.version
        BY <1>4, <2>2
      <4> QED
        BY <1>4, <2>3, <2>4, <3>1, <4>1
    <3>2. CASE r \in revisions /\ q \in revisions
      BY <1>12, <2>6, <3>2 DEF DatasetInv, InOrder
    <3>3. CASE r \in revisions /\ q \in N
      <4>1. r.example \in E /\ examples[r.example] # None
        BY <1>4, <2>6, <3>3 DEF DatasetInv, RowsFit
      <4>2. t.kind # "CREATE" /\ r.example \in t.examples
        BY <1>4, <4>1
      <4> QED
        BY <1>2, <1>12, <2>6, <3>3, <4>2 DEF DatasetInv, ChangesLiving, t
    <3> QED
      BY <1>4, <3>1, <3>2, <3>3
  <2> QED
    BY <2>1, <2>5, <2>6 DEF OneOpen, InOrder, ChangesLiving
<1>13. SnapshotHolds'
  <2> SUFFICES ASSUME lock, NEW x \in Experiments, experiments[x] # None
               PROVE  RevisionsAt(experiments[x].dataset, experiments[x].version)'
                        = RevisionsAt(experiments[x].dataset, experiments[x].version)
    BY <1>2 DEF DatasetInv, SnapshotHolds
  <2>1. /\ experiments[x].dataset \in Names /\ experiments[x].version \in VersionIds
        /\ versions[experiments[x].version] # None
    BY DEF DatasetInv, Types, RowsFit, ExperimentRows
  <2>2. \A d \in Names, v \in VersionIds : versions[v] # None => RevisionsAt(d, v)' = RevisionsAt(d, v)
    BY CommitSparesVersions
  <2> QED
    BY <1>2, <2>1, <2>2 DEF RevisionsAt, LastByVersion, ExamplesOf
<1> QED
  BY <1>2, <1>7, <1>8, <1>9, <1>10, <1>11, <1>12, <1>13 DEF DatasetInv

-----------------------------------------------------------------------------
(* Datasets, splits and experiments *)

\* What is left when dataset d is deleted.
LEMMA DeleteFacts ==
  ASSUME DatasetInv, NEW d \in Names, DeleteDataset(d)
  PROVE  /\ d \in datasets /\ d # None /\ datasets' = datasets \ {d}
         /\ \A v \in VersionIds : versions'[v] = IF versions[v] = d THEN None ELSE versions[v]
         /\ \A e \in ExampleIds : examples'[e] = IF examples[e] = d THEN None ELSE examples[e]
         /\ \A r \in revisions :
              /\ r.version \in VersionIds /\ r.example \in ExampleIds
              /\ r \in revisions' <=> examples[r.example] # d
         /\ revisions' \subseteq revisions
         /\ inSplit' = {p \in inSplit : p[2] \notin ExamplesOf(d)}
         /\ \A x \in Experiments :
              experiments'[x] # None =>
                /\ experiments'[x] = experiments[x] /\ experiments[x].dataset # d
                /\ versions[experiments[x].version] # d
         /\ \A c \in Sessions :
              session'[c] = IF c \in Open /\ session[c].dataset = d THEN None ELSE session[c]
         /\ (lock => Open = {}) /\ UNCHANGED <<lock, splits, operations>>
<1>1. d # None
  BY DatasetsNoneAssumption
<1>2. /\ d \in datasets /\ datasets' = datasets \ {d}
      /\ Cascade(VersionsOf(d), ExamplesOf(d),
             {x \in Experiments : experiments[x] # None /\ experiments[x].dataset = d})
      /\ session' = [c \in Sessions |->
           IF c \in Open /\ session[c].dataset = d THEN None ELSE session[c]]
      /\ (lock => Open = {}) /\ UNCHANGED <<lock, splits, operations>>
  BY DEF DeleteDataset, Alone
<1>3. \A r \in revisions : r.version \in VersionIds /\ r.example \in ExampleIds
                           /\ examples[r.example] = versions[r.version]
  BY DEF DatasetInv, Types, RowsFit, Revisions
<1>4. /\ \A v \in VersionIds : versions'[v] = IF versions[v] = d THEN None ELSE versions[v]
      /\ \A e \in ExampleIds : examples'[e] = IF examples[e] = d THEN None ELSE examples[e]
  BY <1>2 DEF Cascade, VersionsOf, ExamplesOf
<1>5. revisions' = {r \in revisions : r.version \notin VersionsOf(d) /\ r.example \notin ExamplesOf(d)}
      /\ inSplit' = {p \in inSplit : p[2] \notin ExamplesOf(d)}
  BY <1>2 DEF Cascade
<1>6. \A r \in revisions : r \in revisions' <=> examples[r.example] # d
  BY <1>3, <1>5 DEF VersionsOf, ExamplesOf
<1>7. \A x \in Experiments :
        experiments'[x] # None =>
          /\ experiments'[x] = experiments[x] /\ experiments[x].dataset # d
          /\ versions[experiments[x].version] # d
  <2> SUFFICES ASSUME NEW x \in Experiments, experiments'[x] # None
               PROVE  /\ experiments'[x] = experiments[x] /\ experiments[x].dataset # d
                      /\ versions[experiments[x].version] # d
    OBVIOUS
  <2>1. experiments'[x] = IF experiments[x] # None
                               /\ \/ x \in {y \in Experiments : experiments[y] # None /\ experiments[y].dataset = d}
                                  \/ experiments[x].version \in VersionsOf(d)
                          THEN None ELSE experiments[x]
    BY <1>2 DEF Cascade
  <2>2. experiments'[x] = experiments[x] /\ experiments[x].dataset # d
        /\ experiments[x].version \notin VersionsOf(d)
    BY <2>1
  <2>3. experiments[x].version \in VersionIds
    BY <2>2 DEF DatasetInv, Types, ExperimentRows
  <2> QED
    BY <2>2, <2>3 DEF VersionsOf
<1> QED
  BY <1>1, <1>2, <1>3, <1>4, <1>5, <1>6, <1>7

LEMMA DeleteSparesOthers ==
  ASSUME DatasetInv, NEW d \in Names, DeleteDataset(d), NEW b \in Names, b # d, NEW v
  PROVE  ExamplesAt(b, v)' = ExamplesAt(b, v) /\ RevisionsAt(b, v)' = RevisionsAt(b, v)
<1>1. b # None
  BY DatasetsNoneAssumption
<1>2. ExamplesOf(b)' = ExamplesOf(b)
  BY <1>1, DeleteFacts DEF ExamplesOf
<1>3. \A e \in ExamplesOf(b) :
        LastById(e, v)' = LastById(e, v) /\ LastByVersion(e, v)' = LastByVersion(e, v)
  <2> SUFFICES ASSUME NEW e \in ExamplesOf(b)
               PROVE  LastById(e, v)' = LastById(e, v) /\ LastByVersion(e, v)' = LastByVersion(e, v)
    OBVIOUS
  <2>1. examples[e] = b
    BY DEF ExamplesOf
  <2>2. \A r : r \in revisions' /\ r.example = e <=> r \in revisions /\ r.example = e
    BY <2>1, DeleteFacts
  <2> QED
    BY <2>2, SameLast
<1> QED
  BY <1>2, <1>3 DEF ExamplesAt, RevisionsAt, Alive

LEMMA DeleteDatasetKeeps ==
  ASSUME DatasetInv, NEW d \in Names, DeleteDataset(d)
  PROVE  DatasetInv'
<1>1. /\ d \in datasets /\ d # None /\ datasets' = datasets \ {d}
      /\ \A v \in VersionIds : versions'[v] = IF versions[v] = d THEN None ELSE versions[v]
      /\ \A e \in ExampleIds : examples'[e] = IF examples[e] = d THEN None ELSE examples[e]
      /\ \A r \in revisions :
           /\ r.version \in VersionIds /\ r.example \in ExampleIds
           /\ r \in revisions' <=> examples[r.example] # d
      /\ revisions' \subseteq revisions
      /\ inSplit' = {p \in inSplit : p[2] \notin ExamplesOf(d)}
      /\ \A x \in Experiments :
           experiments'[x] # None =>
             /\ experiments'[x] = experiments[x] /\ experiments[x].dataset # d
             /\ versions[experiments[x].version] # d
      /\ \A c \in Sessions :
           session'[c] = IF c \in Open /\ session[c].dataset = d THEN None ELSE session[c]
      /\ (lock => Open = {}) /\ UNCHANGED <<lock, splits, operations>>
  BY DeleteFacts
<1>2. Types'
  <2>1. /\ versions' \in [VersionIds -> Names \cup {None}]
        /\ examples' \in [ExampleIds -> Names \cup {None}]
    BY DEF DeleteDataset, Cascade, DatasetInv, Types
  <2>2. experiments' \in [Experiments -> ExperimentRows \cup {None}]
        /\ session' \in [Sessions -> Transactions \cup {None}]
    BY DEF DeleteDataset, Cascade, DatasetInv, Types
  <2> QED
    BY <1>1, <2>1, <2>2 DEF DatasetInv, Types
<1>3. RowsFit'
  <2>1. /\ \A v \in VersionIds : versions'[v] \in datasets' \cup {None}
        /\ \A e \in ExampleIds : examples'[e] \in datasets' \cup {None}
    BY <1>1 DEF DatasetInv, RowsFit
  <2>2. inSplit' \subseteq splits' \X {e \in ExampleIds : examples'[e] # None}
    BY <1>1 DEF DatasetInv, RowsFit, ExamplesOf
  <2>3. ASSUME NEW x \in Experiments, experiments'[x] # None
        PROVE  /\ experiments'[x].dataset \in datasets' /\ versions'[experiments'[x].version] # None
               /\ experiments'[x].splits \subseteq splits'
               /\ experiments'[x].snapshot \subseteq revisions'
    <3>1. /\ experiments'[x] = experiments[x] /\ experiments[x].dataset # d
          /\ versions[experiments[x].version] # d /\ experiments[x] # None
      BY <1>1, <2>3
    <3>2. /\ experiments[x].dataset \in datasets /\ versions[experiments[x].version] # None
          /\ experiments[x].splits \subseteq splits
          /\ experiments[x].snapshot \subseteq revisions
          /\ experiments[x].version \in VersionIds
      BY <3>1 DEF DatasetInv, Types, RowsFit, ExperimentRows
    <3>3. \A r \in experiments[x].snapshot : examples[r.example] # d
      BY <3>1 DEF DatasetInv, SnapshotsFit
    <3> QED
      BY <1>1, <3>1, <3>2, <3>3
  <2>4. \A r \in revisions' :
          examples'[r.example] # None /\ examples'[r.example] = versions'[r.version]
    BY <1>1 DEF DatasetInv, RowsFit
  <2>5. \A r, q \in revisions' : r.example = q.example /\ r.version = q.version => r = q
    BY <1>1 DEF DatasetInv, RowsFit
  <2>6. lock' \in BOOLEAN /\ datasets' \subseteq Names /\ revisions' \subseteq Revisions
        /\ session' \in [Sessions -> Transactions \cup {None}]
    BY <1>2 DEF Types
  <2> QED
    BY <2>1, <2>2, <2>3, <2>4, <2>5, <2>6 DEF RowsFit
<1>4. \A c \in Open' : c \in Open /\ session'[c] = session[c] /\ session[c].dataset # d
  BY <1>1 DEF Open
<1>5. SessionsFit'
  <2> SUFFICES ASSUME NEW c \in Open'
               PROVE  /\ session[c].version # None => versions'[session[c].version] = None
                      /\ \A b \in Open' :
                           session[b].version = session[c].version /\ b # c => session[c].version = None
                      /\ session[c].kind # "CREATE" =>
                           session[c].examples \subseteq
                             {e \in ExampleIds : examples'[e] = session[c].dataset}
    BY <1>4 DEF SessionsFit, ExamplesOf
  <2>1. c \in Open /\ session[c].dataset # d /\ session[c] \in Transactions
    BY <1>4 DEF DatasetInv, Types, Open
  <2>2. session[c].version # None => session[c].version \in VersionIds
    BY <2>1 DEF Transactions
  <2>3. ExamplesOf(session[c].dataset) \subseteq {e \in ExampleIds : examples'[e] = session[c].dataset}
    BY <1>1, <2>1 DEF ExamplesOf
  <2> QED
    BY <1>1, <1>4, <2>1, <2>2, <2>3 DEF DatasetInv, SessionsFit
<1>6. SnapshotsFit'
  <2> SUFFICES ASSUME NEW x \in Experiments, experiments'[x] # None,
                      NEW r \in experiments'[x].snapshot
               PROVE  examples'[r.example] = experiments'[x].dataset
    BY DEF SnapshotsFit
  <2>1. experiments'[x] = experiments[x] /\ experiments[x].dataset # d /\ experiments[x] # None
    BY <1>1
  <2>2. r \in revisions /\ examples[r.example] = experiments[x].dataset
    BY <2>1 DEF DatasetInv, RowsFit, SnapshotsFit
  <2> QED
    BY <1>1, <2>1, <2>2
<1>7. CreatedOnce'
  <2>1. ASSUME NEW e \in ExampleIds, examples'[e] # None
        PROVE  \E r \in revisions' : r.example = e /\ r.kind = "CREATE"
    <3>1. examples[e] # None /\ examples[e] # d
      BY <1>1, <2>1
    <3>2. PICK r \in revisions : r.example = e /\ r.kind = "CREATE"
      BY <3>1 DEF DatasetInv, CreatedOnce
    <3> QED
      BY <1>1, <3>1, <3>2
  <2> QED
    BY <1>1, <2>1 DEF DatasetInv, CreatedOnce
<1>8. (lock => OneOpen /\ InOrder /\ ChangesLiving)'
  <2> SUFFICES ASSUME lock PROVE OneOpen' /\ InOrder' /\ ChangesLiving'
    BY <1>1
  <2>1. Open' = {}
    BY <1>1, <1>4
  <2> QED
    BY <1>1, <2>1 DEF DatasetInv, OneOpen, InOrder, ChangesLiving
<1>9. SnapshotHolds'
  <2> SUFFICES ASSUME lock, NEW x \in Experiments, experiments'[x] # None
               PROVE  /\ experiments'[x] = experiments[x] /\ experiments[x] # None
                      /\ RevisionsAt(experiments[x].dataset, experiments[x].version)'
                           = RevisionsAt(experiments[x].dataset, experiments[x].version)
    BY <1>1 DEF DatasetInv, SnapshotHolds
  <2>1. /\ experiments'[x] = experiments[x] /\ experiments[x] # None
        /\ experiments[x].dataset \in Names /\ experiments[x].dataset # d
    BY <1>1 DEF DatasetInv, Types, ExperimentRows
  <2>2. \A b \in Names, v \in VersionIds : b # d => RevisionsAt(b, v)' = RevisionsAt(b, v)
    BY DeleteSparesOthers
  <2>3. experiments[x].version \in VersionIds
    BY <2>1 DEF DatasetInv, Types, ExperimentRows
  <2> QED
    BY <2>1, <2>2, <2>3 DEF RevisionsAt, LastByVersion, ExamplesOf
<1> QED
  BY <1>2, <1>3, <1>5, <1>6, <1>7, <1>8, <1>9 DEF DatasetInv

\* What DatasetInv says of an experiment y, with datasets D and splits S.
ExperimentFits(y, D, S) ==
  /\ y.dataset \in D /\ versions[y.version] # None /\ y.splits \subseteq S
  /\ y.snapshot \subseteq revisions
  /\ \A r \in y.snapshot : examples[r.example] = y.dataset
  /\ lock => LET then == RevisionsAt(y.dataset, y.version) IN
             IF y.all THEN y.snapshot = then ELSE y.snapshot \subseteq then

LEMMA ExperimentsFit ==
  ASSUME DatasetInv
  PROVE  \A x \in Experiments : experiments[x] # None =>
           ExperimentFits(experiments[x], datasets, splits)
BY DEF DatasetInv, RowsFit, SnapshotsFit, SnapshotHolds, ExperimentFits

LEMMA RowsOfSplitsAndExperiments ==
  ASSUME DatasetInv, UNCHANGED <<lock, versions, examples, revisions, session, operations>>,
         datasets \subseteq datasets', datasets' \subseteq Names, splits' \subseteq Splits,
         inSplit' \subseteq splits' \X {e \in ExampleIds : examples[e] # None},
         experiments' \in [Experiments -> ExperimentRows \cup {None}],
         \A x \in Experiments : experiments'[x] # None =>
           ExperimentFits(experiments'[x], datasets', splits')
  PROVE  DatasetInv'
<1>1. /\ lock' = lock /\ versions' = versions /\ examples' = examples /\ revisions' = revisions
      /\ session' = session /\ operations' = operations /\ Open' = Open
  BY DEF Open
<1>2. Types'
  BY <1>1 DEF DatasetInv, Types
<1>3. RowsFit'
  <2>1. /\ \A v \in VersionIds : versions'[v] \in datasets' \cup {None}
        /\ \A e \in ExampleIds : examples'[e] \in datasets' \cup {None}
    BY <1>1 DEF DatasetInv, RowsFit
  <2>2. \A x \in Experiments : experiments'[x] # None =>
          /\ experiments'[x].dataset \in datasets' /\ versions'[experiments'[x].version] # None
          /\ experiments'[x].splits \subseteq splits'
          /\ experiments'[x].snapshot \subseteq revisions'
    BY <1>1 DEF ExperimentFits
  <2>3. /\ \A r \in revisions' :
             examples'[r.example] # None /\ examples'[r.example] = versions'[r.version]
        /\ \A r, q \in revisions' : r.example = q.example /\ r.version = q.version => r = q
    BY <1>1 DEF DatasetInv, RowsFit
  <2>4. /\ lock' \in BOOLEAN /\ datasets' \subseteq Names /\ revisions' \subseteq Revisions
        /\ session' \in [Sessions -> Transactions \cup {None}]
    BY <1>2 DEF Types
  <2> QED
    BY <1>1, <2>1, <2>2, <2>3, <2>4 DEF RowsFit
<1>4. SessionsFit' /\ CreatedOnce'
  BY <1>1 DEF DatasetInv, SessionsFit, CreatedOnce, ExamplesOf
<1>5. SnapshotsFit'
  BY <1>1 DEF SnapshotsFit, ExperimentFits
<1>6. (lock => OneOpen /\ InOrder /\ ChangesLiving)'
  BY <1>1 DEF DatasetInv, OneOpen, InOrder, ChangesLiving
<1>7. SnapshotHolds'
  <2>1. \A d, v : RevisionsAt(d, v)' = RevisionsAt(d, v)
    BY <1>1, SameReads
  <2> SUFFICES ASSUME lock, NEW x \in Experiments, experiments'[x] # None
               PROVE  IF experiments'[x].all
                      THEN experiments'[x].snapshot = RevisionsAt(experiments'[x].dataset, experiments'[x].version)
                      ELSE experiments'[x].snapshot
                             \subseteq RevisionsAt(experiments'[x].dataset, experiments'[x].version)
    BY <1>1, <2>1 DEF SnapshotHolds, RevisionsAt, LastByVersion, ExamplesOf
  <2> QED
    BY DEF ExperimentFits
<1> QED
  BY <1>2, <1>3, <1>4, <1>5, <1>6, <1>7 DEF DatasetInv

LEMMA DatasetAndSplitsKeep ==
  ASSUME DatasetInv,
         \/ \E d \in Names : CreateDataset(d)
         \/ \E s \in Splits, E \in SUBSET ExampleIds : CreateSplit(s, E)
         \/ \E e \in ExampleIds, S \in SUBSET Splits : SetExampleSplits(e, S)
         \/ \E S \in SUBSET Splits : DeleteSplits(S)
  PROVE  DatasetInv'
<1>1. /\ datasets \subseteq Names /\ splits \subseteq Splits
      /\ experiments \in [Experiments -> ExperimentRows \cup {None}]
      /\ inSplit \subseteq splits \X {e \in ExampleIds : examples[e] # None}
      /\ \A x \in Experiments : experiments[x] # None => experiments[x].splits \subseteq splits
  BY DEF DatasetInv, Types, RowsFit
<1>2. \A D, S : \A x \in Experiments :
        experiments[x] # None /\ datasets \subseteq D /\ splits \subseteq S =>
          ExperimentFits(experiments[x], D, S)
  BY ExperimentsFit DEF ExperimentFits
<1>3. ASSUME NEW d \in Names, CreateDataset(d) PROVE DatasetInv'
  <2>1. datasets' = datasets \cup {d}
        /\ UNCHANGED <<lock, versions, examples, revisions, splits, inSplit, experiments,
                       session, operations>>
    BY <1>3 DEF CreateDataset
  <2>2. \A x \in Experiments : experiments'[x] # None =>
          ExperimentFits(experiments'[x], datasets', splits')
    BY <1>2, <2>1
  <2> QED
    BY <1>1, <2>1, <2>2, RowsOfSplitsAndExperiments
<1>4. ASSUME NEW s \in Splits, NEW E \in SUBSET ExampleIds, CreateSplit(s, E) PROVE DatasetInv'
  <2>1. splits' = splits \cup {s} /\ inSplit' = inSplit \cup ({s} \X E)
        /\ (\A e \in E : examples[e] # None)
        /\ UNCHANGED <<lock, datasets, versions, examples, revisions, experiments,
                       session, operations>>
    BY <1>4 DEF CreateSplit
  <2>2. \A x \in Experiments : experiments'[x] # None =>
          ExperimentFits(experiments'[x], datasets', splits')
    BY <1>2, <2>1
  <2> QED
    BY <1>1, <2>1, <2>2, RowsOfSplitsAndExperiments
<1>5. ASSUME NEW e \in ExampleIds, NEW S \in SUBSET Splits, SetExampleSplits(e, S)
      PROVE  DatasetInv'
  <2>1. inSplit' = {p \in inSplit : p[2] # e} \cup (S \X {e})
        /\ examples[e] # None /\ S \subseteq splits
        /\ UNCHANGED <<lock, datasets, versions, examples, revisions, splits, experiments,
                       session, operations>>
    BY <1>5 DEF SetExampleSplits
  <2>2. \A x \in Experiments : experiments'[x] # None =>
          ExperimentFits(experiments'[x], datasets', splits')
    BY <1>2, <2>1
  <2> QED
    BY <1>1, <2>1, <2>2, RowsOfSplitsAndExperiments
<1>6. ASSUME NEW S \in SUBSET Splits, DeleteSplits(S) PROVE DatasetInv'
  <2>1. splits' = splits \ S /\ inSplit' = {p \in inSplit : p[1] \notin S}
        /\ experiments' = [x \in Experiments |->
             IF experiments[x] = None THEN None ELSE [experiments[x] EXCEPT !.splits = @ \ S]]
        /\ UNCHANGED <<lock, datasets, versions, examples, revisions, session, operations>>
    BY <1>6 DEF DeleteSplits
  <2>2. ASSUME NEW x \in Experiments, experiments[x] # None
        PROVE  LET y == [experiments[x] EXCEPT !.splits = @ \ S] IN
               y \in ExperimentRows /\ ExperimentFits(y, datasets, splits')
    <3> DEFINE y == [experiments[x] EXCEPT !.splits = @ \ S]
    <3>1. experiments[x] \in ExperimentRows /\ ExperimentFits(experiments[x], datasets, splits)
      BY <1>1, <2>2, ExperimentsFit
    <3>2. /\ y \in ExperimentRows /\ y.splits = experiments[x].splits \ S
          /\ y.dataset = experiments[x].dataset /\ y.version = experiments[x].version
          /\ y.snapshot = experiments[x].snapshot /\ y.all = experiments[x].all
      BY <3>1 DEF ExperimentRows
    <3> HIDE DEF y
    <3>3. y.splits \subseteq splits'
      BY <2>1, <3>1, <3>2 DEF ExperimentFits
    <3>4. ExperimentFits(y, datasets, splits')
      BY <3>1, <3>2, <3>3 DEF ExperimentFits
    <3> QED
      BY <3>2, <3>4 DEF y
  <2>3. experiments' \in [Experiments -> ExperimentRows \cup {None}]
    BY <2>1, <2>2
  <2>4. \A x \in Experiments : experiments'[x] # None =>
          ExperimentFits(experiments'[x], datasets', splits')
    BY <2>1, <2>2
  <2>5. inSplit' \subseteq splits' \X {e \in ExampleIds : examples[e] # None}
        /\ splits' \subseteq Splits
    BY <1>1, <2>1
  <2> QED
    BY <1>1, <2>1, <2>3, <2>4, <2>5, RowsOfSplitsAndExperiments
<1> QED
  BY <1>3, <1>4, <1>5, <1>6

LEMMA ExperimentsKeep ==
  ASSUME DatasetInv, NEW x \in Experiments,
         \/ \E d \in Names, v \in VersionIds, S \in SUBSET Splits : CreateExperiment(x, d, v, S)
         \/ DeleteExperiment(x)
  PROVE  DatasetInv'
<1>1. /\ datasets \subseteq Names /\ splits \subseteq Splits
      /\ experiments \in [Experiments -> ExperimentRows \cup {None}]
      /\ inSplit \subseteq splits \X {e \in ExampleIds : examples[e] # None}
  BY DEF DatasetInv, Types, RowsFit
<1>2. \A y \in Experiments : experiments[y] # None =>
        ExperimentFits(experiments[y], datasets, splits)
  BY ExperimentsFit
<1>3. CASE DeleteExperiment(x)
  <2>1. experiments' = [experiments EXCEPT ![x] = None]
        /\ UNCHANGED <<lock, datasets, versions, examples, revisions, splits, inSplit,
                       session, operations>>
    BY <1>3 DEF DeleteExperiment
  <2>2. experiments' \in [Experiments -> ExperimentRows \cup {None}]
    BY <1>1, <2>1
  <2>3. \A y \in Experiments : experiments'[y] # None =>
          ExperimentFits(experiments'[y], datasets', splits')
    BY <1>1, <1>2, <2>1
  <2> QED
    BY <1>1, <2>1, <2>2, <2>3, RowsOfSplitsAndExperiments
<1>4. ASSUME NEW d \in Names, NEW v \in VersionIds, NEW S \in SUBSET Splits,
             CreateExperiment(x, d, v, S)
      PROVE  DatasetInv'
  <2> DEFINE row == [dataset |-> d, version |-> v, splits |-> S, all |-> S = {},
                     snapshot |-> Snapshot(d, v, S)]
  <2>1. /\ d \in datasets /\ S \subseteq splits /\ versions[v] # None
        /\ experiments' = [experiments EXCEPT ![x] = row]
        /\ UNCHANGED <<lock, datasets, versions, examples, revisions, splits, inSplit,
                       session, operations>>
    BY <1>4 DEF CreateExperiment
  <2>2. \A r \in RevisionsAt(d, v) : r \in revisions /\ examples[r.example] = d
    BY DEF RevisionsAt, Alive, LastByVersion, ExamplesOf
  <2>3. Snapshot(d, v, S) \subseteq RevisionsAt(d, v)
        /\ (S = {} => Snapshot(d, v, S) = RevisionsAt(d, v))
    BY DEF Snapshot
  <2>4. ExperimentFits(row, datasets, splits)
    BY <2>1, <2>2, <2>3 DEF ExperimentFits
  <2>5. row \in ExperimentRows
    <3>1. Snapshot(d, v, S) \in SUBSET Revisions
      BY <2>2, <2>3 DEF DatasetInv, Types
    <3> QED
      BY <3>1 DEF ExperimentRows
  <2> HIDE DEF row
  <2>6. experiments' \in [Experiments -> ExperimentRows \cup {None}]
    BY <1>1, <2>1, <2>5
  <2>7. \A y \in Experiments : experiments'[y] # None =>
          ExperimentFits(experiments'[y], datasets', splits')
    BY <1>1, <1>2, <2>1, <2>4
  <2> QED
    BY <1>1, <2>1, <2>6, <2>7, RowsOfSplitsAndExperiments
<1> QED
  BY <1>3, <1>4

-----------------------------------------------------------------------------
(* Theorems *)

LEMMA NextDatasets ==
  ASSUME DatasetInv, [Next]_vars
  PROVE  DatasetInv'
<1>1. CASE UNCHANGED vars
  <2>1. operations' \in Seq(Uploads)
    BY <1>1 DEF vars, DatasetInv, Types
  <2> QED
    BY <1>1, <2>1, OnlyOperationsChange DEF vars, rows
<1>2. ASSUME NEW c \in Clients, NEW d \in Names, BeginAdd(c, d) PROVE DatasetInv'
  BY <1>2, BeginAddKeeps
<1>3. ASSUME NEW c \in Clients, NEW E \in SUBSET ExampleIds, BeginPatch(c, E) \/ BeginDelete(c, E)
      PROVE  DatasetInv'
  BY <1>3, BeginPatchKeeps, BeginDeleteKeeps
<1>4. ASSUME NEW c \in Sessions, TakeVersion(c) \/ Commit(c) \/ Rollback(c) PROVE DatasetInv'
  BY <1>4, TakeVersionKeeps, CommitKeeps, RollbackKeeps
<1>5. CASE \/ \E u \in Uploads : Upload(u) \/ \E c \in Clients : SyncUpload(c, u)
           \/ RunOperation \/ DropOperation
  BY <1>5, UploadsKeep
<1>6. ASSUME NEW d \in Names, DeleteDataset(d) PROVE DatasetInv'
  BY <1>6, DeleteDatasetKeeps
<1>7. CASE \/ \E d \in Names : CreateDataset(d)
           \/ \E s \in Splits, E \in SUBSET ExampleIds : CreateSplit(s, E)
           \/ \E e \in ExampleIds, S \in SUBSET Splits : SetExampleSplits(e, S)
           \/ \E S \in SUBSET Splits : DeleteSplits(S)
  BY <1>7, DatasetAndSplitsKeep
<1>8. ASSUME NEW x \in Experiments,
             \/ \E d \in Names, v \in VersionIds, S \in SUBSET Splits : CreateExperiment(x, d, v, S)
             \/ DeleteExperiment(x)
      PROVE  DatasetInv'
  BY <1>8, ExperimentsKeep
<1> QED
  BY <1>1, <1>2, <1>3, <1>4, <1>5, <1>6, <1>7, <1>8 DEF Next

LEMMA AlwaysDatasets == Spec => []DatasetInv
BY InitDatasets, NextDatasets, PTL DEF Spec

\* With any interleaving, also without turns, rows and the rows they refer to fit
\* together: no reference is left hanging by a cascade, and no example has two
\* revisions in a version.
THEOREM DatasetRowsFit == Spec => []RowsFit
<1>1. DatasetInv => RowsFit
  BY DEF DatasetInv
<1> QED
  BY <1>1, AlwaysDatasets, PTL

\* With turns, the snapshot of an experiment is what its dataset held at its version.
THEOREM DatasetSnapshotsHold == Spec => []SnapshotHolds
<1>1. DatasetInv => SnapshotHolds
  BY DEF DatasetInv
<1> QED
  BY <1>1, AlwaysDatasets, PTL

\* With turns, no step changes what a version that stays holds, for either reader.
THEOREM DatasetVersionsFixed == Spec => VersionFixed
<1> DEFINE Fixed == lock => \A d \in Names, v \in VersionIds :
                      versions[v] = d /\ versions'[v] = d =>
                        ExamplesAt(d, v)' = ExamplesAt(d, v) /\ RevisionsAt(d, v)' = RevisionsAt(d, v)
<1>1. ASSUME DatasetInv, [Next]_vars PROVE Fixed
  <2> SUFFICES ASSUME lock, NEW d \in Names, NEW v \in VersionIds, versions[v] = d, versions'[v] = d
               PROVE  ExamplesAt(d, v)' = ExamplesAt(d, v) /\ RevisionsAt(d, v)' = RevisionsAt(d, v)
    OBVIOUS
  <2>1. versions[v] # None
    BY DatasetsNoneAssumption
  <2>2. ASSUME NEW c \in Sessions, Commit(c)
        PROVE  ExamplesAt(d, v)' = ExamplesAt(d, v) /\ RevisionsAt(d, v)' = RevisionsAt(d, v)
    BY <1>1, <2>1, <2>2, CommitSparesVersions
  <2>3. ASSUME NEW b \in Names, DeleteDataset(b)
        PROVE  ExamplesAt(d, v)' = ExamplesAt(d, v) /\ RevisionsAt(d, v)' = RevisionsAt(d, v)
    <3>1. \A w \in VersionIds : versions'[w] = IF versions[w] = b THEN None ELSE versions[w]
      BY <1>1, <2>3, DeleteFacts
    <3>2. d # b
      BY <2>1, <3>1
    <3> QED
      BY <1>1, <2>3, <3>2, DeleteSparesOthers
  <2>4. CASE revisions' = revisions /\ examples' = examples
    BY <2>4, SameReads
  <2>5. \/ revisions' = revisions /\ examples' = examples
        \/ \E c \in Sessions : Commit(c)
        \/ \E b \in Names : DeleteDataset(b)
    <3>1. CASE UNCHANGED vars
      BY <3>1 DEF vars
    <3>2. CASE Next
      BY <3>2 DEF Next, rows, BeginAdd, BeginPatch, BeginDelete, Begin, TakeVersion, Rollback,
           Upload, SyncUpload, StartUpload, RunOperation, DropOperation, CreateDataset,
           CreateSplit, SetExampleSplits, DeleteSplits, CreateExperiment, DeleteExperiment
    <3> QED
      BY <1>1, <3>1, <3>2
  <2> QED
    BY <2>2, <2>3, <2>4, <2>5
<1> QED
  BY <1>1, AlwaysDatasets, PTL DEF Spec, VersionFixed

\* The highest id and the newest version are of the same revision.
LEMMA LastIsLast ==
  ASSUME DatasetInv, lock
  PROVE  \A e, v : LastById(e, v) = LastByVersion(e, v)
<1>1. \A r \in revisions : r.id \in Int /\ r.version \in Int
  BY DEF DatasetInv, Types, Revisions, VersionIds
<1>2. \A r, q \in revisions : r.example = q.example => (q.id <= r.id <=> q.version <= r.version)
  <2> SUFFICES ASSUME NEW r \in revisions, NEW q \in revisions, r.example = q.example
               PROVE  q.id <= r.id <=> q.version <= r.version
    OBVIOUS
  <2>1. CASE q.version < r.version
    BY <1>1, <2>1 DEF DatasetInv, InOrder
  <2>2. CASE r.version < q.version
    BY <1>1, <2>2 DEF DatasetInv, InOrder
  <2>3. CASE r.version = q.version
    BY <1>1, <2>3 DEF DatasetInv, RowsFit
  <2> QED
    BY <1>1, <2>1, <2>2, <2>3
<1> QED
  BY <1>2 DEF LastById, LastByVersion

\* As many revisions as examples, when each example has one of them.
LEMMA OneOfEach ==
  ASSUME NEW R, NEW X, IsFiniteSet(X),
         \A r \in R : r.example \in X,
         \A r, q \in R : r.example = q.example => r = q,
         \A e \in X : \E r \in R : r.example = e
  PROVE  IsFiniteSet(R) /\ Cardinality(R) = Cardinality(X)
<1> DEFINE f == [e \in X |-> CHOOSE r \in R : r.example = e]
<1>1. \A e \in X : f[e] \in R /\ f[e].example = e
  OBVIOUS
<1>2. f \in Bijection(X, R)
  <2>1. f \in [X -> R]
    BY <1>1
  <2> HIDE DEF f
  <2>2. \A a, b \in X : f[a] = f[b] => a = b
    BY <1>1
  <2>3. \A r \in R : \E e \in X : f[e] = r
    BY <1>1
  <2> QED
    BY <2>1, <2>2, <2>3, Fun_IsBij
<1> HIDE DEF f
<1>3. ExistsBijection(X, R)
  BY <1>2 DEF ExistsBijection
<1> QED
  BY <1>3, FS_Bijection

LEMMA CountsAgree ==
  ASSUME DatasetInv, lock, NEW d \in Names
  PROVE  ExampleCount(d) = Cardinality(ExamplesAt(d, MaxVersion))
<1> DEFINE X == ExamplesOf(d)
           C == {r \in revisions : examples[r.example] = d /\ r.kind = "CREATE"}
           D == {r \in revisions : examples[r.example] = d /\ r.kind = "DELETE"}
           Y == {r.example : r \in D}
           A == ExamplesAt(d, MaxVersion)
<1>1. /\ d # None /\ InOrder /\ Types /\ RowsFit /\ CreatedOnce
      /\ MaxVersion \in Nat /\ MaxExample \in Nat /\ MaxRevision \in Nat
  BY DatasetsNoneAssumption, BoundsAssumption DEF DatasetInv
<1>2. \A r \in revisions : /\ r.example \in ExampleIds /\ r.version \in 1 .. MaxVersion
                           /\ r.id \in 1 .. MaxRevision
  BY <1>1 DEF Types, Revisions, VersionIds
<1>3. IsFiniteSet(X)
  <2>1. IsFiniteSet(ExampleIds) /\ X \in SUBSET ExampleIds
    BY <1>1, FS_Interval DEF ExampleIds, ExamplesOf
  <2> HIDE DEF X
  <2> QED
    BY <2>1, FS_Subset
<1>4. Cardinality(C) = Cardinality(X)
  <2>1. \A r \in C : r.example \in X
    BY <1>2 DEF ExamplesOf
  <2>2. \A r, q \in C : r.example = q.example => r = q
    BY <1>1 DEF CreatedOnce
  <2>3. \A e \in X : \E r \in C : r.example = e
    BY <1>1 DEF CreatedOnce, ExamplesOf
  <2> HIDE DEF C, X
  <2> QED
    BY <1>3, <2>1, <2>2, <2>3, OneOfEach
<1>5. Y \subseteq X /\ IsFiniteSet(Y)
  <2>1. Y \in SUBSET X
    BY <1>2 DEF ExamplesOf
  <2> HIDE DEF X, Y
  <2> QED
    BY <1>3, <2>1, FS_Subset
<1>6. Cardinality(D) = Cardinality(Y)
  <2>1. \A r \in D : r.example \in Y
    OBVIOUS
  <2>2. \A r, q \in D : r.example = q.example => r = q
    <3> SUFFICES ASSUME NEW r \in D, NEW q \in D, r.example = q.example PROVE r = q
      OBVIOUS
    <3>1. q.version <= r.version /\ r.version <= q.version
      BY <1>1 DEF InOrder
    <3>2. r.version = q.version
      BY <1>2, <3>1
    <3> QED
      BY <1>1, <3>2 DEF RowsFit
  <2>3. \A e \in Y : \E r \in D : r.example = e
    OBVIOUS
  <2> HIDE DEF D, Y
  <2> QED
    BY <1>5, <2>1, <2>2, <2>3, OneOfEach
<1>7. Cardinality(A) = Cardinality(X \ Y)
  <2>1. \A e : LastById(e, MaxVersion) = LastByVersion(e, MaxVersion)
    BY LastIsLast
  <2>2. \A r : r \in A <=> /\ r \in revisions /\ r.kind # "DELETE" /\ r.example \in X
                           /\ r \in LastById(r.example, MaxVersion)
    BY DEF ExamplesAt, Alive, LastById
  <2>3. \A r \in A, q \in revisions : q.example = r.example => q.version <= r.version
    BY <1>1, <1>2, <2>1, <2>2 DEF LastByVersion
  <2> HIDE DEF A
  <2>4. \A r \in A : r.example \in X \ Y
    <3> SUFFICES ASSUME NEW r \in A, NEW p \in D, p.example = r.example PROVE FALSE
      BY <2>2
    <3>1. r.version <= p.version /\ p.version <= r.version
      BY <1>1, <2>2, <2>3 DEF InOrder
    <3>2. r.version = p.version
      BY <1>2, <2>2, <3>1
    <3> QED
      BY <1>1, <2>2, <3>2 DEF RowsFit
  <2>5. \A r, q \in A : r.example = q.example => r = q
    <3> SUFFICES ASSUME NEW r \in A, NEW q \in A, r.example = q.example PROVE r = q
      OBVIOUS
    <3>1. r.version <= q.version /\ q.version <= r.version
      BY <2>2, <2>3
    <3>2. r.version = q.version
      BY <1>2, <2>2, <3>1
    <3> QED
      BY <1>1, <2>2, <3>2 DEF RowsFit
  <2>6. \A e \in X \ Y : \E r \in A : r.example = e
    <3> SUFFICES ASSUME NEW e \in X, e \notin Y PROVE \E r \in A : r.example = e
      OBVIOUS
    <3> DEFINE ids == {r.id : r \in {q \in revisions : q.example = e}}
    <3>1. PICK r0 \in revisions : r0.example = e
      BY <1>1 DEF CreatedOnce, ExamplesOf
    <3>2. r0.id \in ids /\ ids \subseteq 0 .. MaxRevision /\ 0 \notin ids
      BY <1>1, <1>2, <3>1
    <3> HIDE DEF ids
    <3>3. Newest(ids) \in {0} \cup ids /\ \A i \in ids : i <= Newest(ids)
      BY <1>1, <3>2, NewestIsGreatest
    <3>4. r0.id \in 1 .. MaxRevision /\ r0.id <= Newest(ids)
      BY <1>2, <3>1, <3>2, <3>3
    <3>5. Newest(ids) \in ids
      BY <1>1, <3>3, <3>4
    <3>6. PICK r \in revisions : r.example = e /\ r.id = Newest(ids)
      BY <3>5 DEF ids
    <3>7. \A q \in revisions : q.example = e => q.id <= r.id
      BY <3>3, <3>6 DEF ids
    <3>8. r \in LastById(e, MaxVersion)
      BY <1>1, <1>2, <3>6, <3>7 DEF LastById
    <3>9. r.kind # "DELETE"
      <4>1. examples[r.example] = d
        BY <3>6 DEF ExamplesOf
      <4> QED
        BY <3>6, <4>1
    <3> QED
      BY <2>2, <3>6, <3>8, <3>9
  <2>7. IsFiniteSet(X \ Y)
    BY <1>3, FS_Difference
  <2> HIDE DEF X, Y
  <2> QED
    BY <2>4, <2>5, <2>6, <2>7, OneOfEach
<1>8. Cardinality(X \ Y) = Cardinality(X) - Cardinality(Y)
  <2>1. X \cap Y = Y
    BY <1>5
  <2> HIDE DEF X, Y
  <2> QED
    BY <1>3, <2>1, FS_Difference
<1>9. ExampleCount(d) = Cardinality(C) - Cardinality(D)
  BY DEF ExampleCount
<1> QED
  BY <1>4, <1>6, <1>7, <1>8, <1>9

\* With turns, the highest revision id, the newest version and the count of creations
\* less deletions say the same of every dataset, and nothing follows a deletion.
THEOREM DatasetReadersAgree == Spec => []ReadersAgree
<1>1. ASSUME DatasetInv PROVE ReadersAgree
  <2> SUFFICES ASSUME lock, NEW d \in datasets
               PROVE  /\ \A v \in VersionsOf(d) : ExamplesAt(d, v) = RevisionsAt(d, v)
                      /\ ExampleCount(d) = Cardinality(ExamplesAt(d, MaxVersion))
                      /\ \A r, q \in revisions :
                           r.example = q.example /\ r.kind = "DELETE" => q.version <= r.version
    BY DEF ReadersAgree
  <2>1. \A v \in VersionsOf(d) : ExamplesAt(d, v) = RevisionsAt(d, v)
    BY <1>1, LastIsLast DEF ExamplesAt, RevisionsAt
  <2>2. d \in Names
    BY <1>1 DEF DatasetInv, Types
  <2> QED
    BY <1>1, <2>1, <2>2, CountsAgree DEF DatasetInv, InOrder
<1> QED
  BY <1>1, AlwaysDatasets, PTL

=============================================================================
