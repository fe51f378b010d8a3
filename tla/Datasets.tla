------------------------------ MODULE Datasets ------------------------------
(***************************************************************************)
(* Versioned datasets of extracted-core: versions, examples, revisions,    *)
(* splits, and the snapshots that experiments take of them.                *)
(*                                                                         *)
(* A change of the examples is a transaction of several statements: it     *)
(* looks at what is stored, takes a version id, then writes revisions and  *)
(* commits.  With SQLite every session holds one asyncio lock from start   *)
(* to end; with PostgreSQL sessions interleave.  The ids of a table are    *)
(* one more than the largest stored, as SQLite gives them out, so the ids  *)
(* of what was deleted come back.  A dataset's id is its name.             *)
(***************************************************************************)
EXTENDS Integers, FiniteSets, FiniteSetsExt, Sequences

CONSTANTS
  Names,         \* datasets
  Splits,
  Experiments,   \* ids of experiments
  Clients,       \* sessions that requests open
  Inserter,      \* the session of the bulk inserter
  None,          \* NULL, and the absence of a row
  Uploads,       \* what is uploaded
  Locks,         \* {TRUE}: SQLite; {FALSE}: PostgreSQL; both to check the two
  MaxVersion, MaxExample, MaxRevision,   \* bounds on ids
  MaxQueue       \* bound on the operations waiting for the bulk inserter

ASSUME BoundsAssumption == {MaxVersion, MaxExample, MaxRevision, MaxQueue} \subseteq Nat
ASSUME UploadsAssumption ==
  Uploads \subseteq [name: Names, create: BOOLEAN, split: Splits \cup {None}]
ASSUME LocksAssumption == Locks \subseteq BOOLEAN
ASSUME DatasetsNoneAssumption ==
  None \notin Names \cup Splits \cup Nat \cup Clients \cup {Inserter}

VARIABLES
  lock,         \* whether sessions take turns
  datasets,     \* the stored datasets
  versions,     \* version id -> its dataset, or None
  examples,     \* example id -> its dataset, or None
  revisions,    \* rows [id, example, version, kind]
  splits,       \* the stored splits
  inSplit,      \* pairs <<split, example>>
  experiments,  \* experiment -> row with the revisions of its snapshot, or None
  session,      \* session -> its open transaction, or None
  operations    \* uploads that the bulk inserter has yet to carry out

vars == <<lock, datasets, versions, examples, revisions, splits, inSplit,
          experiments, session, operations>>
rows == <<datasets, versions, examples, revisions, splits, inSplit, experiments>>

Sessions == Clients \cup {Inserter}
VersionIds == 1..MaxVersion
ExampleIds == 1..MaxExample
Revisions == [id: 1..MaxRevision, example: ExampleIds, version: VersionIds,
              kind: {"CREATE", "PATCH", "DELETE"}]
ExperimentRows == [dataset: Names, version: VersionIds, splits: SUBSET Splits,
                   all: BOOLEAN,
                   snapshot: SUBSET Revisions]
Transactions ==
  [kind: {"CREATE", "PATCH", "DELETE"}, dataset: Names, version: VersionIds \cup {None},
   examples: SUBSET ExampleIds, split: Splits \cup {None}, make: BOOLEAN]

ASSUME RowsNoneAssumption == None \notin Transactions \cup ExperimentRows

Init ==
  /\ lock \in Locks
  /\ datasets = {} /\ splits = {} /\ inSplit = {} /\ revisions = {}
  /\ versions = [v \in VersionIds |-> None]
  /\ examples = [e \in ExampleIds |-> None]
  /\ experiments = [x \in Experiments |-> None]
  /\ session = [c \in Sessions |-> None]
  /\ operations = <<>>

-----------------------------------------------------------------------------
(* What readers see *)

VersionsOf(d) == {v \in VersionIds : versions[v] = d}
ExamplesOf(d) == {e \in ExampleIds : examples[e] = d}
Open == {c \in Sessions : session[c] # None}
Newest(S) == Max({0} \cup S)

\* The revision of example e with the highest id, of those up to version v.
LastById(e, v) ==
  {r \in revisions : r.example = e /\ r.version <= v
     /\ \A q \in revisions : q.example = e /\ q.version <= v => q.id <= r.id}

\* ROW_NUMBER() = 1 of the revisions of e up to version v, newest version first.
LastByVersion(e, v) ==
  {r \in revisions : r.example = e /\ r.version <= v
     /\ \A q \in revisions : q.example = e /\ q.version <= v => q.version <= r.version}

Alive(R) == {r \in R : r.kind # "DELETE"}

\* Dataset.examples, Dataset.example_count and GET /datasets/{id}/examples.
ExamplesAt(d, v) == Alive(UNION {LastById(e, v) : e \in ExamplesOf(d)})
\* get_dataset_example_revisions and the downloads.
RevisionsAt(d, v) == Alive(UNION {LastByVersion(e, v) : e \in ExamplesOf(d)})

\* Dataset.example_count of the model: creations less deletions.
ExampleCount(d) ==
  LET kinds(k) == {r \in revisions : examples[r.example] = d /\ r.kind = k}
  IN Cardinality(kinds("CREATE")) - Cardinality(kinds("DELETE"))

\* Fault: sessions never wait for each other.
MayOpenAlways(c) == session[c] = None

\* A session opens: with SQLite, once no other is open.
MayOpen(c) == session[c] = None /\ (lock => Open = {})

-----------------------------------------------------------------------------
(* Transactions that write revisions *)

TakenVersions == {v \in VersionIds : versions[v] # None}
                 \cup ({session[c].version : c \in Open} \ {None})
FreeVersion == Newest(TakenVersions) + 1

Begin(c, kind, d, version, E) ==
  /\ session' = [session EXCEPT ![c] =
       [kind |-> kind, dataset |-> d, version |-> version, examples |-> E,
        split |-> None, make |-> FALSE]]
  /\ UNCHANGED <<lock, rows>>

\* add_spans_to_dataset, add_examples_to_dataset: the dataset is there, its
\* version is inserted first.
BeginAdd(c, d) ==
  /\ MayOpen(c) /\ d \in datasets /\ FreeVersion <= MaxVersion
  /\ Begin(c, "CREATE", d, FreeVersion, {})
  /\ UNCHANGED operations

\* Fault: the examples may be of any dataset.
BeginPatchOfAny(c, E) ==
  /\ MayOpen(c) /\ E # {}
  /\ \A e \in E : Alive(LastById(e, MaxVersion)) # {}
  /\ \E d \in {examples[e] : e \in E} : Begin(c, "PATCH", d, None, E)
  /\ UNCHANGED operations

\* patch_dataset_examples: all of one dataset, none deleted; the version comes later.
BeginPatch(c, E) ==
  /\ MayOpen(c) /\ E # {}
  /\ \A e \in E : Alive(LastById(e, MaxVersion)) # {}
  /\ \E d \in datasets : E \subseteq ExamplesOf(d) /\ Begin(c, "PATCH", d, None, E)
  /\ UNCHANGED operations

\* Fault: deleted examples are deleted once more.
BeginDeleteAgain(c, E) ==
  /\ MayOpen(c) /\ E # {} /\ FreeVersion <= MaxVersion
  /\ \E d \in datasets :
       E \subseteq ExamplesOf(d) /\ Begin(c, "DELETE", d, FreeVersion, E)
  /\ UNCHANGED operations

\* delete_dataset_examples: the version is inserted, then a DELETE revision of
\* any of the examples makes the whole transaction fail.
BeginDelete(c, E) ==
  /\ MayOpen(c) /\ E # {} /\ FreeVersion <= MaxVersion
  /\ ~\E r \in revisions : r.example \in E /\ r.kind = "DELETE"
  /\ \E d \in datasets :
       E \subseteq ExamplesOf(d) /\ Begin(c, "DELETE", d, FreeVersion, E)
  /\ UNCHANGED operations

\* The version that a patch inserts after it has read.
TakeVersion(c) ==
  /\ session[c] # None /\ session[c].version = None /\ FreeVersion <= MaxVersion
  /\ session[c].dataset \in datasets
  /\ session' = [session EXCEPT ![c].version = FreeVersion]
  /\ UNCHANGED <<lock, rows, operations>>

\* One revision per example, ids in the order of the examples.
NewRevisions(E, version, kind) ==
  {[id |-> Newest({r.id : r \in revisions}) + Cardinality({f \in E : f <= e}),
    example |-> e, version |-> version, kind |-> kind] : e \in E}

WriteRevisions(E, version, kind) ==
  /\ Newest({r.id : r \in revisions}) + Cardinality(E) <= MaxRevision
  /\ revisions' = revisions \cup NewRevisions(E, version, kind)

\* The revisions are inserted and the transaction commits.  An addition makes
\* up to two new examples and puts them in the split that they name.  A dataset
\* to make must still be missing, any other must still be there.
Commit(c) ==
  /\ session[c] # None /\ session[c].version # None
  /\ LET t == session[c]
         next == Newest({e \in ExampleIds : examples[e] # None}) + 1 IN
     /\ t.make <=> t.dataset \notin datasets
     /\ datasets' = datasets \cup {t.dataset}
     /\ versions' = [versions EXCEPT ![t.version] = t.dataset]
     /\ IF t.kind = "CREATE"
        THEN \E last \in (next - 1)..MaxExample :
               /\ last <= next + 1
               /\ examples' = [e \in ExampleIds |->
                                 IF e \in next..last THEN t.dataset ELSE examples[e]]
               /\ WriteRevisions(next..last, t.version, "CREATE")
               /\ splits' = splits \cup ({t.split} \ {None})
               /\ inSplit' = inSplit \cup (({t.split} \ {None}) \X (next..last))
        ELSE /\ WriteRevisions(t.examples, t.version, t.kind)
             /\ UNCHANGED <<examples, splits, inSplit>>
  /\ session' = [session EXCEPT ![c] = None]
  /\ UNCHANGED <<lock, experiments, operations>>

\* A statement fails, a span is not found, the client is gone: rolled back.
Rollback(c) ==
  /\ session[c] # None
  /\ session' = [session EXCEPT ![c] = None]
  /\ UNCHANGED <<lock, rows, operations>>

-----------------------------------------------------------------------------
(* Uploads *)

\* POST /datasets/upload: a name to create is looked up, and the operation is
\* queued for the bulk inserter.
Upload(u) ==
  /\ lock => Open = {}
  /\ u.create => u.name \notin datasets
  /\ Len(operations) < MaxQueue
  /\ operations' = Append(operations, u)
  /\ UNCHANGED <<lock, rows, session>>

\* add_dataset_examples, in the bulk inserter's session or in the request's own
\* when it is synchronous: the dataset is made when it is to be created, and when
\* there is none to append to.
StartUpload(c, u) ==
  /\ MayOpen(c) /\ FreeVersion <= MaxVersion
  /\ u.create => u.name \notin datasets
  /\ session' = [session EXCEPT ![c] =
       [kind |-> "CREATE", dataset |-> u.name, version |-> FreeVersion, examples |-> {},
        split |-> u.split, make |-> u.name \notin datasets]]
  /\ UNCHANGED <<lock, rows>>

SyncUpload(c, u) == c # Inserter /\ StartUpload(c, u) /\ UNCHANGED operations

RunOperation ==
  /\ operations # <<>>
  /\ StartUpload(Inserter, Head(operations))
  /\ operations' = Tail(operations)

\* The name has been taken since the upload was accepted: logged, and dropped.
DropOperation ==
  /\ operations # <<>> /\ MayOpen(Inserter)
  /\ Head(operations).create /\ Head(operations).name \in datasets
  /\ operations' = Tail(operations)
  /\ UNCHANGED <<lock, rows, session>>

-----------------------------------------------------------------------------
(* Datasets and splits: transactions of one statement that matters *)

Alone == lock => Open = {}

CreateDataset(d) ==
  /\ Alone /\ d \notin datasets
  /\ datasets' = datasets \cup {d}
  /\ UNCHANGED <<lock, versions, examples, revisions, splits, inSplit, experiments,
                 session, operations>>

\* The rows that go with versions V and examples E, and the experiments of V or X.
Cascade(V, E, X) ==
  /\ versions' = [v \in VersionIds |-> IF v \in V THEN None ELSE versions[v]]
  /\ examples' = [e \in ExampleIds |-> IF e \in E THEN None ELSE examples[e]]
  /\ revisions' = {r \in revisions : r.version \notin V /\ r.example \notin E}
  /\ inSplit' = {p \in inSplit : p[2] \notin E}
  /\ experiments' = [x \in Experiments |->
       IF experiments[x] # None /\ (x \in X \/ experiments[x].version \in V)
       THEN None ELSE experiments[x]]

\* Fault: the examples stay.
DeleteDatasetRow(d) ==
  /\ Alone /\ d \in datasets
  /\ ~\E c \in Open : session[c].dataset = d /\ session[c].version # None
  /\ datasets' = datasets \ {d}
  /\ Cascade(VersionsOf(d), {}, {})
  /\ UNCHANGED <<lock, splits, session, operations>>

\* Waits for the transactions that have inserted a version of the dataset: their
\* foreign key holds its row.  Those that have only read it will find no rows to
\* refer to, and fail.
DeleteDataset(d) ==
  /\ Alone /\ d \in datasets
  /\ ~\E c \in Open : session[c].dataset = d /\ session[c].version # None
  /\ datasets' = datasets \ {d}
  /\ Cascade(VersionsOf(d), ExamplesOf(d),
             {x \in Experiments : experiments[x] # None /\ experiments[x].dataset = d})
  /\ session' = [c \in Sessions |->
       IF c \in Open /\ session[c].dataset = d THEN None ELSE session[c]]
  /\ UNCHANGED <<lock, splits, operations>>

\* create_dataset_split, and create_dataset_split_with_examples.
CreateSplit(s, E) ==
  /\ Alone /\ s \notin splits
  /\ \A e \in E : examples[e] # None
  /\ splits' = splits \cup {s} /\ inSplit' = inSplit \cup ({s} \X E)
  /\ UNCHANGED <<lock, datasets, versions, examples, revisions, experiments,
                 session, operations>>

\* set_dataset_example_splits: in these splits and in no other.
SetExampleSplits(e, S) ==
  /\ Alone /\ examples[e] # None /\ S \subseteq splits
  /\ inSplit' = {p \in inSplit : p[2] # e} \cup (S \X {e})
  /\ UNCHANGED <<lock, datasets, versions, examples, revisions, splits, experiments,
                 session, operations>>

\* delete_dataset_splits: all or, when one is missing, none.
DeleteSplits(S) ==
  /\ Alone /\ S # {} /\ S \subseteq splits
  /\ splits' = splits \ S
  /\ inSplit' = {p \in inSplit : p[1] \notin S}
  /\ experiments' = [x \in Experiments |->
       IF experiments[x] = None THEN None ELSE [experiments[x] EXCEPT !.splits = @ \ S]]
  /\ UNCHANGED <<lock, datasets, versions, examples, revisions, session, operations>>

-----------------------------------------------------------------------------
(* Experiments *)

\* Fault: the rank is taken over all revisions, not those up to the version.
SnapshotOfNow(d, v, S) ==
  {r \in RevisionsAt(d, MaxVersion) : S = {} \/ \E s \in S : <<s, r.example>> \in inSplit}

\* insert_experiment_with_examples_snapshot: what the dataset holds at version v,
\* whosever it is; with splits, what is in one of them.
Snapshot(d, v, S) ==
  {r \in RevisionsAt(d, v) : S = {} \/ \E s \in S : <<s, r.example>> \in inSplit}

\* POST /datasets/{id}/experiments: the newest version, or one that was asked for,
\* which is only looked up by its id.
CreateExperiment(x, d, v, S) ==
  /\ Alone /\ experiments[x] = None
  /\ d \in datasets /\ S \subseteq splits /\ versions[v] # None
  /\ experiments' = [experiments EXCEPT ![x] =
       [dataset |-> d, version |-> v, splits |-> S, all |-> S = {},
        snapshot |-> Snapshot(d, v, S)]]
  /\ UNCHANGED <<lock, datasets, versions, examples, revisions, splits, inSplit,
                 session, operations>>

DeleteExperiment(x) ==
  /\ Alone /\ experiments[x] # None
  /\ experiments' = [experiments EXCEPT ![x] = None]
  /\ UNCHANGED <<lock, datasets, versions, examples, revisions, splits, inSplit,
                 session, operations>>

Next ==
  \/ \E c \in Clients, d \in Names : BeginAdd(c, d)
  \/ \E c \in Clients, E \in SUBSET ExampleIds : BeginPatch(c, E) \/ BeginDelete(c, E)
  \/ \E c \in Sessions : TakeVersion(c) \/ Commit(c) \/ Rollback(c)
  \/ \E u \in Uploads : Upload(u) \/ \E c \in Clients : SyncUpload(c, u)
  \/ RunOperation \/ DropOperation
  \/ \E d \in Names : CreateDataset(d) \/ DeleteDataset(d)
  \/ \E s \in Splits, E \in SUBSET ExampleIds : CreateSplit(s, E)
  \/ \E e \in ExampleIds, S \in SUBSET Splits : SetExampleSplits(e, S)
  \/ \E S \in SUBSET Splits : DeleteSplits(S)
  \/ \E x \in Experiments :
       \/ \E d \in Names, v \in VersionIds, S \in SUBSET Splits : CreateExperiment(x, d, v, S)
       \/ DeleteExperiment(x)

Spec == Init /\ [][Next]_vars

-----------------------------------------------------------------------------
(* Properties *)

\* The rows fit together: an experiment's, an example's and a version's dataset is
\* stored, a revision's example and version are of one dataset, and no example
\* has two revisions in a version.
RowsFit ==
  /\ lock \in BOOLEAN
  /\ datasets \subseteq Names /\ revisions \subseteq Revisions
  /\ session \in [Sessions -> Transactions \cup {None}]
  /\ \A v \in VersionIds : versions[v] \in datasets \cup {None}
  /\ \A e \in ExampleIds : examples[e] \in datasets \cup {None}
  /\ inSplit \subseteq splits \X {e \in ExampleIds : examples[e] # None}
  /\ \A x \in Experiments : experiments[x] # None =>
       /\ experiments[x].dataset \in datasets /\ versions[experiments[x].version] # None
       /\ experiments[x].splits \subseteq splits
       /\ experiments[x].snapshot \subseteq revisions
  /\ \A r \in revisions :
       examples[r.example] # None /\ examples[r.example] = versions[r.version]
  /\ \A r, q \in revisions : r.example = q.example /\ r.version = q.version => r = q

\* While sessions take turns, what a version holds never changes as long as it is
\* there, whoever reads it and whatever is added, changed and deleted later.
VersionFixed ==
  [][lock => \A d \in Names, v \in VersionIds :
       versions[v] = d /\ versions'[v] = d =>
         ExamplesAt(d, v)' = ExamplesAt(d, v) /\ RevisionsAt(d, v)' = RevisionsAt(d, v)]_vars

\* While sessions take turns, the three ways to read a dataset agree: by the highest
\* revision id, by the newest version, and by counting creations and deletions; an
\* example that was deleted is not there in any later version.
ReadersAgree ==
  lock => \A d \in datasets :
    /\ \A v \in VersionsOf(d) : ExamplesAt(d, v) = RevisionsAt(d, v)
    /\ ExampleCount(d) = Cardinality(ExamplesAt(d, MaxVersion))
    /\ \A r, q \in revisions :
         r.example = q.example /\ r.kind = "DELETE" => q.version <= r.version

\* While sessions take turns, the examples of an experiment are to the end those of
\* its dataset at its version, or a part of them when it was made for splits, also
\* when the version is one of another dataset.
SnapshotHolds ==
  lock => \A x \in Experiments : experiments[x] # None =>
    LET then == RevisionsAt(experiments[x].dataset, experiments[x].version) IN
    IF experiments[x].all THEN experiments[x].snapshot = then
                          ELSE experiments[x].snapshot \subseteq then
=============================================================================
