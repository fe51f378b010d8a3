# Anvesha: a TLA+ verification project

Anvesha collects OpenTelemetry traces of LLM applications, stores them and shows
them. This directory models the parts of it in which the order of events
matters, checks the models with TLC on small instances, and proves with TLAPS,
for instances of every size, what matters most about ingest, the trace tables,
the bulk inserter, annotation queues, datasets, experiments, the playground's
subscription and the caches.
File and line references are to the repository; `PROJECT.json` maps each
definition to the lines it models.

## 1. The system

The repository holds four programs that talk over OTLP and HTTP.

| Part | State it keeps | Operations | Talks to |
|---|---|---|---|
| `src/anvesha-server` (FastAPI, SQLAlchemy) | one SQLite file with projects, sessions, traces, spans | `POST /v1/traces`; `GET` projects, traces, one trace, one span | OTLP exporters; the frontend |
| `src/anvesha-frontend` (`app.js`) | one `state` object and the rendered page | open project, open trace, back, refresh, connect, search; the answers of fetches | anvesha-server |
| `src/anvesha-otel` | none: it configures the OpenTelemetry SDK | `register` | the server, through the SDK |
| `src/extracted-core` | a copy of Arize Phoenix's server: ingest queues, a large schema, caches, REST and GraphQL | OTLP ingest over HTTP and gRPC, annotations, deletions and transfers, listings, versioned datasets, experiments, a playground that runs prompts over datasets, users | exporters, UI, client libraries, model providers |

`extracted-core` was copied "for tracing-only implementation"
(`README-EXTRACTION.txt`), and much of it twice (`phoenix/db/X` is
`phoenix/db/db/X`; `server/api/routers/v1` is `server/api/api/routers/v1`);
the models cite one of the two. Some modules that it imports are not in the
repository: the daemons (DML event handler, token store, retention, span cost
calculator), middleware and rate limiters.

### Components, what is hard about them, what makes them correct

**Ingest of anvesha-server** (`api/traces.py`, `services/insert_span.py`,
`db/engine.py`). Every request has a database session of its own over one SQLite
file. A handler reads rows with no transaction open, takes the file's only write
lock at its first INSERT or UPDATE, keeps it until the commit at the end of the
batch, and writes back rows it read before it had the lock. A unique key that
another handler took meanwhile raises IntegrityError inside a savepoint, or just
before it, when `begin_nested` flushes. Correct means: an answer 200 says that
all of the batch is stored; any other answer says that none of it is; a
concurrent reader never sees a part; rows refer to rows; a stale write never
makes a value up.

**Frontend** (`app.js`). Handlers await fetches and then write into shared state;
nothing ties an answer to the selection it was for, and nobody catches what
fails in a click handler. Correct means: a settled page shows what is selected,
every chain of fetches ends, no page lacks the project it is about.

**Trace tables of extracted-core** (`db/insertion/span.py`, `delete_span`, the
trace, project and session mutations and endpoints). Spans arrive in any order,
each adds its counts to its ancestors and widens its trace and session;
deletions cascade through foreign keys; traces move between projects. Correct
means: counts add up, intervals cover what they contain, no trace is without
spans, an operation removes what it names and nothing else, and what changes is
announced to the caches.

**Bulk inserter** (`db/bulk_inserter.py`). Handlers append spans and evaluations to
lists: `addTraces` after a test of the queue's length, its 200 and a decoding that
may fail, `createSpans` without any test. One task moves them to the database in
bounded rounds, while savepoints and commits fail and the server stops. Correct
means: no span that was enqueued is lost or inserted twice, `addTraces` overshoots
its limit by no more than its concurrent requests, an evaluation does not overtake
its span, what is enqueued is decided eventually.

**Annotation queues** (`db/insertion/types.py` and the four inserters).
Annotations may come before their span and are retried from timers, while
others are written directly, with a time stamp that the database gives them. Correct
means: the queue overwrites only rows with an older stamp, no annotation is given up
for a missing span before its allowance is used, each is settled.

**Listings with cursors** (REST listings, `Project.py`'s root spans). A client
walks pages while rows come, go and move. Correct means: what kept its place is
shown once, in order.

**Datasets** (`dataset_mutations.py`, `dataset_split_mutations.py`,
`db/insertion/dataset.py`, `helpers/dataset_helpers.py`,
`db/helpers.py`). A dataset's versions are not copies: a version holds, for each
example, the last revision up to it. A change looks at the rows, takes a version
id, writes revisions and commits; readers find "the last revision" in different
ways, by id or by version, and count by creations less deletions. Experiments
store the revisions they start from. Correct means: rows fit together, what a
version holds never changes, all readers agree about it, a snapshot is and stays
what its dataset had.

**Experiment runs** (`routers/v1/experiment_runs.py`,
`experiment_evaluations.py`, `experiments.py`, `db/helpers.py`). Clients ask what
is incomplete, page by page, and post runs, retries and evaluations at the same
time as others. Correct means: a successful run stands, an evaluation is of the
output that is stored, the list holds exactly what is missing or failed, a walk
over its pages misses nothing.

**Playground subscription** (`server/api/subscriptions.py`). One coroutine
drives many async generators, a few at a time, each step in a task inside a task
that watches the time; a step may save a run; the client may leave at any moment.
Correct means: it comes to an end unless chunks keep coming, it has told its client
something final of each stream, what it told is what is stored, and what it
leaves behind has stopped.

**Caches and events** (`server/types.py`, `dml_event.py`, the two-tier caches of
the dataloaders). A change of the tables is announced by an event; a
`BatchedCaller` sleeps, hands its batch to the handler that invalidates caches,
and clears the batch after that await. Correct means: an answer that no longer
fits the database is one that an event announces, and caches catch up. The code falls
short of this where events are missing, name another row or are cleared unread; what
is checked is that it does so nowhere else.

Other components, and why they are not modelled, are in `PROJECT.json`
("components", status `not_modelled`) and in section 7.

## 2. Modules

| Module | Models | Checked by |
|---|---|---|
| `SpanStore` | abstract: a batch is stored whole or not at all, at one instant between request and answer | refined by `AnveshaIngest` |
| `AnveshaIngest` | `post_traces`, `insert_span`, `get_trace` over SQLite, with clients, lock timeouts and crashes | `MCAnveshaIngest` |
| `IngestRace` | `AnveshaIngest` with a history of whether handlers ran one at a time | `MCIngestRace` |
| `AnveshaIngest_proofs` | theorems about both | TLAPS |
| `AnveshaFrontend` | `app.js` | `MCAnveshaFrontend` |
| `AnveshaFrontend_proofs` | theorems about it | TLAPS |
| `TraceStore` | the trace tables of extracted-core and all operations that write them | `MCTraceStore` |
| `TraceStore_proofs` | lemmas about sums and chains of ancestors; theorems about `TraceStore` | TLAPS |
| `BulkInserter` | span and evaluation queues and the inserting task | `MCBulkInserter` |
| `BulkInserter_proofs` | theorems about it | TLAPS |
| `AnnotationTable` | abstract: what is sent replaces only rows with an older stamp, and whatever is not stored has a reason | refined by `AnnotationQueue` |
| `AnnotationQueue` | `QueueInserter` with `_partition`, postponement and timers | `MCAnnotationQueue` |
| `AnnotationQueue_proofs` | theorems about it | TLAPS |
| `Paging` | the three forms of listing with a cursor | `MCPaging` |
| `Datasets` | versions, examples, revisions, splits, uploads, snapshots | `MCDatasets` |
| `Datasets_proofs` | theorems about it | TLAPS |
| `Experiments` | runs and evaluations of one experiment | `MCExperiments` |
| `Playground` | the subscription, together with `Experiments`, which it extends: the streams and the REST clients write the same runs | `MCPlayground` |
| `Playground_proofs` | theorems about both | TLAPS |
| `Caches` | events, `BatchedCaller`, a two-tier cache, and the sessions that change what is cached | `MCCaches` |
| `Readers_proofs` | theorems about what readers are told: about it and about `Paging` | TLAPS |

`IngestRace` adds to `AnveshaIngest` a history variable, `overlapped`, that says
whether two handlers were ever in flight together.

Operators whose comment starts with "Fault:" are broken variants of the
definition that follows them. No specification uses them; they are substituted
one at a time to show that the property named with them in `PROJECT.json`
("mutants") notices.

### How the models correspond to the code

*AnveshaIngest.* `db` is the committed file, `work` the image of the handler
that holds the write lock (`writer`). Each statement of `insert_span` that
reads or writes the database is an action (`FindSpan`, `FindTrace`,
`FindProject`, `NewProject`, `NewTrace`, `FindSession`, `NewSession`,
`AddSpan`), and `pc` says which comes next. `mem` is the ORM session: a row as
loaded and as changed, because an UPDATE writes the columns that differ from the
row as loaded and leaves the others, which another handler may have changed.
`FindSession` first flushes the widened trace row (autoflush). Where a unique key
is taken, both outcomes are modelled: the savepoint catches the error and the
handler goes on with the other's row, or the error escapes and the answer is 500.
`End` rolls back, as leaving `async with SessionLocal()` does. `Crash` loses
every open transaction; `LockTimeout` is the driver's "database is locked".
`ReadTrace` and `ReadSpans` are the two SELECTs of `get_trace`, each on what is
committed at that moment.

*AnveshaFrontend.* One action for what a handler does up to its next await
(`OpenProject`, `OpenTrace`, `Refresh`, `Connect`, `Search`, `Back`) and one for
each kind of answer (`ArriveProjects`, `ArriveTraces`, `ArriveTrace`, `Fail`). A
list of traces is represented by the project it is of.

*TraceStore.* With SQLite, every transaction takes one asyncio lock
(`server/app.py:615`), so each operation is one action. `InsertSpan` is the
whole of `insert_span`; the recursive query over ancestors is a least fixpoint.
One counter stands for the three that a span accumulates. `event` holds the
projects named by the DML event of the last operation.

*BulkInserter.* `pc` follows `_bulk_insert` from await to await: `Grab` counts,
`InsertSpan` pops and inserts within a savepoint, `CommitSpans`, then the same
for evaluations, then the annotation queues, which here only succeed or end the
task. `Accept` is the capacity test with the answer 200, `Enqueue` the background
work after it, which decodes one span and enqueues it, or ends with an exception and
loses that span and the rest of its request (`lost`). `CreateSpans` appends a whole
request at once, however long the queue is; which spans `createSpans` refuses before
that is left out.

*AnnotationQueue.* An annotation is in one place: unsent, queued, in hand, in a
timer, lost with a failed transaction, or settled. `Settle` is `_partition` with
`_insert`: what is not newer than the stored row, or older than another of its key, is
superseded, what has no span is postponed or given up, what fails to insert is
postponed with a whole new allowance, as the rewrapping in `types.py:159` has it.
`Misplaced` is what only document annotations have: a position that their span does
not have, for which they are rejected at once. `DirectWrite` is `annotate_spans` with
`sync=true`. It sends no `updated_at` (`helpers.py:92-101`), so the row's stamp is the
database's: in whole seconds on SQLite, the transaction's start on PostgreSQL. The
model gives it any stamp. `RowDeleted` and `SpanDeleted` take rows away.

*Paging.* The order of a listing is by rank: `InOrder(S)` has at place `n` the row
that `n - 1` of `S` come before. `RestPage` answers a REST listing; `RootPage` and `MoreRoots` are the
GraphQL answer put together from several queries; `Insert`, `Delete` and `Update`
are what happens to rows between any two of them.

*Datasets.* `session` holds the open transaction of each client and of the bulk
inserter. `BeginAdd`, `BeginPatch`, `BeginDelete` and `StartUpload` are what a
handler looks up before it writes; additions and deletions insert their version at
once, a patch later (`TakeVersion`); `Commit` inserts the revisions. `lock` says
whether sessions take turns, as SQLite's asyncio lock has them
(`server/app.py:615`), or interleave, as PostgreSQL's do; it is chosen in `Init`
and stays. Ids are one more than the largest stored, so that ids of deleted rows
come back, as with SQLite. `LastById` and `LastByVersion` are the two queries
for "the last revision". `operations` are uploads answered and not yet run.

*Experiments.* `BeginPost` and `CommitPost` are the two statements of a post: look
for a successful run, then insert or overwrite. `Judge` takes a run from the list of
incomplete evaluations, `PostEval` posts what came of it. `NextPage` is a page of
incomplete runs, its cursor the first example of the next. An output is
named by the number of the post that brought it, so that "the output that was
evaluated" can be told from a later one.

*Playground.* A stream's generator is at one of five places, `busy` while an inner
task runs it; `outer` is what the outer task came back with. `Start` and `Harvest`
are the two halves of the loop: fill the free places from the end of
`notStarted`, then pass on what has come and ask again. The steps of a stream are
what its generator does between awaits that matter (`Chunk`, `AnswerEnds`,
`AnswerFails`, `EvaluatorTells`, `Save`, `SaveFails`, `NothingToSave`, `GeneratorEnds`). A model may send any number of chunks
(`Chunk`), and an evaluator any number of failures or evaluations (`EvaluatorTells`);
the time is taken anew for each. `TimeOut` may
catch a commit that goes through all the same. `Close` is the clean-up when the
client leaves: it cancels outer tasks, and inner ones go on. `Others` are REST
clients, with the actions of `Experiments`.

*Caches.* What a project holds is the number of its changes. A session goes from
`open` to `committed` to `idle`; the event follows it, or, for `deleteTraces`, comes
between (`told`). `batch` are the events to be read, `late` those put after `Call`
has read the batch and before `Clear` clears it, which are lost. `Load` puts a future into the
cache and `Read` answers it in a session of its own. Two history variables name the
projects with a change that no later event tells of, until they are read anew: `untold`
those that their session's event did not name, because the code has no event for it or
names another row, `lost` those whose event was cleared unread. The
handler itself is not in the repository and modelled from its use in `app.py`.

## 3. Runs

| Run | Question | Instance |
|---|---|---|
| `IngestFaults` | Is 200 stored, all else not, and no part ever read? Does the server implement `SpanStore`? | a batch of two, its retry at the same time, a batch whose last span does not decode, a malformed request; a reader; a crash at any point |
| `IngestRace` | What do stale rows do, is every request answered, and what holds as long as no two handlers overlap? | three batches on one trace, each sent up to twice, spans nested in time so that each pair widens it differently, two projects, two session ids, a crash |
| `Frontend` | Does every chain of fetches end, does no page lack its project, and does a user who waits for each answer see what is selected? | two handlers at once, two unequal backends, failing fetches, eight clicks |
| `StoreFamily` | Do counts, intervals and references survive every sequence of operations? | two projects, two sessions, a trace of four spans with a chain and a branch, a trace of two whose spans bring different sessions |
| `Pages` | Does a walk show all that kept its place, once, in order? | up to four rows and a fifth, two start times, pages of two, two changes, both directions |
| `BulkQueues` | Is each span in one place, does `addTraces` keep its bound, is all decided that decoding reaches? | two requests of two spans at once, one of which does not decode, one `createSpans` of one span, two evaluations, rounds of two, queue limit one, all faults |
| `Annotations` | Is none given up early, does each settle? Does the queue implement `AnnotationTable`, whatever stamps rows have that are written past it? | three annotations under two keys, one of which has no document, two spans, allowance two, one failing insert, a failing transaction, direct writes of any stamp |
| `DatasetVersions` | Do rows fit, do readers agree, do versions and snapshots hold? | two datasets, a split, an experiment, a client and the bulk inserter, with and without turns; three versions, two examples, three revisions |
| `ExperimentRuns` | Do successes stand, do evaluations fit, what exactly does the list hold, does a walk miss nothing? | three examples of two repetitions, posts for the middle one, also with a repetition number that is too high, two clients, with and without turns, pages of one |
| `PlaygroundStream` | Does the subscription end unless chunks keep coming, and is what it told what is stored? | three streams of any number of chunks, two at a time, a REST client that posts one run or deletes the experiment, a client that leaves |
| `PlaygroundClose` | (violation) Does the clean-up release every generator? | the same |
| `CachesCatchUp` | For which reasons, and no others, is an answer stale, and do caches catch up? | two projects, two traces one of which has a project's row id, two changes of each project |

### Bounds, and why they are enough

* *AnveshaIngest:* three handlers are what it takes for one to commit between
  the read and the write of two others that already conflict; more repeat the
  pairwise conflicts. `MaxSends`, `MaxCrashes` and `MaxInFlight` bound resends,
  crashes and concurrency. In `IngestFaults` the retry is a request with the
  same batch, so that it overlaps the first copy; in `IngestRace` requests are
  sent again after they failed or their answer was lost. The theorems do not
  depend on any of these values.
* *AnveshaFrontend:* `MaxClicks` bounds the user. Eight clicks reach every pair of
  views with a connect and a refresh between; two tasks are enough for every
  order of two answers.
* *TraceStore:* no counter is bounded and the state space is finite: a span id
  that was deleted may be sent again for ever. Six spans give a chain of three,
  a second child, and two traces in one session. The theorems hold of every family.
* *BulkInserter:* spans and evaluations are sent once. Two handlers pass the
  capacity test before either enqueues, and `createSpans` comes at any moment, so that
  up to three spans wait at a limit of one, and a round takes two (`MaxOps`): one span
  may lie beyond the cut, with or without its evaluation in the round. In one of the
  requests the first span does not decode, so the second is lost with it.
* *AnnotationQueue:* `MaxClock` bounds time stamps, and with them enqueues,
  direct writes and deletions of spans; three are enough for an annotation, one
  that overtakes it, and the loss of a span. `MaxFailures` bounds the inserts
  that fail, without which nothing need ever settle (section 5).
* *Paging:* four rows make a second page with a border on each side; `MaxRowChanges`
  lets one row go and another come between two pages. `MaxShown` cuts a walk by
  start time that goes in circles (section 5); the other listings never reach it,
  or the run would report a deadlock.
* *Datasets:* three versions and three revisions let an example be made, changed
  and deleted, or made again under an id that has come back. `MaxQueue` is one: an upload
  that waits while its name is taken.
* *Experiments:* three examples and pages of one give a first, a middle and a last
  page. The middle example gets the runs, so that it may leave the list, complete or
  hidden, while the cursor names it. `MaxOutputs` bounds posts: four are both
  repetitions, a retry, and one beyond.
* *Playground:* chunks are not bounded: a stream that has answered once may answer
  again from the same state. One stream more than may run at once is what makes the loop
  refill a place; `MaxPosted` lets a REST client take one slot, before or after the
  stream does.
* *Caches:* `MaxChanges` lets a project change once more after its event was read.

`DatasetVersions`, `ExperimentRuns`, `PlaygroundStream`, `PlaygroundClose` and
`CachesCatchUp` do not check for deadlock, because their bounds bring the model to a
stop where the program would go on, and a subscription that has ended stops.

### Fairness

* `AnveshaIngest!FairSpec`, and `RaceSpec` with the history: weak fairness of each handler's steps. A handler is a
  coroutine that the event loop resumes when its database call returns. Nothing
  is assumed of clients, crashes or `LockTimeout`: a handler that waits for the
  lock is served because its holder goes on to its commit, and as many can go
  ahead of it as there are requests.
* `AnveshaFrontend!FairSpec`: every fetch is answered or fails, as the browser
  ensures.
* `BulkInserter!FairSpec`: the task and the background work after each answer go
  on. `EverythingDecided` excepts an ending of the task: the server stopped, or an exception
  left an annotation queue. It is about the spans that are or will be enqueued (`Coming`).
* `AnnotationQueue!FairSpec`: the task's loop and the timers go on; spans and
  other annotations need never come.
* `Playground!PgFairSpec`: the event loop runs the subscription and the timers
  (`Start`, `Harvest`, `Finish`, `TimeOut`), and its client reads what it is sent.
  Nothing is asked of the model, the database or other clients: a step of a stream may
  hang for ever, and `SubscriptionEnds` rests on the timer alone. The timer is that of
  one step, so the property excepts executions in which chunks come again and again.
* `Caches!FairSpec`: an open session comes to its end and the handler's loop goes
  on. `CachesCatchUp` excepts a handler that died of an exception, and the projects in
  `lost` and `untold`.

`Quiet`, `Still`, `Rest` and `Over` are self-loops of states where there is
nothing left to do, so that TLC reports every other standstill as a deadlock.

## 4. What is proved

TLAPS proves 34 theorems, for every value of the constants: any number of
requests, spans, traces, sessions, examples, clients, and any bounds.

**Ingest** (`AnveshaIngest_proofs`). The assumptions are
those of the module: spans are records of the declared type, the pair
of trace and span id identifies a span, batches are sequences of spans, and the
special values are distinct.

* `TypeCorrect`: `Spec => []TypeOK`. `TypeOK` alone is not inductive: a handler
  applies `WriteTrace` to the row that is in the file *now*, and that has a type
  only if there is still a row. The invariant `TInv` adds `Grows` (the image that
  the lock holder writes has every row that is committed) and `RowsInHand` (the
  rows that a handler has read are in what it sees). `StepKeeps` has a step for
  each action of a handler.
* `AckedAlwaysStored`: `Spec => []AckedIsStored`. The invariant `SInv` adds
  `OwnWork` (what is uncommitted is of the lock holder's batch) and `Passed` (the
  spans before the one a handler is at are in what it sees). The lemma
  `StepKinds` reduces a handler's twelve actions to five kinds of step, so that
  the argument about spans is made once for each kind.
* `AlwaysWholeBatches`: `Spec => []WholeBatches`. Only commits write the file
  (`OnlyCommitsWrite`), and a commit adds exactly its batch
  (`CommitStoresBatch`).
* `IngestImplementsStore`: `Spec => StoreSpec`. Under the mapping `stored <-
  db.spans` and `status <- AbstractStatus`, each commit is `SpanStore`'s
  `Accept`; every other step is one of its other actions or a stutter
  (`StepRefines`).
* `BoundsAlwaysReal`, `ReferencesAlwaysHold`: `Spec => []BoundsAreReal` and
  `Spec => []ReferencesHold`, from `RInv`. What is committed was uncommitted work
  before, so the invariant states the two of the holder's image as well: `Refers`
  of both images, and `AllReal` with the spans that a handler sees *and the one in
  hand* (`Seen`), since the bounds of the row are widened before the span is there.
  `InHandFits` says the same of the row that a handler has read and of the one
  that it will write, and that it writes the project that the trace is in: a
  stale row may narrow bounds, but never to times that no span has.
* `NothingEverForgotten`: `Spec => NothingForgotten`. `RInv` has `Keeps(db, work)`
  (the holder's image has all that is committed), and only commits write the file.
* `ReadsAlwaysWhole`: `Spec => []ReadsAreWhole`. `ReadInv` says of a reader between
  its two transactions that its trace is still there, hence has a span
  (`AllReal`); the spans it reads are a union of whole batches (`WholeBatches`) cut
  down to that trace.
* `SerialRowsAlwaysCover`: `RaceSpec => []SerialRowsCover`. While no two handlers
  have overlapped, `SerialInv` says that at most one is in flight, that the file
  covers its spans (`Covering`) and that what the handler has in hand is what the
  tables hold now (`UpToDate`): the look-up that the lock comes too late for is
  harmless when nobody else writes. So its UPDATEs write the row it widened
  (`WriteFreshTrace`), and the span it adds is covered by it (`AddedSpan`). That
  "not more than one" is a cardinality needs the handlers in flight to be finitely many,
  which the invariant has, since a step brings at most one more.

**Frontend** (`AnveshaFrontend_proofs`). The assumptions are those of the module:
each trace has a project, and `null` is no name, trace or fetch.

* `PageAlwaysHasProject`: `Spec => []PageHasProject`. The invariant `PageInv` has the
  kinds of what the fetches under way are for (`FetchesFit`), and demands a selected
  project not only of a page but of everything that may still bring one up
  (`NeedsProject`): a selected trace, which a refresh opens again, and an awaited
  list or trace, which may answer after other handlers have moved on. It is
  kept in any order of answers, failures included.
* `SettledAlwaysShowsSelection`: `Spec => []SettledShowsSelection`. While the history
  is `smooth` at most one handler waits (`OneLoads`), and `ListFits` and `TraceFits`
  say what is true *during* its wait: a list on its way is the selected project's and
  no trace is selected (which is why a refresh does not open a stale trace after
  it), a trace on its way belongs to the selected project, and what is not on
  its way is already shown.

**Trace tables** (`TraceStore_proofs`). `StoreTypes`,
`StoreCountsAddUp`, `StoreTracesHoldSpans`, and of every step
`StoreSparesOthers` and `StoreChangesAnnounced`. All follow from one inductive
invariant, `Inv`:

* `TypeOK` with its references, and `TracesHoldSpans`, stand by themselves once
  cascades are understood: a trace goes with its last span, a session takes its
  traces.
* `AddsUp` generalises `CountsAddUp` from the stored table to a table given as an
  argument, so that it can be stated of the tables between two steps of an
  operation.
* `FromPayload` says that a stored span has the trace and the parent it was
  sent with. Without it a stored parent might be in another trace than the payload
  says, and the walk up the ancestors would not be the one that the insertion took.

The argument about counts: `FamilyAssumption` gives spans unique ids and parents
without a cycle (a rank that falls from child to parent). The query for ancestors is
the least set that holds the parent and with a span its parent; the lemmas before
`Inv` show that it is the span's chain, that it is finite and that
of the children of any span at most one is on it (`KidsOnTheWay`). So adding a count to
all of the chain adds it once on each side of every equation (`CountsMoveUp`).
Sums are folds over finite sets. That a fold does not depend on the order, and moves by
what is added, would need an induction whose predicate is an argument; it is
proved instead from a least set for which it fails, which is first-order.

**Bulk inserter** (`BulkInserter_proofs`). `BulkSpansAccounted`, `BulkQueueBounded`,
`BulkEvalsFindSpans`, from `BulkInv`, for any `MaxOps` and limits:

* `QueueFits` (the queue is the end of what arrived) turns the task's pops into a
  boundary, `Taken`, that moves along `arrived`; `SentOnce` (no span is twice in
  what arrived or what handlers still hold) and `Placed` (the spans before the boundary are
  exactly those in the open transaction, stored or failed, which are disjoint) then
  give the sum of `SpansAccounted`, since an injective sequence has as many members
  as places (`CountOfFirst`).
* `QueueBounded` is about the spans of `addTraces`, the only endpoint that tests the
  limit: those in the queue (`Guarded`, by place) and those that handlers have still to
  enqueue (`Pending`), since a handler that passes the test adds to these and not yet to
  the queue. With `ShortBatches`, `PendingBound` shows that what is pending is at most
  `LongestBatch` for each handler, and a handler passes only when the whole queue is
  below the limit; `CreateSpans` adds places that are not counted. The queue as a whole
  has no bound.
* `RoundFits`: of the evaluations that are early, those counted for this round
  have their spans in this round's part of the queue while spans are inserted, and stored or failed
  after; the others are reached by the next round. The counting of both buffers
  at one moment, with no await between (`Grab`), is what makes it inductive.

**Annotation queues** (`AnnotationQueue_proofs`). `AnnotationGetsItsTime`
and `AnnotationsImplementTable`, from `QueueInv`: the type, `TriesFit` (the rounds that
an annotation has had and those it is still allowed add up to at least its allowance, and
what was given up has used all of it) and `ClockFits` (no stamp of an annotation is ahead
of the clock, and received and updated stamps agree). Nothing is said of the stamps
of rows that were written directly, and nothing need be: `Settle` compares with the stored
row in the same transaction. It does not follow that the last request wins: "older"
is by stamp, and a direct write has the stamp of another clock.

The refinement maps `outcome` to `place`, where the queue, the hand and the timers are
all "pending". A round is one `Decide` of any number of annotations, or a stutter if all
wait on; `Take` and `Fire` are stutters. A direct write or deletion is a
`Write` of any stamp. The step that needs an argument is an
annotation that is superseded (`SettleDecides`): it was old, and what is stored is still at
least as new by its stamp after the round, or `dedup` found one received later
(`LatestIsThere`), which is stored, or fails to insert and is then still pending.

**Datasets** (`Datasets_proofs`). `DatasetRowsFit`, `DatasetVersionsFixed`,
`DatasetReadersAgree`, `DatasetSnapshotsHold`, from `DatasetInv`:

* With or without turns: `Types`, `RowsFit` itself, `SessionsFit` (a version
  that a transaction has taken is not stored and of no other transaction, and the
  examples it will change are there), `SnapshotsFit` and `CreatedOnce` (every
  example has exactly one creation).
* With turns only: `OneOpen` (the open transaction's version is above every stored
  one), `InOrder` (among an example's revisions ids follow versions, and a deletion is the
  last) and `ChangesLiving` (what a transaction will change has not been deleted).
  Without them an old version could get a revision late, which is what PostgreSQL
  allows (section 5).
* A version is fixed because a commit writes revisions only of its own version, which is above all
  stored ones (`NewestIsGreatest`: ids come from the largest stored, so a deleted
  id comes back only when nothing stored refers to it). The count of creations less deletions equals the
  examples alive because each has one creation and at most one deletion.

**Experiments** (`Playground_proofs`). `ExperimentListIsExact`,
`ExperimentEvaluations`, `ExperimentWalk`, `ExperimentSuccessStands`, from `ExpInv`:
the type, `TurnsHold` (where sessions take turns at most one client has an open post,
and its run has not succeeded), `JudgesFit` (an evaluation in
the making is of a stored success and its output), the property about
evaluations, and `WalkFits` (what is in the list and before the cursor has been seen).
`ListIsExact` needs the type only and is about one example at a time, so that successes
with repetition numbers beyond the experiment's, which the endpoint accepts, are counted
and not excluded: `ListIsUnhidden` says that the list has all that an example misses, or
nothing of it once such successes make up for what is missing (`Hidden`). Only the comparison with the
counts of `GET /experiments/{id}` (`CountsAgree`) supposes that there are none.
`ListShrinks`: a run that is in the list after a post was in it before, whatever the
post's number.

**Playground** (`Playground_proofs`). `PlaygroundEndTellsAll` and
`PlaygroundSparesSuccess`, from `PgInv`: the type, `RunsFit` (posts take turns and are of the experiment's slots), `StreamsFit` (while the
subscription is open a task waits exactly for the streams that run, and what a stream
does next fits what has been told of it), `ResultsFit` (a result that was told is
stored while the experiment is, and if it is no success a failure was told too)
and `EndFits`.

**Listings** (`Readers_proofs`). `ListingShownInOrder` and `ListingNothingSkipped`,
from `WalkInv`, for any limits, number of rows and of changes:

* `InOrderLists`: the rows in order are each listed once and in order. `Before`
  counts what is ahead of a row; it grows along the order and is below the number of
  rows, so it is injective, and onto because the sets are of one size. What a
  query cuts off (`FirstOfInOrder`) is what is not ahead of the next row.
* `Fits` says of the edges shown and those of the answer in the making that what kept its
  place among them is in order, and is exactly what the cursor has passed (`Passed`):
  neither property is inductive without it. It is about what kept its place only,
  so what comes, goes or moves does not disturb it (`InsertKeeps`, `DeleteKeeps`,
  `UpdateKeeps`); of what is inserted the history does not ask to be shown.
* For a page by id the cursor is the first row of the next page, for one by place the last
  that was read or, in an answer that is full, shown (`Reaches`): `RootsFit` and
  `AnswersKeep` are about each query of an answer put together from several.
* Where the order is by time and the cursor by id, all is under `CursorFits`
  (section 5), and `PlaceById` shows that the two orders are then the same.

**Caches** (`Readers_proofs`). `CacheTold`: an outdated answer is announced, or was told of
in vain, or is untold. It is a theorem about the reasons for which answers go stale, not
that they do not. From `CacheInv`: the type, `WriterFits` (an early event names all
that its session changes), `EarlyIsTold` (once an open session has told of a project, no
answer is cached for it but one that has a reason of its own already: nobody reads before
the session ends) and `StaleFits`, which is `StaleIsTold` with
the parts that a step moves a project between (`Accounted`) taken together.

Only model-checked: all liveness, since fairness and
`ENABLED` are out of the prover's reach. What a recursive definition computes for every
input is out of reach as well; the modules with theorems have none.

## 5. What the code does otherwise than it says

Checked by a run that TLC must find violated:

* `PlaygroundClose`: when the client leaves, the clean-up cancels the outer tasks and
  closes the generators. The docstring says that awaiting the tasks first lets them
  "release their generators" (`subscriptions.py:241-242`), but `_wait_for` awaits an
  inner task with `asyncio.wait`, which does not cancel it (`:799`): the inner task
  goes on, and `aclose()` fails because the generator is running.

Met while modelling; the models have these behaviours and properties are stated
so as to leave them out, each at a hazard in `PROJECT.json`:

* `insert_span.py:82-84` of anvesha-server raises an error so that a trace never has
  spans of two sessions, but tests a row read before the handler has the write lock: two
  overlapping exports both pass. `SerialRowsCover` holds it of handlers that do not
  overlap.
* Of two overlapping handlers that widen a row the later UPDATE may win with the
  smaller bound (`insert_span.py`), so that covering, too, is stated while none
  has overlapped. Nothing in the repository claims otherwise.
* `app.js:495` stores whatever list of traces arrives. When two projects are
  opened quickly and the answers are reordered, one project's traces stand under
  the other's name, though the frontend's README (line 9) promises the traces
  "for a selected project".
* `list_project_traces` (`traces.py:186-194`) orders by start time or latency and
  compares its cursor by id: a walk skips traces whose ids are not in the order
  of their times, and can go in circles. `CursorFits` names when it works.
* `clearProject` takes an end time, "right-open" (`ClearProjectInput.py:14`), and
  deletes all the sessions of the traces that started before it; the cascade
  deletes their newer traces too (`project_mutations.py:96`).
* A trace moved by `transferTracesToProject` stays in its old session, and goes
  with it when the old project is deleted (`trace_mutations.py:115`).
* `delete_span` puts the row id of a trace into an event whose ids are those of
  projects (`spans.py:1409-1410`, `dml_event.py:41`); a transfer and the REST deletion of a
  project put none (`trace_mutations.py:112`); `deleteTraces` puts its event before the
  transaction commits (`trace_mutations.py:73`), harmless where sessions take turns.
* `delete_span` does not subtract from ancestors in other traces when the
  deletion leaves its trace empty (`spans.py:1387` against `1308-1309`).
  `FamilyAssumption` keeps parents in their child's trace.
* The comment at `bulk_inserter.py:170-174` says that grabbing both buffers at once
  makes evaluations find their spans. Each is cut at `max_ops_per_transaction` on its
  own, and an evaluation of a span beyond the cut is lost. `EvalsFindSpans` is about
  the evaluations that come when the next round reaches their span (`early`).
* An annotation that shares a round with a newer one of its key is dropped before the
  newer one is inserted (`span_annotation.py:127`): if that fails and is then given up
  or lost, neither is stored. `AnnotationTable`'s `GivesWay` says so.
* `annotate_spans` with `sync=true` stamps no row: `as_kv` leaves out `updated_at`
  (`helpers.py:92-101`), and the default is the database's clock, in whole seconds with
  SQLite, that of the transaction's start with PostgreSQL. An annotation queued before
  such a write may therefore replace it, and one queued after it be superseded by it.
  The properties are about stamps, not about the order of requests.
* `is_full` guards `addTraces` and the gRPC server only: `createSpans` appends to the same
  list without a test (`spans.py:1144`, `1283-1284`). `QueueBounded` counts the spans of
  `addTraces`.
* `decode_otlp_span` runs in the background, after the 200 (`traces.py:412`): if it
  raises, its span and those after it in the request are lost and nobody is told.
  `EverythingDecided` is about the spans that decoding reaches.
* The 90 seconds of the playground are those of one step (`subscriptions.py:777-786`), and a
  stream yields as many chunks as the model sends (`:655-675`): one that never stops
  sending holds the subscription open. `SubscriptionEnds` excepts it.
* An annotation that fails to insert gets its whole allowance again
  (`types.py:159`), so one that always fails is retried for ever.
* An exception in an annotation queue ends the ingest task; requests are still
  answered 200 until the queue is full. A shutdown drops what is queued.
* A `BatchedCaller` clears its batch after it has awaited the handler
  (`server/types.py:123`): an event put in between is lost. A handler that raises ends
  the loop (`:121`).
* Of experiments: a repetition number beyond the experiment's is accepted and counted as
  a success, and as many of these as an example misses hide all that it misses
  (`db/helpers.py:566`), as `ListIsExact` says; with PostgreSQL a retry that
  found no success may overwrite one that was committed meanwhile
  (`experiment_runs.py:113`).
* Of datasets, with PostgreSQL: versions and revisions of concurrent changes may get ids
  in different orders, and readers then disagree (`dataset_mutations.py:450`). With either, an
  upload that was accepted is dropped when its name is taken before it runs.

## 6. Order of work, and what is left

The modules were written in the order of section 2, since everything stands on
ingest. What would add most next:

1. PostgreSQL for the trace tables: two `insert_span` transactions, or one with
   `delete_span`, interleaved at their statements. `TraceStore` assumes turns.
2. Which spans `createSpans` refuses: its look-up of duplicates, in the request and in
   the database, before it enqueues.

## 7. Not modelled

The map covers a few percent of the repository's lines. The rest is for the greater part
code in which no order of events matters: table definitions, configuration,
GraphQL types, dataloaders, model clients and conversions, much of it there
twice. By component:

* Decoding, flattening of attributes, formats of ids and times: pure conversions.
  `AnveshaIngest` takes their outcome, decoded or not, as an input.
* Filters of the listings and of the frontend's trace table; the rendering of
  spans; offset cursors, which promise nothing when rows move.
* Span costs and descriptive columns; labels, notes and renaming of datasets,
  experiments and projects: rows of their own, written by single statements.
* GraphQL types and dataloaders: read-only queries. The cache behind one of them
  stands for all in `Caches`; they differ in their keys.
* The event handler, token store and retention daemons, middleware and rate
  limiters: not in the repository. With the token store goes most of what
  bearer authentication and OAuth2 would have to be checked against.
* Model clients, prompts, templates and evaluators: adapters to providers. `Playground`
  takes what they do as chunks, an end, an error or nothing at all.
* `chat_completion`, the subscription without a dataset, has the loop and the
  clean-up of `Playground` and saves traces only.
* The trace DSL compiles expressions to SQL, and migrations run once at start.
* The gRPC server decodes and enqueues as the HTTP endpoint does, before its answer and
  not after it.
* `anvesha-otel` and `phoenix-otel` configure a library and keep no state.
