# dbgraph: TLA+ models of the relation store

dbgraph keeps a graph of the relations between database columns. Some are declared by
the databases (foreign keys), some are found in application code by agents and reviewed
by people. One server process owns a SQLite database; agents reach it over MCP, people
over a web console, and a background worker scans MySQL schemas. This directory holds
the specifications of that system, the TLC runs that check them, and the TLAPS proofs
about them. Paths below are relative to the repository.

## The system

| Component | State it keeps | Operations | Interacts with |
|---|---|---|---|
| Relation lifecycle (`internal/relations`, `internal/platform/sqlite/relation_repository.go`) | `relations`, `relation_versions`, `relation_current`, `relation_events`, `effective_edges`, suppression rules | propose, revise, propose a tombstone or a stale candidate, review, suppress, restore | reads column status from the catalog; every write goes through the write queue; identifiers from the allocator |
| Declared foreign keys (`declared_fk_repository.go`) | `declared_foreign_key_relations`, the scan facts | insert, reactivate, remove, refresh, all inside a publication | writes the lifecycle's tables without review |
| Catalog (`internal/catalog`, `catalog_repository.go`) | data sources, nodes, node versions, `node_current`, scan runs, search index | begin, fail and publish a scan, update and delete a data source, search | called by the scan runner; calls the reconciliation of foreign keys |
| Write queue (`store.go`, `write_queue.go`) | a bounded channel, its slots, the closed flag | write, close | one worker goroutine runs every write transaction of the process |
| ID allocation (`internal/id`, `id_state_repository.go`) | the persisted high-water mark, a lease in memory | next, ensure, reserve | reserves through the write queue, and is called from inside write transactions |
| Relation initialization (`internal/reconcile`, `reconcile_repository.go`, `reconcile_completion_repository.go`) | sessions, batches, items, deferred candidates | begin, submit a batch, list unresolved, complete | proposes through the relation lifecycle |
| Schema scan jobs (`internal/jobs`, `job_repository.go`, `internal/ingestion/mysql/runner.go`) | `jobs`, a wake channel | start, claim, run, finish, recover | runs scans that publish into the catalog |
| Source bindings (`internal/sourcebinding`, `source_binding_repository.go`) | repositories and their identities, append-only binding revisions with members | backfill, register, resolve, replace | the registry of data sources |
| MySQL metadata reader (`internal/ingestion/mysql`) | none | full and incremental scans of `information_schema` | its snapshots are what the catalog publishes |
| Sessions and limits (`internal/auth`, `mcpapi/rate_limit.go`) | sessions in memory, request windows | create, look up, expire, allow | every transport |
| Graph traversal (`internal/graph`, `graph_repository.go`) | none | bounded paths between columns | reads `effective_edges` |
| Conditions (`internal/conditions`) | none | validate, evaluate in three-valued logic | attached to revisions, evaluated while a path is built |
| Server lifecycle, backup (`cmd/dbgraph`, `backup.go`) | goroutines, listeners | ordered start and shutdown, online backup | everything |
| Audit log, secrets, configuration, transports, web console | append-only rows, parsed input | | around the above |

### What is hard, and what makes each component correct

* **Relations.** A proposal is built from a read outside the write transaction, so
  anything may commit before it does; suppression and restoration keep the revision
  number, so the optimistic revision check does not tell them apart; approvals rewrite
  three tables; scans change the relations of foreign keys between a reviewer's
  commands. Correct means: only an approval changes the effective graph, an approval
  publishes the change it names, `effective_edges` is exactly the approved relations,
  and the append-only events determine the projection.
* **Foreign keys.** A relation in an unexpected state fails the whole publication, and
  every later one, of a data source. Correct means this cannot happen.
* **Write queue.** Cancellation while the write runs leaves its outcome unknown to the
  caller; close races with queued writes. Correct means: every accepted write is answered
  once, the queue never blocks its mutex, close ends.
* **ID allocation.** Clocks go backward, leases die with the process, a lease may run out
  inside the only writer. Correct means: identifiers never repeat, and the writer never
  waits for itself.
* **Initialization.** Lost answers and repeated batches, and candidates that go stale
  while a session waits. Correct means: completion is all or nothing, a repeated batch
  changes nothing, the effective graph is never touched.
* **Jobs.** Crash while running, transactions that commit after the worker stopped
  waiting, retried finishes, lost signals. Correct means: one scan at a time, at most one
  terminal state per job and one that tells whether the snapshot was published, every
  claimed job ends or is given back at the next start.
* **Catalog.** A scan reads the registry, begins, reads the source and publishes in
  transactions of its own; the source is altered, renamed, rotated or deleted between any
  two of them; an incremental scan replaces a part of the catalog. Correct means: the
  catalog and its index say what the last scan that looked at a node saw, nothing is left
  of a deleted source, and what was read can be published.
* **Bindings.** A replacement is sent on what a resolution of three queries found, may
  arrive late, twice or never, and the tables it relies on are filled in batches that a
  crash cuts off. Correct means: no update is lost, no request acts twice, and a workspace
  that two repositories claim is bound by neither.
* **Traversal.** Two algorithms for one question, five limits that may each cut something
  off, and edges that change between two levels. Correct means: a result is complete or
  says it is truncated, and lists nothing that was not there.
* **Conditions.** Three-valued logic with missing references. Correct means: what is
  decided with less context is decided in the same way with more.
* **Sessions, shutdown.** Caps and expiry; ordered shutdown within timeouts.

## Modules

| Module | What it is |
|---|---|
| `RelationLifecycle` | the tables of the relation store and one action per write transaction, with declared foreign keys and the part of publication they depend on; the properties; the inductive invariant `IInv` |
| `ReviewedGraph` | what the store promises without its tables: published, hidden and pending content per relation |
| `RelationLifecycleRefinement` | the mapping from the tables to `ReviewedGraph` |
| `RelationLifecycleProofs` | the TLAPS proofs about `RelationLifecycle` and its refinement |
| `WriteQueue` | `Store.write`, the worker goroutine, its drain and `Close`, one action per step that another goroutine can see |
| `WriteQueueProofs` | the proofs about it |
| `IdAllocator` | leases of identifiers over the persisted mark, for callers and for the publication of a snapshot, with a worker that may be one of its own clients |
| `IdAllocatorProofs` | the proofs about it |
| `SchemaScanJobs` | the queue of scan jobs, the worker that claims, scans, publishes and finishes, its shutdown, and restarts of the process |
| `SchemaScanJobsProofs` | the proofs about it |
| `RelationInit` | initialization sessions, their batches and completions, composed with `RelationLifecycle` |
| `RelationInitProofs` | the proofs about it, over those about the lifecycle |
| `MetadataReader` | what a scan reads of a database, and which snapshots are valid: operators without state |
| `Catalog` | the registry of data sources, scan runs, nodes and the search index, over `MetadataReader` |
| `CatalogProofs` | the proofs about both |
| `SourceBinding` | repositories, their identities and the bindings of workspaces, composed with `Catalog` |
| `SourceBindingProofs` | the proofs about it, over those about the catalog |
| `Conditions` | conditions as records, their validity and their evaluation, in recursive functions on expressions |
| `GraphTrace` | trace and impact in both implementations, over effective edges that change, with the conditions of their edges |
| `TracedRelations` | the relation store and the traces that read it, composed |
| `GraphTraceProofs` | the proofs about these three, over those about the lifecycle |
| `MCRelationLifecycle`, `MCWriteQueue`, `MCIdAllocator`, `MCSchemaScanJobs`, `MCRelationInit`, `MCCatalog`, `MCSourceBinding`, `MCGraphTrace`, `MCTracedRelations` | the instances TLC checks |

Four compositions are modules: `RelationInit` extends the relation lifecycle, so that
completions meet reviews and scans of the same relations; `SourceBinding` extends
`Catalog`, so that replacements meet deletions of the data sources they name; `GraphTrace`
extends `Conditions` and evaluates those of each edge (`ConditionsOf`); and
`TracedRelations` extends the lifecycle and `GraphTrace`, so that reviews and scans commit
between the queries of a trace.

The others stand on each other by argument. The models take a write transaction as one
step because of what `WriteQueue` shows. `IdAllocator` takes the queue as first in, first
out, with a bound, refusals and answers that nobody waits for, which is what `WriteQueue`
models in detail. `SchemaScanJobs` takes from it that transactions run one at a time, that
a caller whose context ends does not know whether its transaction commits, and that one
that has not begun by then will not. `Catalog` takes from `SchemaScanJobs` that one scan
runs at a time. `columns` of `RelationLifecycle` are the active columns of `Catalog`. That
`effective` of `GraphTrace` is the `edge` of `RelationLifecycle` with endpoints needs no
argument: `TracedRelations` says it and `StoreImplementsGraphTrace` proves it.

Some definitions are followed or preceded by a second form marked "mutated form": a
plausible bug of the same code. Nothing uses them; they are there so that each property
can be seen to fail when the code is wrong in that way (`mutants` in `PROJECT.json`).

### `RelationLifecycle` and the code

| TLA+ | Code |
|---|---|
| `versions[r][n]` | the row of `relation_versions` with revision number `n`; the kind is the one read back, so a stale candidate, stored as a tombstone, is told apart again |
| `current[r]` | `relation_current`, with revision numbers in place of version ids and 0 for NULL; `latest = 0` means no row |
| `edge[r]` | the revision whose row `effective_edges` holds, 0 if none |
| `events[r]` | the rows of `relation_events` in order; a request stands for the actor, origin and request id of `UNIQUE (actor, origin, request_id, event_type)` |
| `columns` | the column nodes whose current version is ACTIVE |
| `keyPresent` | `is_present` of `declared_foreign_key_relations` |
| `prepared` | the records that `Commands.ProposeRevision` and `prepareInvalidation` have built from a read and not yet handed to their write transaction |
| `ProposeCreate` | `RelationRepository.ProposeCreate`; nothing it reads outside the transaction matters to it |
| `PrepareRevision`, `PrepareInvalidation`, `CommitProposal`, `DropProposal` | the read and the write of `ProposeRevision`, `ProposeTombstone` and the stale candidates |
| `Reject`, `Approve` | `RelationRepository.Review` |
| `Suppress`, `Restore` | `changeState` in its two directions |
| `PublishSnapshot` | `CatalogRepository.publishSnapshot` with `reconcileDeclaredForeignKeys` |

A write transaction is one action because `Store.write` runs them one at a time and a
failure rolls back: a transaction that returns an error is a disabled action. A read,
such as `Commands.Get`, is one SQLite snapshot. The order of foreign keys inside a
publication does not matter because each touches rows of its own.

Data is abstracted to what the properties tell apart. A content is the set of columns a
revision refers to, which is what `verifyRelationNodes` looks at; the expression, the
conditions, the evidence and the reason of a revision do not influence any transition. A relation proposed from code
is identified by its fingerprint, so each has one first content. A stale candidate is
proposed by the same principal as a tombstone; in the code it is committed by the
completion of an initialization session, which rolls back as a whole: `RelationLifecycle`
allows it alone, which is more behaviour, not less, and `RelationInit` has the completion.

### `WriteQueue` and the code

| TLA+ | Code |
|---|---|
| `caller[c]`, `answer[c]` | where goroutine `c` is in `Store.write`, and what it returned: nil, the error of the transaction, `ErrStoreClosed`, `ErrWriteQueueFull`, or the error of its context (`Unknown`: the write may still commit) |
| `result[c]` | the buffered channel in the request |
| `queue`, `slots`, `mutex`, `closed` | `writeQueue`, the number of tokens in `writeSlots`, `writeMu`, the flag `closed` with the closed channel `writeStop` |
| `worker`, `current` | where `runWriteWorker` is, and the request it has received |
| `TakeSlot`, `Send`, `RefuseClosed`, `RefuseFull` | the part of `write` under the mutex |
| `ReceiveResult`, `GiveUp`, `Cancel` | the select on the result and on the context, which may end at any time |
| `ReceiveWrite`, `Commit`, `RollBack`, `ReleaseSlot` | one round of the worker; `ReceiveWrite` includes the check of the context in `executeWrite` |
| `SeeStop`, `RejectQueued`, `FinishDrain` | `rejectQueuedWrites` |
| `StopWorker`, `CloseStore` | `Store.Close` |

Each caller writes once; a goroutine that writes again is another caller. The
transaction is a commit or a rollback: what it does is the subject of the other modules.

### `IdAllocator` and the code

| TLA+ | Code |
|---|---|
| `highWater` | `high_water_id` in `id_generator_states`, `NoMark` without a row |
| `nextID`, `remaining`, `mutex` | the fields of `PersistentAllocator`; the mutex is held while a reservation is waited for |
| `granted` | what the holder of the mutex has been told by `ReserveIDRange` |
| `queue` | the requests in the write queue that are reservations or the publication; the answer of a request with `by = None` is read by nobody |
| `worker`, `taken` | the worker inside `publishSnapshot`, and how often it has called `Next` there |
| `publisher`, `stopping` | the goroutine in `PublishSnapshot`, and the end of its context |
| `NextFromLease`, `NextReserves`, `NextGranted`, `NextRefused`, `NextGivesUp` | `PersistentAllocator.Next` of a command |
| `EnsureKeepsLease`, `EnsureReserves`, `EnsureGranted`, `EnsureFails`, `Submit` | `CatalogRepository.PublishSnapshot` |
| `GrantReservation`, `RefuseReservation`, `FirstFree`, `Mark`, `InRange` | the transaction of `ReserveIDRange` and `id.ReserveRange` |
| `BeginPublication`, `TransactionLocks`, `TransactionTakes`, `TransactionReserves`, `TransactionEnds`, `TransactionGivesUp` | `publishSnapshot` as far as it allocates |
| `Crash` | the end of the process and `NewPersistentAllocator` in the next |

An identifier is 41 bits of milliseconds, 10 of node and 12 of sequence. The process has
one node, number 1 (`cmd/dbgraph/main.go`), so identifiers are positive and the model
numbers them in their order: `PerMillisecond` stands for the 4096 sequence numbers, and
`LastIdentifier` for the last that has a timestamp. A reservation reads any clock: a clock
before the epoch or after the last millisecond makes it fail, as `RefuseReservation` does.
`EnsuredSize` stands for `maximumIDs` of a publication. `Larger` and `ReservationSize` are
`max(count, leaseSize)`.

Two facts about the program are part of the model. Only the goroutine of the schema scan
jobs publishes, so there is one publisher; with two, the `Ensure` of one could hold the
mutex behind the transaction of the other, which waits for the mutex. And its context ends
only when the process shuts down, so a publication that waits for itself would do so until
then.

### `SchemaScanJobs` and the code

| TLA+ | Code |
|---|---|
| `jobs[j]` | the row of `jobs`: status, revision, creation time; `Absent` without a row |
| `running`, `failed`, `published` | the rows of `schema_scan_runs` by status, named by the claim they were made for, which is a job and its revision |
| `unsignalled`, `wake` | creators between the commit of `CreateSchemaScanJob` and `signal`, and the wake channel of capacity 1 |
| `worker`, `claim`, `completion` | where the goroutine of `SchemaScanCoordinator.Run` is; the job it has claimed; the status it finishes it with |
| `begun`, `late` | whether the transaction the worker waits for has begun; the transaction it no longer waits for, if one is still under way |
| `stopping`, `restarts` | the end of the worker's context; how often the process started again |
| `Create`, `Signal`, `CreatorLeaves` | `SchemaScanCoordinator.Start`, whose caller may be gone when the job is committed |
| `Recover`, `Claim`, `FindNothing`, `Begin`, `Publish`, `Record`, `Finish`, `LateFails` | the write transactions, at the moment they end |
| `RunFails`, `ScanEnds`, `PublicationFails`, `RecordFails` | the error paths of `Runner.run` and `failSchemaScan` |
| `GivesUp`, `WorkerFails`, `WakesUp`, `StopsWaiting` | the context of a write, an error, the select of `Run` |
| `Stop`, `Restart` | the `cancel` of `runServeLifecycle`; the end of the process at any moment, and the next one |

There is one process, because `Store.Open` takes the writer lock, and one worker. A full
write queue is a write not yet begun where the code tries again (recovery, claim, finish),
and a failure where it does not (`Begin`, `Publish`, `Record`). `failSchemaScan` and the
finish of a cancelled job have contexts of their own, of a second, so they may be given up
at any time and may go on during shutdown (`OwnContext`). Payloads are valid: `Start`
wrote them. What a publication writes is left to the catalog; here it ends the scan run.
The claim takes the first job in the order of the text of `created_at`; `Stamps` are such
texts in their order, and two jobs may have the same.

A job that was cancelled may have published: its worker stopped waiting for the answer.
That is why `FailedNotPublished` speaks of failed jobs alone.

### `RelationInit` and the code

| TLA+ | Code |
|---|---|
| `session[s]` | the row of `relation_init_sessions`: the request that began it, repository, mode, scope and status |
| `batches[s]`, `seen[s]`, `deferred[s]` | the rows of `relation_init_batches`, `relation_init_seen_relations` and `relation_init_reproposal_candidates` of the session |
| `origins[r]`, `unresolved[p]` | the repository of the row of `relation_origins`; the open rows of `unresolved_findings` |
| `completions` | the calls of `Service.Complete` between their first read and their transaction |
| `told`, `invalidated` | what callers were answered, and what completions proposed: history for the properties |
| `Begin`, `SubmitBatch`, `RepeatBatch` | `BeginSession`, and `SubmitBatch` in its two outcomes |
| `StartCompletion`, `ListOmitted`, `PrepareStale`, `Complete`, `AbandonCompletion` | `CheckCompletion`, `ListOmittedRelations`, `prepareInvalidation`, the transaction of `CompleteSession`, and every way a completion ends without it |

A batch is one transaction. A completion is not: it counts, lists and prepares by reads of
their own, and reviewers, scans and batches of any session may commit between them. A
digest is modelled as equality of what it covers. A proposal stands for its fingerprint,
so it names the relation it would create. A relation of a batch that exists is answered
and, if it can be proposed again, kept as a candidate until completion (`Reproposal`).
Nothing of a session is in the effective graph until a review, which is the lifecycle's.

### `MetadataReader`, `Catalog` and the code

| TLA+ | Code |
|---|---|
| `design` | the source databases: base tables, views, columns and foreign keys, as `information_schema` lists them |
| `StableKeys`, `Kind`, `Parent` | the stable keys and parents that `scanner.go` builds |
| `ReadSnapshot`, `Scan`, `ScanTables` | full and incremental scans; `ExpandedTables` adds the tables that the foreign keys of a scope refer to |
| `WithinBudget`, `ValidSnapshot` | the limits of the reader, and `validateSnapshot` |
| `dataSources[s]`, `deleted` | the rows of `data_sources`; the ids that are gone |
| `nodes[s][key]`, `search[s]` | `nodes` with the version that `node_current` names; the rows of the search index |
| `scanRuns`, `scan` | `schema_scan_runs`; how far `Runner.run` is |
| `changes` | an administrator between the read and the write of a change |
| `lastSet`, `looks` | history for the properties: the credential last given, the publications |
| `CreateDataSource`, `ReadDataSource`, `UpdateDataSource`, `RefuseUpdate`, `DeleteDataSource` | the handlers of the registry; an update reads the row, and later writes the name, and the connection string if it has one |
| `StartScan`, `BeginSchemaScan`, `ReadSource`, `ReadFails`, `Publish`, `PublicationFails`, `FailSchemaScan`, `Restart` | the steps of a scan, each a transaction or a query, and the recovery of the next start |
| `AlterSource` | the owner of the source database, at any moment |

The reader's transaction is REPEATABLE READ, so a snapshot is of one design; it may be
published long after. `Definitions` stand for data types, comments and indexes, which are
the words the search index holds and the version a node has. A table whose name contains a
dot is `DottedUnder` another: `withinTableScope` compares names by prefix, and with such
tables `CatalogTellsSource` is violated. The instances have none; the hazard is listed at
its line (`catalog_repository.go:891`).

### `SourceBinding` and the code

| TLA+ | Code |
|---|---|
| `repositories`, `identities` | `repositories` and `repository_identities` |
| `backfill`, `open` | `repository_identity_backfill_state`; whether `Store.Open` has returned |
| `revisions[b]` | the rows of `source_binding_revisions` with their members, for a repository and a context |
| `referenced` (of `Catalog`) | the data sources that members refer to, which `DeleteDataSource` respects |
| `resolving` | callers between the queries of `ResolveWorkspace` |
| `sent`, `answers` | replacements on their way, any number of times, and what their senders were told |
| `BackfillBatch`, `OpenStore`, `CloseStore` | the backfill in batches by id, and the end of the process between any two |
| `CreateCodeRepository` | the registration of a repository with its identity |
| `FindRepository`, `ReadCurrent`, `ReadMembers`, `Forget` | `ResolveWorkspace`, one query each |
| `SendReplacement`, `ReplaceBinding`, `RepeatReplacement` | a call of `ReplaceBindingSet`, its transaction, and its answer when the request was carried out before |

The canonical form of a remote is the constant `RemoteOf`: two repositories may have the
same one, and one may have none. `basis` in a command is what its sender had resolved; the
code does not see it, the properties do.

### `GraphTrace`, `Conditions` and the code

| TLA+ | Code |
|---|---|
| `effective` | `effective_edges` |
| `phase`, `request` | where the call of `Trace` is, and its request with its limits |
| `pending`, `cut`, `depth` | the level of the breadth-first search that is being expanded |
| `walk`, `snapshot`, `keys` | the rows of the recursive query, the edges it sees, `seenStateKeys` of its callback |
| `states`, `visited`, `spent`, `result` | the paths that may go on, the nodes, what is used of each limit, the result |
| `always`, `ever` | history for the properties: the edges effective throughout, and at some time |
| `ConditionsOf`, `Evaluation` | guard, selector and transform of the revision of each edge; what they yield in each context |
| `PublishEdge`, `RemoveEdge`, `ReconcileEdges` | what a transaction of the store may do to `effective_edges`: an approval or restoration, a suppression or tombstone, and a scan, which changes the edges of several declared foreign keys at once |
| `Trace` | validation and the choice between the two ways: no context takes the recursive query |
| `LoadEdges`, `LoadNothing`, `ExpandEdge`, `NextLevel` | the breadth-first search, with a query per level |
| `LoadRecursiveEdges`, `WalkRow`, `WalkEnds` | the recursive query and the callback that receives its rows |
| `Consider` and its disjuncts | what both do with one edge: pass over it, leave it out, stop at a limit, extend |
| `Valid`, `EvaluateBoolean`, `EvaluateValue`, `Evaluate`, `EvaluateEdge` | `internal/conditions`, and the three expressions of an edge |

The order in which the edges of a level come is left open. Loaded edges and steps of the
result count one each, where the code counts rows, steps and bytes: each is a budget that
ends the trace when it is used up. The checks of the callback (`Fail`) never fail, which
is what `RowsAccepted` says.

A value is a type and a place in the order of that type. `Conditions` evaluates as the code
does, with the references that are missing beside the truth, which is where the third
divergence below comes from. What recurs over an expression is a function on the
expressions the constants give, which are finite trees and may be nested to any depth;
`ResultsIn` is the table of the results of all of them that are not nested deeper than
validation allows. An edge is only stored with valid conditions (`validateAndCopyContent`),
which is part of `GraphAssumption`.

### `TracedRelations` and the code

| TLA+ | Code |
|---|---|
| `EdgeAt(r, n, content)`, `PublishedEdges` | the row of `effective_edges` for a revision; the rows of the table |
| `Number`, `Endpoints` | `relation_id`; source and target of a revision |
| `Transact` | any transaction of `RelationLifecycle`, with what it leaves in `effective_edges` |
| `BeginTrace`, `QueryEdges`, `SearchOn` | the steps of a trace, which write nothing |
| `moments` | history for the properties: how long the log of each relation was when the trace began, at its recursive query, and at the last transaction while it was under way |
| `InForce(log, k)` | the revision that the first `k` events put in force, replayed as in `HistoryDeterminesProjection` |

## Runs

| Run | Instance | What it shows |
|---|---|---|
| `RelationReview` | one relation and one foreign key, two agent requests and one administrator request, 3 revisions, 2 prepared proposals | two proposals in flight with revisions, reviews, suppressions and scans between: a pending withdrawal describes what is in force, graph, projection and events agree, no command rewrites history, no sequence of commands makes a scan fail, and the tables implement `ReviewedGraph` |
| `WriteQueue` | three callers, capacity 1, fairness | two places and three writes: every interleaving of sends, answers, cancellations, refusals, the drain and close; nobody is told something untrue, every accepted write is answered, and close ends |
| `IdAllocator` | two callers and the publisher, leases of 2, 3 ensured, 2 taken, 4 milliseconds of 2 identifiers, 3 outstanding writes, fairness | identifiers increase, their mark is on disk, the publication finds its lease unless callers took more than the slack, the worker does not wait for itself, the mutex is released |
| `SchemaScan` | two jobs, two creation times, a queue of 2, one restart, fairness | one job runs at a time, its finish meets its own claim, its status tells whether it published, it ends, and once; the worker stops when its context ends |
| `RelationInit` | two relations, a full session and one of the scope of the first, three initializers' requests, one reviewer, one batch of at most 2 items per session, one completion under way that may propose one candidate, 2 revisions | a repeated batch is a no-op, completion is all or nothing, invalidates only what was omitted and within its budget, and nothing changes before it |
| `Catalog` | one source, two administrators, two credentials for two databases, three scans and publications, two designs, full scans and scans of either table | the catalog and its index say what scans saw, nothing outlives its source, no rename undoes a rotation |
| `SourceBinding` | four repositories, three of them from before identities, batches of 2, two remotes of which one is shared, one context, two agents, three requests and replacements, one crash | an open store finds every repository, no update is lost, no request acts twice, no ambiguous repository is bound |
| `GraphTrace` | four nodes, four relations with two versions each, six contexts, ten settings of the limits, two changes of the graph | completeness or `truncated`, soundness, agreement of query and callback, refinement by context |
| `TracedRelations` | a relation from code and two foreign keys, one agent and one administrator request, 2 revisions, one prepared proposal, a trace with and one without a context, two changes of the graph | the transactions of the store change the edges as `GraphTrace` allows; a trace lists only what the logs had in force while it ran, and all that they had in force throughout |
| `SchemaScanVisibility`, `CatalogViews`, `ConditionsNull` | one job; one scan of a database with a view; contexts with null | violations, see below |

The bounds of the relation runs are `MaxRevisions` (guards stop a relation there), `MaxPrepared`, and the
number of requests: each request is used once per event type, so the requests bound the
number of commands. Three revisions are enough for a revision to replace one that
replaced another and to be superseded in turn; two prepared proposals are enough for one
to overtake the other. Relations do not interact except through request identifiers and
scans, so one relation beside one foreign key shows every interleaving of one relation's
rows. Requests of one role are interchangeable, so `RelationReview` uses them as symmetry
sets; an administrator may do what a reviewer may, so it needs no reviewer. No code
schedules a review, so nothing there must eventually happen, and no fairness is assumed.
Deadlock is checked: a scan can always publish.

`WriteQueue` has more callers than places (`Capacity + 1 = 2`), so that the queue is full, a
refused caller exists, and a third write is accepted after the first has given its slot
back. Deadlock is not checked, because the system really stops: each caller writes once,
and after close and the last return nothing is left to do. That nobody is left waiting is
what `CallsEnd` (`AcceptedWritesAnswered` and `CloseEnds`) and `NothingLeftAtClose` say
instead.

In the run of the allocator there are eight identifiers in all, so that leases run out,
the last identifier is reached, a range that would go beyond it is refused, and a
reservation follows one made with a later clock. A lease (2) is smaller than what is
ensured (3), as in the code (1024 against at least 420 000), and the slack is 1, so that
callers can stay within it and can exceed it. Nothing else bounds the behaviour: the
identifiers do. A crash is always possible, so deadlock is checked and never found; it is
`AllocationsEnd` (`WriterFreed` and `MutexReleased`) that says nobody waits for ever.

`SchemaScan` has two jobs that follow each other or wait together. One restart lets a job
be claimed in two processes. Each job is claimed at most once per process. That a job beyond
the bound of the queue is refused is not reached with two jobs; `QueueBounded` is proved
for every bound instead. Deadlock is not checked: a process that has stopped and is not
started again is an end the system may come to.

In `RelationInit` each relation may be in a batch, be omitted, be deferred, or be moved by
the reviewer or the other session while a completion is under way; a budget of one is met
by one candidate and passed by two. Three requests let two sessions be begun and a third
agent try them. In `Catalog` three publications are what a node needs to be seen, to become
stale and to be seen again, under any order of scopes; two administrators are needed for
one change to overtake another. A source may be created without a connection string, and
`Environment` is none, so that such a source cannot be scanned. In `SourceBinding` the three old repositories need
two batches of two, the second not full, and the crash may come between them or after;
there are no scans, because bindings refer to sources and not to their nodes. Two
replacements of one binding race for one revision and the third repeats either. The graph
of `GraphTrace` has a cycle, two ways to one node, and versions of each relation that lead
elsewhere. Downstream every limit is met by the query and by the breadth-first search, with
and without a target; upstream every context is tried without limits, since the two
directions differ in which end of an edge they read and in nothing else. In
`TracedRelations` there are two foreign keys because one scan may change both, and a
relation that is revised so that its edge starts elsewhere: with two changes an edge may be
published and removed, or replaced, between two levels. In these five deadlock is off: requests, runs, replacements and changes are
bounded and come to an end.

### Fairness

* `WriteQueue`: weak fairness of the worker (a goroutine that is always ready to run, with
  transactions that end), of `CloseStore` once `Close` has begun, and, for each caller, of
  the send under the mutex and of receiving an answer that is there. Nobody has to write,
  to cancel or to close. Go's select between a request and the stop signal is a free
  choice.
* `IdAllocator`: weak fairness of the worker, and of goroutines that have the answer they
  wait for. Nobody has to allocate, to give up or to stop, and a crash excuses nothing,
  because it resets what the properties wait for.
* `SchemaScanJobs`: weak fairness of the beginning and of the end of transactions (the
  write worker runs, and the store is not busy for ever), of the end of a scan (the
  connection has connect, read and write timeouts), of the worker's wake-up by its ticker, and of noticing that a context has
  ended. Nobody has to create a job, to signal or to stop. `JobsEnd` asks nothing of a
  worker that has stopped: an error other than a busy store ends it, and
  `runServeLifecycle` then ends the process.
* The other modules have none, and no liveness: agents and people call when they like, and
  nothing in the code retries a batch, a completion or a replacement for them. That a scan
  ends is the subject of `SchemaScanJobs`.

### A failed attempt that is not visible

`README.md` says that failed attempts "remain visible as failed `schema_scan_runs` and
jobs". `SchemaScanVisibility` shows a job that is FAILED and whose scan run is RUNNING:
`failSchemaScan` has one try of one second, and the write queue may be full or the
transaction rolled back, while the finish of the job is tried until it succeeds. The scan
run is ended by the recovery of the next start.

### A database with a view

`README.md` says that full scans "import the database/schema/table/column inventory".
`CatalogViews` shows a snapshot that cannot be published: the tables are read with
`TABLE_TYPE = 'BASE TABLE'`, the columns of the whole schema without such a condition, so
the columns of a view have a parent that is no node, which `validateSnapshot` refuses. The
full scan of such a database always fails. An incremental scan that names base tables is
not affected.

### An UNKNOWN that is lost

`README.md` says that traversal evaluates conditions "with TRUE/FALSE/UNKNOWN results".
`ConditionsNull` shows a step reported as TRUE whose guard is a conjunction with a member
that is UNKNOWN. A comparison with null is UNKNOWN without a reference that is missing, and
`and`, `or` and the combination of an edge's expressions ask whether something is missing
(`len(missing) > 0`) instead of whether a member is UNKNOWN. `MCTruth` is the reference the
run compares with; it differs from the code in those connectives alone.

### What a publication needs

`WriterFindsLease` is conditional, because the code is. `Ensure` gives the mutex back
before the publication is queued, and the lease it ensured is open to every caller until
the transaction has what it needs. What is left for them is the difference between
`maximumIDs` and what the publication really takes. `maximumIDs` counts two identifiers
for each node of the snapshot and four for each of its foreign keys, and adds the maximum
number of nodes and four times the maximum number of foreign keys for whatever goes stale.
A publication that takes less than its maximum leaves a slack of up to 420 000, which
callers would have to use up within one publication. The condition is not checked
anywhere in the code: a data source grown by partial scans to more nodes than one snapshot
may have could make more of them stale in one publication than are provided for, and then
the transaction would wait for itself until shutdown.

## Proofs

### Relations

`RelationLifecycleProofs` proves, for all sets of relations, columns, contents and
requests and all bounds that satisfy the named assumptions (`RelationsAssumption`,
`BoundAssumption`, `NoneAssumption`):

| Theorem | Statement |
|---|---|
| `InvariantHolds` | `Spec => []IInv` |
| `TypeCorrect` | `Spec => []TypeOK` |
| `ProjectionAlwaysWellFormed` | `Spec => []ProjectionWellFormed` |
| `TraversalReadsApproved` | `Spec => []EffectiveIffApproved` |
| `InvalidationsAreFresh` | `Spec => []InvalidationDescribesActive` |
| `ScansAlwaysReconcile` | `Spec => []ScanNeverRejected` |
| `StoreImplementsReviewedGraph` | `Spec => ImplementsReviewedGraph` |
| `HistoryReplays` | `Spec => []HistoryDeterminesProjection` |
| `HistoryIsAppendOnly` | `Spec => HistoryNeverRewritten` |

None of these is inductive alone. `IInv` adds: revision numbers have no gaps
(`RowsUpToLatest`), which is why the next number is free; a relation without rows is
empty (`AbsentIsEmpty`); a foreign key is never pending, its active revision is its
latest, and it is approved or tombstoned as its mapping says unless suppressed
(`KeysFollowMapping`), which is why no scan is rejected; and a proposal in flight whose
revision check will still succeed describes what is still active
(`PreparedStillDescribesActive`), which holds because every change of the active revision
needs a pending one, and every pending one took a revision number.

The proof treats one relation at a time. `RelationOK` is the invariant as a predicate of
one relation's rows, projection and edge, and one lemma per way of rewriting them
(`FirstRevisionOK`, `ProposedOK`, `RejectedOK`, `ApprovedOK`, `StateChangedOK`,
`ScannedOK`) shows that it is preserved; `OneRelationStep` lifts such a rewriting to
`IInv`, and each action cites the lemma for its case. `PublishSnapshot`, which rewrites
many relations, is proved on its own.

The refinement is proved over `IInv`. The initial tables map to an empty graph, and each
action maps to the step of `ReviewedGraph` it stands for, relation by relation: the lemmas
that say what an action leaves in the tables of one relation are used again to say what it
does to the published, hidden and pending content of that relation and that it does nothing
to the others. Steps of the code that a reader of the graph cannot see (a read, a dropped
proposal, a scan that changes nothing) map to stuttering.

`HistoryDeterminesProjection` is not inductive either. `HistoryOK` says it of the log of one
relation and adds that the last event of each of the three sets of types a replay looks for
exists, that every decided revision was handed out and is no longer pending, and that the
active revision is one of those decided. Each action appends one or two events
(`AppendReplay`), and what they replay to is what the same transaction writes.

That no command rewrites a stored revision or an event rests on the numbering: a new row is
written under the successor of the latest number, and `RowsUpToLatest` says that nothing is
stored there (`StepKept`).

### Initialization

`RelationInitProofs` proves, for all sets of sessions, requests, repositories, scopes
and findings and every bound (`InitAssumption`, `InitNoneAssumption` and the assumptions of
the lifecycle):

| Theorem | Statement |
|---|---|
| `InitInvariantHolds` | `InitSpec => [](IInv /\ AllHistoriesOK /\ InitIInv) /\ ImplementsReviewedGraph` |
| `StoreKeepsItsPromises` | `InitSpec => [](ProjectionWellFormed /\ EffectiveIffApproved /\ InvalidationDescribesActive /\ ScanNeverRejected /\ HistoryDeterminesProjection)` |
| `AcceptedBatchesAreRecorded` | `InitSpec => []AcceptedIsRecorded` |
| `CompletionsInvalidateOmitted` | `InitSpec => []OnlyOmittedInvalidated` |
| `CompletionsKeepReproposals` | `InitSpec => []ReproposalsKept` |
| `CompletionsAreBounded` | `InitSpec => []CompletionBounded` |
| `IncompleteSessionsChangeNothing` | `InitSpec => IncompleteChangesNothing` |

The first two say that the composition breaks nothing: a batch and a completion are many
proposals in one transaction, and each of the relations they propose goes through the
lemmas of the lifecycle (`SubmitBatchProposes`, `CompleteProposes`). A relation is in a
batch once, and a completion never proposes one twice, which is why they can be taken one
at a time.

`InitIInv` is about the sessions. What a batch that was accepted named is there, seen, with
an origin and its findings (`RecordedOK`), for the stored batches and for what callers were
told. An open session has invalidated nothing; a completed one has proposed each of its
deferred candidates, and what it invalidated is a relation of its repository and scope that
it has not seen (`SessionOK`, `LeftOut`). The same is true of what a completion has listed and
prepared, as long as its count of batches is still right, and a candidate of it whose
revision check will succeed copied what is still active (`CompletionOK`): a batch in between
makes the count wrong, so a completion that commits has missed none. That is the step from
the three reads of a completion to its transaction. Only finitely many relations have an
origin (`OriginsFinite`), which is what the bound on the size of a completion needs.

### Catalog

`CatalogProofs` proves, for all sets of sources, connection strings, designs, scopes and
runs (`ReaderAssumption`, `CatalogAssumption`, `CatalogNoneAssumption`):

| Theorem | Statement |
|---|---|
| `CatalogInvariantHolds` | `Spec => []CatalogInv` |
| `NothingOutlivesItsSource` | `Spec => []NothingWithoutSource` |
| `RotationIsKept` | `Spec => []RotationKept` |
| `SearchFindsTheCatalog` | `Spec => []SearchTellsCatalog` |
| `CatalogTellsTheSource` | if `NoDots`: `Spec => []CatalogTellsSource` |
| `ReadsArePublishable` | if `NoDots` and no design has a view: `Spec => []ReadIsPublishable` |

`CatalogInv` adds to the properties what the runner knows in each phase of a scan
(`ScanOK`): the snapshot it is about to publish is the one it read, of a design the source
had, in the database of the connection string it resolved, in a scope of that database.

The last two theorems have the hypotheses the code needs, and they are no idle ones. With
a table whose name is another's, a dot and more, an incremental scan makes columns stale
that it did not look at, and with a view a full scan cannot be published (`CatalogViews`).
Without dotted names, what a scan reads and what validation lets pass is exactly what exists
and what a publication tells of (`ReadExists`, `ExistingIsRead`): the columns of a scope
with their tables, and the tables their foreign keys refer to. `CatalogTold` is the
invariant about the past: of the publications that tell of a node there is a last one, and
the node is what it saw. A publication adds itself as the last (`TellingGrows`,
`LastOfAppended`), and what it writes to each node is one of three cases
(`PublishedNode`).

### Source bindings

`SourceBindingProofs` proves, for all sets of repositories, remotes, contexts, agents and
requests, every size of a batch and any finite number of old repositories
(`BindingAssumption` and the assumptions of the catalog):

| Theorem | Statement |
|---|---|
| `BindingInvariantHolds` | `BindingSpec => []BindingInv` |
| `NoUpdateIsLost` | `BindingSpec => []NoLostUpdate` |
| `RequestsActOnce` | `BindingSpec => []RequestActsOnce` |
| `OpenStoresFindAll` | `BindingSpec => []OpenFindsAll` |
| `MembersKeepTheirSources` | `BindingSpec => []NothingWithoutSource` |
| `BoundOnlyWhenUnambiguous` | `BindingSpec => BoundWhenUnambiguous` |

What an agent has read of a binding is a revision of it with its sources, or that there was
none (`BasisOK`), and stays so because revisions are appended and never rewritten
(`BasisKept`); hence what a late command expects is what its sender saw. Every revision is
the work of a request of its own (`OneRevisionEach`). `IdentitiesOK` says that the
repositories up to the last one of the backfill, or all of them when it is complete, have
their identities. That a batch preserves it needs `BatchIsAPrefix`: the repositories a
batch leaves out all come after those it takes, and a batch that leaves some out is full,
so a batch that is not full is the last one. `CatalogInv` is carried along, since a
replacement refers to sources of the registry and a closing store ends a scan
(`ReferencedInv`, `ProcessEndsInv`).

### Write queue

`WriteQueueProofs` proves, for all sets of callers and every capacity
(`CapacityAssumption`, `NoneAssumption`):

| Theorem | Statement |
|---|---|
| `WriteInvariant` | `Spec => []WriteInv` |
| `SendsNeverBlock` | `Spec => []SendNeverBlocks` |
| `AnswersAreTrue` | `Spec => []AnswersTellOutcome` |
| `CloseLeavesNothing` | `Spec => []NothingLeftAtClose` |

`WriteInv` says where every write is. The tokens in `writeSlots` count the writes that are
being sent, queued or in the hand of the worker (`SlotsCountWrites`), which is why a token
is a place in the channel. A write is in one of those places at most, its result is empty
while it is, and a caller that no longer waits was told `Unknown` (`CallerOK`): so a
failure that was reported cannot be followed by a commit. Once the flag is set nobody holds
the mutex (`WorkerOK`), so a channel that the drain finds empty stays empty.

### Identifiers

`IdAllocatorProofs` proves, for all sets of callers, sizes of leases and ranges of the
clock (`SizesAssumption`, `NamesAssumption`):

| Theorem | Statement |
|---|---|
| `AllocatorInvariant` | `Spec => []AllocatorInv` |
| `IdentifiersNeverRepeat` | `Spec => []IdentifiersIncrease` |
| `MarkCoversIssued` | `Spec => []IssuedBelowMark` |
| `PublicationNeverStarves` | `Spec => []WriterFindsLease` |

`AllocatorInv` says that a lease lies above everything issued and below the mark
(`LeaseFresh`), and so does a range that was granted and not yet taken up (`GrantFresh`).
The second needs that the answer belongs to the holder of the mutex: only the holder waits
for a reservation, for one, and of the size it asked for (`AwaitedByHolder`,
`AwaitedOnce`), however many abandoned ones are still queued. For the publication: there
is one at a time (`OnePublication`), a holder of the mutex other than the publisher has
found the lease empty (`HolderFoundNothing`), and what is left of the lease, what callers
took and what the publication took add up to at least what was ensured
(`LeaseAccountedFor`).

### Schema scan jobs

`SchemaScanJobsProofs` proves, for all finite sets of jobs, all creation times, bounds on
the queue and numbers of restarts (`BoundsAssumption`):

| Theorem | Statement |
|---|---|
| `ScanInvariant` | `Spec => []ScanInv` |
| `OneScanTheorem` | `Spec => []OneScan` |
| `FinishNeverConflictsTheorem` | `Spec => []FinishNeverConflicts` |
| `SucceededWasPublishedTheorem` | `Spec => []SucceededWasPublished` |
| `FailedNotPublishedTheorem` | `Spec => []FailedNotPublished` |
| `TerminalForeverTheorem` | `Spec => TerminalForever` |
| `QueueBoundedTheorem` | `Spec => []QueueBounded` |

`ScanInv` says what is known while a transaction goes on without the worker. Each such
transaction leaves the worker at few places, and all but the record of a failure mean that
the process is shutting down (`LateWrites`). The job at work is RUNNING at the revision of
its claim (`ClaimHeld`), and a claim that can still be made finds no RUNNING job, because
recovery came before it (`NothingRuns`). No scan run is ahead of its job, so each claim is
a new attempt (`AttemptsPast`). What the worker thinks of its publication is so unless it
is shutting down, and then it does not say FAILED (`AnswerKnown`). The steps that leave the
tables alone share the lemma `TablesKept`; the bound on the queue is a separate induction
on the cardinality.

### Graph traversal

`GraphTraceProofs` proves, for all graphs over any finite set of nodes, all conditions and
contexts, all requests and limits, and any number of changes of the graph
(`GraphAssumption`, `ConditionsAssumption`):

| Theorem | Statement |
|---|---|
| `TraceInvariantHolds` | `TraceSpec => []TraceInv` |
| `TracesAreSound` | `TraceSpec => []TraceSound` |
| `TracesAreComplete` | `TraceSpec => []TraceComplete` |
| `RowsAreAccepted` | `TraceSpec => []RowsAccepted` |
| `MoreContextTellsMore` | `TraceSpec => []MoreContextRefines` |

`TraceInv` has one part for each phase. The searches do not keep what they have seen, so
the invariant says it of the paths they know: an edge is `Settled` for a path when it does
not lead on from it, or leads back and a cycle is reported, or its path is listed if it is
an answer and known if it goes on. In the breadth-first search every edge that was there
all along is settled for the paths of lower levels, and for those of the current level
unless it is still pending (`LevelInv`). In the walk of the recursive query an edge that
leads on from a known path is a row of the query or was extracted, and what was extracted
is settled (`WalkInv`). Every part has the condition that nothing was cut off: the proof of
each action shows that whatever it leaves unsettled, for any of the limits, sets
`truncated` (or `cut`, which does so at the end of the level).

When a search ends, every edge is settled for every known path (`DoneInv`). That this is
the whole answer is `SettledIsComplete`: of a path that is missing, take the first
beginning that is not known; the edge before it was not settled. The bound on the length of
paths in `Followed` costs nothing, since a path that meets no node twice is shorter than
the number of nodes (`NodesOfAPath`).

For the rows of the query: a relation has one effective edge, so the relations of a path
tell its edges (`KeyIsInjective`); each row continues a row that was extracted, and its key
is new. So the callback finds the parent, at most one known path has its key, and the row's
cycle is the path's (`WalkRowCases`). What is left that could fail a trace is the
evaluation of a condition, and that of a valid one yields TRUE, FALSE or UNKNOWN
(`EvaluationFacts`).

### Conditions

The evaluation is recursive, and the provers have no induction over expressions. Two
arguments take its place. That there is a function which satisfies the equations of
`ResultsIn` at all (`TablesExist`) goes by the depth up to which there is one: if there
were a least depth without, the function for the depth below, extended by what it yields
one step further up, would be one for it (`YieldIsLocal`: what an expression yields depends
on the results directly below it). That more context refines a result (`ResultsRefine`)
goes by a counterexample of least depth: below it the claim holds, and it is carried up by
one lemma for each kind of expression (`ConjunctionRefines`, `MembershipRefines`,
`CaseRefines` and the others, joined in `YieldRefines`).

The claim itself is stronger than what the property says. It is not enough that a truth
other than UNKNOWN stays (`TruthRefines`), since a `not_in` or a `case` looks at values and
at what is missing as well. `Lasting` says of two results of one expression, in a context
and in a larger one: what the first is missing is not in the smaller context, and if it is
missing nothing the second is equal to it. So the UNKNOWN of a comparison with null, which
stays, is told apart from that of a missing reference, which may be resolved. It holds of
the code although the code loses the first kind in its connectives (`ConditionsNull`),
because it loses it in every context alike.

`ConditionsAssumption` says that the expressions are well sorted and are finite trees: what
is below an expression is less deep. That is what decoded JSON is. The proof found one
fault of the model: `Compared` and `Membership` were written with alternatives of a `CASE`
that overlapped, of which TLA+ may take any and TLC takes the first. They now say which.

### Traces over the relation store

`GraphTraceProofs` also proves of `TracedRelations`, under the assumptions of both its
parts and `TracedAssumption` (identifiers differ, and an edge joins two columns its revision
refers to):

| Theorem | Statement |
|---|---|
| `TracedInvariantHolds` | `TracedSpec => []TracedInv` |
| `StoreImplementsGraphTrace` | `TracedSpec => ImplementsGraphTrace` |
| `TracesDoNotDisturb` | `TracedSpec => Spec /\ HistoryNeverRewritten` |
| `TracesListWhatWasInForce` | `TracedSpec => []ListedWereInForce` |
| `TracesListWhatIsInForce` | `TracedSpec => []InForceIsListed` |

By the second and third, what is proved of either part holds of both together. The second
failed at first, and the model was at fault: a scan removes the edges of all foreign keys
that are gone in one transaction, while `GraphTrace` knew only steps that change one edge.
`ReconcileEdges` is that step, and the soundness and completeness of traces were proved
again with it.

The last two join a property of the search with one of the store. `TracedInv` carries the
invariants of the lifecycle (`IInv`, `AllHistoriesOK`), that the edges a trace sees are the
published ones, and what its history means: the moments lie in the logs and in order
(`MomentsOK`), every edge in `ever` is of a revision that the log has in force at some
moment since the trace began (`EverWasInForce`), a revision in force at all of them has
its edge in `always` (`AlwaysIfInForce`), and the edges that the recursive query saw were
all in force at its moment (`SnapshotWasInForce`). A transaction keeps this because logs only
grow (`HistoryKept`) and what they replay to is what is published
(`HistoryDeterminesProjection`). With soundness and completeness over `ever`, `always` and
the snapshot, which are history of the trace alone, the two theorems follow: what an agent
is told, and what it must be told, is settled by the reviewers' logs.

### What the runs check of what is proved

The inductive invariants (`IInv`, `WriteInv`, `AllocatorInv`, `ScanInv`, `InitIInv`,
`CatalogInv`, `BindingInv`, `TraceInv`, `TracedInv`), `TypeOK`, `ProjectionWellFormed`,
`IssuedBelowMark`, `OneScan`, `QueueBounded` and, of `SourceBinding`, `NothingWithoutSource`
are listed by no run: the theorems establish them for all constants, and the runs check what
is said with them.

### Only model-checked

The liveness properties (`CallsEnd`, `AllocationsEnd`, `JobsEnd`, `WorkerStops`), because
fairness is beyond the backends of the prover. Every safety invariant and action property
of the passing runs is proved for all constants; two of them under a hypothesis that the
code needs and that their section names (`NoDots`, no views).

## Plan

The modules of the first plan are written, except those listed below as not modelled, and
their safety properties are proved. What could follow:

1. The sequence of publications of one source in `Catalog` is the one the jobs of
   `SchemaScanJobs` make, which is argued in "Modules": a composition in the form of
   `TracedRelations`.
2. Abstract specifications of `WriteQueue` (each write commits at most once and its caller
   learns of it or not) and `IdAllocator` (identifiers in increasing order), so that the
   models above them could be composed with those.

## Not modelled

* Sessions, tokens and the rate limiter are one map under one mutex each, with expiry by a
  clock: no two steps of theirs interleave, and nothing else depends on their state.
* The shutdown of the server is modelled where the components meet it (`Stop` and `Restart`
  of `SchemaScanJobs`, `CloseStore` of `WriteQueue` and `SourceBinding`); the timeouts of
  the listeners are those of `net/http`. A backup is one `VACUUM INTO` with file operations
  around it.
* The audit log is one row in the transaction of each command and is read by nobody that
  decides anything.
* Parsing and validation of configuration, repository URLs and JSON, the transports around
  the services and the web console hold no state that another step depends on. The sealing
  of connection strings is a pure function of a key.
* `cardinality.go` is a pure function of the indexes of two tables, and the source graph of
  the console is a read that nothing depends on; a trace whose caller is gone ends with an error and no result.
* `jobs.Service.Create` and `id.Generator`, the allocator without a database, are used by
  tests alone.

`components` in `PROJECT.json` lists every part with its status.
