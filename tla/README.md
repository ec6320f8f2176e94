# repo-semantic-mcp in TLA+

A model of repo-semantic-mcp: the lifecycle lease, the indexer with its path
manifest, the watcher, the life of repositories in the registry, the graph and its
incremental maintenance, the status a server derives and caches, the script that
waits for a server and repairs it, and the searches. TLC checks each module on a
small instance; TLAPS proves its invariants and action properties, and the lease's
refinement, for every instance. Paths below are relative to
`src/services/repo_semantic/` unless they start with `src/`.

## The system

A server process serves one repository. Its main thread bootstraps and then runs
the MCP tools, which are synchronous functions and so run one at a time; its
watcher thread polls the working tree. Every client that speaks stdio may start a
process of its own, so several processes, of the same or of different
repositories, share the SQLite registry (one file per service checkout), the
Qdrant collections and the manifest of a repository.

| Component | State it keeps | Operations | What is hard | What makes it correct |
|---|---|---|---|---|
| Lifecycle lease (`registry.py`, `lifecycle/lease.py`) | `lifecycle_lease` and `lifecycle_audit` rows, a heartbeat thread per call | acquire, heartbeat, release, recovery of an expired row | clock read before the database lock, a heartbeat that lands late, owners that die, errors of each transaction | serialised mutations, an audit that tells the truth, recovery |
| Indexer, manifest, store (`indexer.py`, `path_manifest.py`, `qdrant_store.py`) | Qdrant points, `path_manifest` rows, coverage | rebuild, reindex, reconcile, backfill, summarize | the tree changes during an operation, an operation ends anywhere, three stores without a common transaction, legacy collections | no mixed versions, a manifest that never runs ahead of the points, repair, a clean status that is true |
| Watcher (`watcher.py`, `lifecycle/watcher_ops.py`) | snapshot, stop event, thread | poll, start with reconcile, stop | threads that outlive their stop, refused leases, failures, edits during the startup reconcile | no edit is missed, the index never goes back, it catches up |
| Registry of repositories (`registry.py`, `lifecycle/repo_ops.py`, `lifecycle/index_ops.py`) | a row per repository: status, active, counts | register, activate, sync by every operation | read, then write in another transaction; errors that cannot be written | a status that says what goes on; no search of nothing |
| Process bootstrap (`src/apps/repo-semantic-mcp/main.py`, `mcp_server.py`) | bootstrap phase | register, wait for dependencies, status of a restart | counts that are stale when used, a lease held by another process | the same |
| Search service and caches (`search_service.py`) | lexical, symbol and status caches | search, invalidate, status | caches that outlive what they were filled from: the watcher's thread and other processes change the index | an answer no older than the cache may be |
| Graph (`graph/`) | nodes, edges, files, build metadata in SQLite | build, rebuild, incremental update, status, bounded reads | rows of one path depend on other paths; updates after the index has moved on, bounds that end them, retries under a key | the artifact is what its metadata says; ready is not overstated |
| Status policy (`status/`) | none | contracts, availability, freshness, sparse readiness, actions | values read one after another from six places; two derivations of one fact | agrees with what search does |
| Retrieval (`retrieval/`, `sparse.py`, `lexical/`) | none | filters, shortlists, sparse branch or BM25, fusion | a bounded shortlist under filters, collections of different age | the exact results, or a warning |
| Readiness script, stdio proxies (`src/scripts/`) | one run: verdict, attempts | poll, start, repair, probe | timeouts against late answers, a status that was cached | a verdict that was earned, no start that did not happen |
| Chunking, embedding, context (`chunkers/`, `indexing/`, `embeddings/`, `context/`) | none | pure functions, HTTP | text | not modelled |

How they interact: every mutation runs inside `lifecycle_mutation()` (the lease);
the watcher calls the indexer and then a callback that writes the registry row;
tools write the row, call the indexer and write the row again; the status reads
manifest and row; search looks at the row first (`ensure_search_available`).

`PROJECT.json` lists every component with what is left out of it, and the
hazards of the code line by line with the properties aimed at them.

## Modules

| Module | Models | Stands on |
|---|---|---|
| `ExclusiveSection` | what the lease promises: entries that are not shared while trusted | |
| `LifecycleLease` | the lease protocol, one action per transaction or clock reading | implements `ExclusiveSection` |
| `LifecycleLeaseProofs` | its theorems | extends `LifecycleLease` |
| `RepoIndexer` | tree, collections, manifest and the operations on them | one operation at a time |
| `RepoIndexerProofs` | its theorems | extends `RepoIndexer` |
| `Watcher` | polling threads, the tools that start, stop and overtake them | the lease as a lock, the index of a path as one mtime |
| `WatcherProofs` | its theorems | extends `Watcher` |
| `RepoLifecycle` | registry rows, processes, bootstrap, tools, polls | the lease as locks whose owners die, the collections in five grades |
| `RepoLifecycleProofs` | its theorems | extends `RepoLifecycle` |
| `GraphSnapshot` | the graph rows that indexed chunks stand for, as operators | |
| `GraphSnapshotProofs` | lemmas: what each row of a build depends on | extends `GraphSnapshot` |
| `GraphStore` | the artifact: builds, updates, status, restarts | extends `GraphSnapshot`; one operation at a time |
| `GraphStoreProofs` | its theorems | extends `GraphStore` and `GraphSnapshotProofs` |
| `StatusPolicy` | `status/*.py` as operators on an observation | |
| `SearchCaches` | the event loop of a server, its caches, the index operations around it | extends `StatusPolicy`; one holder of the lease |
| `EnsureReady` | the readiness script | extends `SearchCaches` |
| `EnsureReadyProofs` | its theorems and those of `SearchCaches` | extends `EnsureReady` |
| `Retrieval` | one search | extends `StatusPolicy` |
| `RetrievalProofs` | its theorems | extends `Retrieval` |

The layers are cut where the code cuts them: `LifecycleLease` shows what a call
gets from `lifecycle_mutation()`, and the other modules take the lease as an atomic
lock. That is justified while owners are punctual (below); what happens otherwise
is the subject of `OverlapIsAudited` alone.

Operators called "a plausible slip" or "wrong variant" in a comment are not part of
the model: they are bugs that the properties are tried on, and `mutants` in
`PROJECT.json` says which property must notice which.

### LifecycleLease

A *call* is one entry into `lifecycle_mutation()`: `phase` is its place in it,
`stamp` its `now_dt`, `beat` and `beatStamp` the heartbeat thread's. `holder` and
`expiresAt` are the `lifecycle_lease` row of a key, `audit` the status column of
`lifecycle_audit`. Acquire, heartbeat and release are the transactions of
`registry.py`; the clock is read in a step before each, because the code reads it
before `BEGIN IMMEDIATE` waits. Each transaction has an error step. A release or a
heartbeat of a row that is no longer one's own changes nothing, and nobody is told.
A process crash is the crash of each of its calls.

`punctual` is a ghost that turns false when the stamp of an acquiring call, or of
the last successful extension of a working one, becomes older than `MaxGap`. With
the code's numbers (ttl 900 s, heartbeat every min(30, ttl/3) s, SQLite busy
timeout 30 s) a process that is scheduled at all stays far below the ttl; the model
does not assume it, it makes it the premise of `MutualExclusion` and
`ExclusiveSection`. Steps of the wall clock itself are not modelled.

### RepoIndexer

Each Qdrant call, SQLite transaction and file system call of reconcile, reindex
and rebuild is an action, with a batch size of one point so that an interruption
falls between any two points. An editor changes files between any two of them.
Contents stand for bytes and hash; `Chunks` and `Size` give their chunk counts and
lengths. Collections exist per scope and schema, and readers take the current one
or else the legacy one. `StopAtBounds` stands for the time bound. `damaged` and
`torn` are observers for the two cases in which the code gives no guarantee: a path
whose points were being replaced when the operation was cut off, and a path whose
bytes and mtime were read from two versions; the properties name them as
exceptions, so that a reader sees how far the promise goes. Deleting and reading a
path's points is one step. Left out: the manifest's identity mismatch and hash
bounds, the generations of sparse manifests, `invalidated_paths_after`.

### Watcher

A file is its mtime; `baseline` is `self._snapshot`, which all threads of a watcher
share; `thread` and `stopping` are `self._thread` and `self._stop_event`. A thread
takes its snapshot path by path, so edits fall into the scan. `stop()` may give up
joining a thread that scans or waits for the lease (`join` has a timeout), which
then lives on while a new `start()` clears the event they share. A scope may have no
current collection (`built`): a reindex then skips its chunks with a warning
(`indexer.py:643-656`) and returns normally, and the watcher's snapshot moves on; only a
rebuild creates the collection. An upsert goes batch by batch, so a reindex or
rebuild that fails may leave a path without points, with some of them (`partial`) or
with all. `newest`, `shared` and `botched` are observers. The tools are one actor, because
they run one at a time. `NothingIsMissed` and `ComesToBeIndexed` except the paths of a scope
without a current collection, and say so.

### RepoLifecycle

Each process has a main thread and a watcher thread. A main thread goes through
connect (`main()`), count, boot (`_bootstrap_runtime`) and then calls tools;
a refused or failed bootstrap ends in `failed`, which only a restart leaves. A call
takes all the leases it needs or is refused (`Enter`, `Refuse`), reads the row
(`Read`), writes it (`Write`), works, and reads and writes again. `Verdicts` is what
each caller writes as status, given the row it read. A repository has no collection, or
they are empty, hold some files (nothing but reindexes filled them), are torn (an
operation did not end well) or full; it is assumed to have something to index. Where there
is no collection, a reindex, a poll or a startup reconcile writes nothing, whether it ends
well or not. `Calls` and `About` say what tools the clients of a process call and what
repositories they register. register_repo about a repository of another process holds the
registry's lease but not that repository's, and writes back the row it read
(`repo_ops.py:50`); `echoed` marks the rows that this has taken back to an earlier state.
`orphaned` marks a status indexing whose owner died or could not write its result, and
`unnoted` a poll or reconcile that left no points while the row counts some. The three are
observers, and each property names the ones that are its exceptions.
Writing the same status twice in a row (register_repo's upsert and sync,
start_watcher's callback and final sync) is one write. Role bindings, contract
issues, last_error, timestamps and the watch_running flag of the row are left out.

### GraphSnapshot and GraphStore

`GraphSnapshot` says what `build_graph_snapshot` makes of indexed chunks. A text is what
its version of a file defines, reads from the environment and refers to; a reference is
the list of targets the extractor tries. All nodes of one path are one node, and a
module, route or environment variable is a node of its own, whose row names the last
file that defines it. Where several files define a name, a reference goes to the one
that `Rank` puts first, whatever the code goes by (packages first in `graph/types.py`,
the order of a scroll in `markdown_refs.py:99`, taken to be always the same). `Snapshot(chunks)` is the full build,
and thereby the reference for every update.

`GraphStore` keeps the artifact: rows, and the chunks its source contract was written
for. `revision`, `contract` and `extractors` say whether the stored revision, hard
contract and extractor signatures still are those of now. A build opens a file
(`BuildOpens`: tables, no metadata), then replaces all rows in one transaction. An
update goes through the code's stages: refused, or begun; signatures backfilled by a
transaction of their own (`UpdateSigns`); paths discovered; dependents in the stored
rows, then in the new ones; bounds; one transaction (`UpdateCommits`); a retry under the
key answers from `memo`. `Restart` ends the process between any two of them. Index
operations exclude the others by the lease, but change chunks and registry row in
separate steps. `lossy` is an observer: the paths whose edges an update may have lost
and that have not been extracted since. Left out: readings of git in the status (they
only turn ready into stale), bounds on chunks, rows and time (they end an update where
the bound on paths does), the terms of nodes.

### StatusPolicy, SearchCaches, EnsureReady

`StatusPolicy` is a function of an observation record, with the code's precedence of
codes. `SearchCaches` makes the observation: the build of a status reads the row, then
git and the paths there are, then the rows of the manifest, then each file, and at the
end the watcher, the sparse branch, the graph and the lease (one step). When the lease
cannot be read the status says that no action is in progress (`index_status.py:252-259`;
`unread`), and `NoHiddenOperation` excepts that reply. `manifest` holds the rows a status
compares with the files, `index` the points a search finds: an operation takes the points
away before it writes the row, so one that fails leaves them apart, and a clean status
speaks of the rows only (`FreshAnswersAreRecent` says so; `CleanIsTrue` and `NoFalseClean`
of `RepoIndexer` are about the points). A scan may meet files it cannot read and be
incomplete (`ScanEnds`). The event loop serves one call at a time, so a call is never
interrupted by another, but by the watcher's thread, another process, edits, commits, changes of the registry and the
clock. `cache` is `_status_cache` with its timestamp, which is read before the build.
An index operation takes the lease, writes points, clears the caches it clears, writes
the row and gives the lease back in steps.

`EnsureReady` is a client: each request may be lost before or after the server has
taken it, and one that was given up on still runs, so `start_watcher` may succeed after
the script has stopped waiting, or be turned away by an earlier call under its key
(`op.by = "retry"`). `lastClean`, `lastSearchable`, `calm` and `began` are observers.
Contracts always fit here; `StatusPolicy` has them as operators. The mode
permissioned-lifecycle is not in the runs. The script's refresh of the status after a
start (:642-651) needs a reply without a status, which this server's payload always has,
so no step stands for it.

### Retrieval

A chunk is its rank by dense score; a case is chunks, collections and a request, and
never changes during a search. `Widen` doubles the shortlist as `dense_candidates` does
while filters applied afterwards leave it short; `SparseSearch` and `LegacyBm25` are the
two lexical branches, `Fuse` the weighted reciprocal ranks in exact fractions. The
code's sort is stable, so chunks of the same score and the same best rank stay in the
order in which they entered the fusion, dense candidates first (`Earlier`). `Ordered`
says what a sort leaves by counting what stands before each element. `CasesAssumption`
says how chunks and requests are numbered and what collections there can be
(`Possible`): one of an older schema has no sparse vectors, and points under a manifest
that says it is meant to be empty are `foreign` to it. A rebuild saves the new sparse
manifest before it embeds and before it drops the old points (`indexer.py:233-240`), so
one that fails in between leaves points whose vectors were encoded with another
vocabulary. The model has them: such a collection answers the sparse branch with
anything, or with nothing when the manifest is empty. The sparse branch and the BM25
rate chunks differently, so a chunk has a flag for each: `words`, and `rated`, which is
false of a word so common that its score is not above zero (`legacy_bm25.py:61-65`).
Differences in how a file name that begins with a dot yields an extension are not
modelled. The floors, factors and caps are CONSTANTS and small in the run.

## Runs

| Run | Instance | Asks |
|---|---|---|
| `lease` | 3 calls, one key, Ttl 2, MaxGap 1, clock up to 3 | type, exclusion, audit, recovery, refinement |
| `indexer` | a code and a docs file, 2 contents (0 and 2 chunks, one size), 2 edits, at most 2 paths and 3 deleted points | versions, manifest, repair, clean status, bounds |
| `indexer_false_clean` (violation) | the same without collections of an older schema, one chunk instead of two | is a clean status true after a crash? Not always. |
| `watcher` | one file, 2 edits, 2 threads, another process | nothing missed, never back, catches up, threads end |
| `watcher_deleted` (violation) | the same | are files deleted between snapshots cleaned up? No. |
| `repo_lifecycle` | a process that calls every tool, dies and restarts, another of its repository that rebuilds, and one of a second repository that registers the first | announced work, no search without points, owners of a status, leases come free |
| `lifecycle_blocked` (violation) | the same | is search blocked over collections that are torn or being rebuilt? No. |
| `graph` | three files with imports, shared names, a document and a test; three kinds of request; 2 paths, 1 dependent, 3 for large updates | metadata true, losses only where known, ready is current, answers true |
| `graph_loses_edges` (violation) | the same | is every edge of a full build kept by updates? No. |
| `serving` | one file, one edit or commit, one other event, two command lines, time 0..1, TTL 0 | recent answers, no hidden operation, earned verdict, real start |
| `search_old_chunks` (violation) | the same, without sparse vectors | does search answer from what is indexed? Not the lexical branch. |
| `retrieval` | 4 chunks, 2 collections, 2 filter families; 3 chunks over all states of both sparse branches, and with a filter over four of these states | exact or told, dominance, status agrees, no lexical loss |

Why the bounds are enough. Three calls are an owner, one that recovers from it and one
that contends with both; Ttl 2 with MaxGap 1 is the smallest pair with a heartbeat
before and one after the point where it is too late, and a clock of 3 lets a lease
expire and its successor be extended. Two contents of one size but with different chunk
counts let an edit go unseen by size, lose all points or gain some; two edits let a file
change under an operation and again after it; three deleted points are fewer than two
files have, so the bound bites. In Watcher every property is about one path and paths
interact only through the order of visits, which one path with interleaved edits covers;
two threads are one that outlives a stop and its successor. In RepoLifecycle two
processes of one repository give every pair of concurrent calls, a third of them could
only wait; the process of the other repository is the writer that waits for nobody. Two
bounds keep it small: only the process that calls every tool dies and restarts
(`OthersLive`), and the one that rebuilds is up from the start (`StartedSpec`). In
GraphStore three files are a chain of two imports, the shortest along which a change
needs two rounds of dependents; the bounds are below the number of files, so each of
them ends some update. In the serving run a TTL of 0 with two moments of time is a cache
that is still and one that is no longer fresh; one edit and one other event, beside the
watcher's work, put each change between any two readings of a status. The only tool an
agent calls in that run is reindex_paths, which changes points and rows in steps as the
others do; all its files can be read. Four chunks are twice the smallest shortlist and
more than the cap of the run, so a search may widen, reach the cap, or have enough at
once.

The violation runs each check one sentence of the documentation or of a comment that
the code does not keep; `findings` in `PROJECT.json` quotes it. Several of the sentences
are from draft specifications under `src/docs/specifications`, and the finding says so
where it matters. What the runs show:

* `indexer_false_clean`: a rebuild indexes a repository that was never indexed before; a
  reindex deletes a path's points and is cut off before it writes the path's row. The old
  row still matches the file, and the status is clean.
* `watcher_deleted`: a file created after a snapshot, indexed, and removed before the
  next snapshot is in neither; its points stay.
* `lifecycle_blocked`: a build fails midway and leaves a part of the points and status
  error; activate_repo, which goes by the count, makes that indexed, and search is let
  through. A restart, reindex_paths or a poll do the same. The second half of the property,
  a rebuild in progress, is broken as well: register_repo from another process writes back
  a status it read before (`repo_ops.py:50`).
* `graph_loses_edges`: the paths drawn in by the second search for dependents are
  rewritten, but their own dependents are not looked for, and lose their edges into
  them, although the artifact calls itself current. There is a second way, which the
  proof of `LostOnlyByWidening` brought to light (the first version of that property
  allowed only the one above, and its step for `UpdateCommits` could not be proved; TLC
  then found the behaviour on an instance of four files, which is not among the runs).
  Two files may be one module (`pkg.py` and `pkg/__init__.py`, or a file with and
  without the `src/` prefix). The id of a module_imports_module edge has no file in it,
  and `builder.py:226` keeps one row per id, so of two such files that import the same
  module only the later has the row. When an update rewrites that file and it now
  imports something else, its row is deleted and the edge of the other file, which is
  not rewritten, is not written back. `LostOnlyByWidening` says that there is no third
  way. For the same reason `MetadataTellsTheTruth` compares edges with what the
  extractors find in a file (`Extracted`), and not with the rows a build keeps of that.
  Neither property is about the edges that `test_targets.py:205` guesses from names:
  they may be stale under current metadata, which P6.B:474-477 does not allow, and both
  comments except them.
* `search_old_chunks`: the lexical cache is cleared by the tools that reindex, not by
  the watcher's reindex, the startup reconcile or another process.

Divergences met without a run of their own: P6.A:804-805 wants a lease recovered only
from an owner that is gone, and `registry.py:238` looks at the expiry alone (which is
why `MutualExclusion` has a premise); P6.A:1546 wants a reconcile to clear stale paths,
and `indexer.py:398,409` leaves the row of a deleted file without chunks when it repairs
something else; P6.B:392-405 wants the index revision read again before the graph is
written, which the code does not do, safely as long as index operations hold the same
lease; `max_results_per_file` may leave out results where the shortlist is full, which
the specification of P4 accepts (`ResultsAreExactOrTold` names it); the search gate
refuses a repository of which only one of two template hashes is stored, while the
status calls the hash missing; after a rebuild that failed between saving an empty sparse
manifest (`indexer.py:233`) and dropping the collection (`:235`) the status says that the
sparse branch cannot be used (`retrieval_status.py:63-68`) while the search uses it, and
loses every lexical match of that collection (`StatusAgreesWithSearch` and
`NoLexicalMatchIsLost` name the state as their exception); and a poll or startup reconcile
that fails after it deleted the last points leaves the row's counts, and search is let
through to nothing until they are counted again (`SearchableMeansPoints` names it).

Four runs may stop (`CHECK_DEADLOCK FALSE`). In `lease` the clock is bounded and calls
are used once. In `serving` and `search_old_chunks` what happens after the script's end
is not looked at. In `retrieval` a search ends.

## Fairness

* `LifecycleLease`: time passes; a caller that was refused calls again, and its
  transaction does not fail for ever (strong fairness of refuse-or-acquire: the
  acquiring call waits in SQLite's busy handler and retries are the user's). Bodies and
  heartbeats are not fair: a body may hang.
* `Watcher`: each polling thread, a tool that is under way, and the other process's
  giving its lease back, are weakly fair. Tool calls are not: nobody need call one.
  `ComesToBeIndexed` assumes in addition that from some time on errors cease and
  nobody else takes the lease; both are in its statement.
* `RepoLifecycle`: a call that holds a lease goes on, to success or failure, and a
  dead owner's lease expires (`AbandonedLeaseIsRecovered` is the detailed form).
* The other modules have no liveness property and no fairness. The script ends by its
  deadlines whatever the server does; that the server answers is nobody's promise.

## What is proved

`LifecycleLeaseProofs`, for any set of calls and keys, any `Ttl`, any
`MaxGap < Ttl` and an unbounded clock (`MaxTime` bounds only `Tick`, and may be any
number), from `LeaseAssumption` alone:

* `TypeCorrect`: the type invariant.
* `LeaseInvariant`: the inductive invariant `LeaseInv`.
* `MutualExclusionHolds`, `AuditMatchesLeaseHolds`, `OverlapIsAuditedHolds`,
  `VerdictsAreFinalHolds`, `LostLeaseStaysLostHolds`: the safety properties of the run.
* `ImplementsSection`: the refinement of `ExclusiveSection`.

`MutualExclusion` is not inductive: it says nothing of rows. `LeaseInv` adds what
makes it so. While everybody is punctual, a working call owns its row and the row's
expiry is at most `MaxGap` short of a full ttl from now, so it is live for every
reading of the clock (`PunctualRowIsLive`), also for one that another call took before
it waited for the database: its stamp lies in the past. `Acquire` needs a row that is
not live and therefore cannot happen next to a punctual owner. The remaining conjuncts
tie phases, heartbeats, stamps, rows and audits together: stamps are never ahead of
the clock, a row's holder has a running audit row and the other way round, and a
heartbeat in flight belongs to a call that has started. The step lemmas go action by
action; those that change neither rows nor audits share one (`QuietInv`).

`RepoLifecycleProofs`, for any set of processes and repositories, from
`LifecycleAssumption` (a process serves one repository; the registry's key is no
repository; the two marks of a free and of an abandoned lease differ and are no thread):

* `TypeCorrect`: the type invariant, from `LeaseInv`, which says that a call inside
  holds every lease it needs (`LeasesAreHeld`), that a lease whose owner lives has one
  inside a call, and that only register_repo works on another repository than its
  process's (`TargetsAreOwn`).
* `WorkIsAnnouncedHolds`, `SearchableMeansPointsHolds`, `IndexingMeansWorkHolds`, and
  `StatusInvariant` on which they stand; for processes of any number of repositories, which
  may register each other's.

`StatusInv` strengthens the three: a row that records points and is not indexing has
collections that are not empty, but for rows that are echoed or unnoted (`CountsAreTrue`);
the status indexing, where no owner has been lost and nothing was echoed, is that of an
index operation between its first write and its last (`OwnersAnnounced`); any other call
with the lease that writes indexing back has found it without an owner
(`RepeatsAreOrphaned`), and one without the lease writes indexing if and only if it has read
it (`StrangersRepeat`).

`RepoIndexerProofs`, for any finite tree, contents, chunk counts, edits and bounds, from
`IndexerAssumption` (paths are finitely many and numbered, as scans visit them in order;
the marks for no file, no row and a deletion are no values):

* `TypeCorrect` and `IndexerInvariant`.
* `OneVersionPerPathHolds`, `RebuildIsExactHolds`, `ReconcileRepairsHolds`,
  `ReconcileWithinBoundsHolds`, `CleanIsTrueHolds`: the invariants of the run.
* `ManifestFollowsStoreHolds`, the action property.

None of the properties says anything while an operation is half done, and that is where
each could be lost. The invariant `IInv` follows a path through its replacement. A path
is `Reliable` while no torn reading and no unfinished replacement has touched it;
then all its points are there, its row agrees with them and they have the content of
the file if they have its mtime (`ReliableIsWhole`). An operation takes reliability away
when it starts on the path, and gives it back when it commits the row, because in
between only points of its snapshot are stored or wait to be (`Replaced`), none of them
is forgotten (`Upserting` within a reindex, `Rewriting` scope by scope within a
rebuild), and the early transactions have already committed what they claim
(`Committed`). `TimesArePast` makes an edit stale whatever was read before, and
`QuietIsExact` is the same snapshot under the premise that nobody edits, from which come
the exact results of rebuild and reconcile. `RestIsExact` covers the paths that a
reconcile leaves alone, and `LossIsBounded` what it may still delete: the bound holds at
the end because it is kept with the points that are still at risk.

`WatcherProofs`, for any paths, any number of polling threads and edits, from
`WatcherAssumption` (the names of actors and marks differ):

* `TypeCorrect`, here with `ToolPlaces`: the tool thread waits exactly when no tool runs.
* `WatcherInvariant`, `NothingIsMissedHolds`, `IndexMovesForwardHolds`.

`NothingIsMissed` speaks of a watcher that sleeps; a snapshot becomes its baseline long
after it was taken. The invariant speaks of every snapshot that some comparison to come
may go by (`Trusted`: the baseline, the one start_watcher has captured, and that of a
thread that will leave it as baseline): what it shows as it is now is indexed so,
or is being written by somebody (`InHand`), or botched, or its scope has no current
collection (`TrustIsEarned`). `ReadingsAreRecent`,
`PlanIsRecent`, `ScanIsRecent` and `ChangesAreNew` say why a reading that was made after a
trusted snapshot is still good when it is written. `SnapshotsArePast` and
`NewestIsIndexed` give the other theorem: whoever writes holds a reading not older than
what was indexed before, since it reads under the lease.

`GraphSnapshotProofs` and `GraphStoreProofs`, for any paths, texts, bounds and kinds of
request, from `SnapshotAssumption` (finitely many numbered paths; names of modules,
routes, variables and symbols are told apart from each other and from paths; None is none
of them) and `StoreAssumption`:

* `EdgeCarriesOver`, on which the rest stands: where two indexes agree but for some
  paths, a file outside them with no edge into them has the same edges in both.
* `TypeCorrect`, `MetadataTellsTheTruthHolds`, `LostOnlyByWideningHolds`,
  `AnswersAreTrueHolds`, `ReadyIsCurrentHolds`: the invariants of the run.

That the metadata is true is not inductive, because an update keeps rows of paths it
does not touch and it must be shown that these are still what a build would find.
`ArtifactIsSound` says it file by file: the edges of a file are found in that file's text
(`EdgesAreFound`), a guessed edge stands between two files that are there
(`GuessesStand`), and every firm edge of a build is there but for the lossy paths (`Kept`).
`CommitIsSound` and `CommitKeeps` then take an update's plan apart: what it rewrites comes
from the new build, what it leaves alone has no edge into what changed. The invariant also
ties the job to its request (`JobOK`), and answers to the end of operations
(`NoAnswerYet`).

`ReadyIsCurrentHolds` needs less. Ready compares revisions and says nothing of an artifact
that is not ready, or of an update under way. `ReadyInv` adds that while the revision
matches and no registry row is pending the artifact's chunks are the indexed ones
(`RevisionIsCurrent`), and that an update has an artifact to write to
(`UpdatesHaveArtifact`).

`EnsureReadyProofs`, for any paths, command lines, cache lifetime, bounds and any
interleaving around the server, from `CachesAssumption` and `ScriptAssumption` (bounds are
numbers, switches are switches, agents call tools there are, None is nothing else):

* `ServingInvariant` and `TypeCorrect`.
* `VerdictIsEarnedHolds`, `StartIsRealHolds`: the invariants of the run.
* `FreshAnswersAreRecentHolds`, `SearchableAnswersAreRecentHolds`,
  `NoHiddenOperationHolds`: its action properties.

A status says what was read at several moments, and a cached one what was read before
the call. The argument follows a fact from its reading to the answer: whatever a build
has read (`RegistrySeen`, `ListSeen`, `FilesSeen`) and whatever the cache holds
(`CacheOK`) was so at some moment since the time it is stamped with, which is read
before the build begins. What needs an argument is a path whose row was read before its
file and that is found equal later: its row may have changed meanwhile, but an index
operation changes a row only to what the file is, so the path was clean at that moment,
or the row has not changed and the path is clean now. `CalmOK` says that a call notices
a moment without an operation, and the lease is the last thing read, if it can be.
`ScriptInv` carries the same through the script: what it goes by was answered to calls
made since it began (`ScriptCalls`), and nothing it did makes up for a status without
search (`VerdictNeedsSearch`). `TypeCorrect` adds that nothing is dated later than now,
which answers there are to which calls, and that the script has a status from when it
acts on one.

`RetrievalProofs`, for any number of chunks, any collections, requests and limits, from
`CasesAssumption` and `LimitsAssumption` (a request asks for at least one result, and no
more than the caps):

* `ResultsAreExactOrToldHolds`, `FusionKeepsDominanceHolds`, `StatusAgreesWithSearchHolds`,
  `NoLexicalMatchIsLostHolds`, from `DenseInvariant`, `FusionInvariant`, `LexicalInvariant`.
* `OrderedIsSorted`: for a strict order of a finite set, `Ordered` is a sorted sequence of
  its elements. A proof by induction over the set is out of reach; it is a count: what is
  before an element has a size below that of the set, no two elements have the same, and
  there are as many sizes as elements.

The steps of a search are few and the work is in what they compute. A shortlist that was
cut holds the best of each collection, so it begins like the list of all (`SameBeginning`)
as far as the results go. Better ranks in both branches give a larger sum of fractions
(`BetterRanksScoreHigher`), and the order of the fused list is a strict one
(`AheadIsAnOrder`), so that a dominated hit stands behind. The status and the branch are
compared collection by collection (`SameOfEach`).

TLC only: the liveness properties, `AbandonedLeaseIsRecovered` among them (the prover does
no liveness under fairness). Every invariant and every action property of the passing
runs has a theorem.

## Not modelled

* Chunkers, embedding providers, tokenisers, scores, snippets, the context assembler:
  pure text and floating point, or HTTP. The parsing inside the graph extractors is
  abstracted to `Text`.
* The graph's read provider, definition and symbol lookups, `watcher_status`: reads
  with bounds, without state.
* Backends and role bindings but for the flag that another backend is selected; the
  symbol cache, which is filled and cleared with the lexical one; the stdio proxies,
  which forward lines; contracts, benchmarks, deployment.
* A lease that is lost while its owner is still at work is followed in `LifecycleLease`
  only: the other modules assume the lock. Idempotency keys of lifecycle tools change
  the answer of a refused start_watcher (`SearchCaches`) and no state.
* The active flag across processes of different repositories: the interleaving is in
  `RepoLifecycle`, no property is about it.

## Plan

1. Role bindings in `RepoLifecycle`; the manifest's identity and hash bounds in
   `RepoIndexer`.
2. An abstract graph, a function of one index state and of what was lost, and the updates
   that implement it; `MetadataTellsTheTruth` and `LostOnlyByWidening` are its step by step
   halves.
