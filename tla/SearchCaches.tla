---------------------------- MODULE SearchCaches ----------------------------
(***************************************************************************)
(* One server process of one repository as its clients see it: the calls   *)
(* its event loop serves one at a time, the status and lexical caches of   *)
(* SearchService, and everything that goes on meanwhile: the files change, *)
(* the watcher thread reindexes, another process works on the index, the   *)
(* registry is changed, time passes.                                       *)
(*                                                                         *)
(* Whoever holds the lifecycle lease is op; LifecycleLease is about how    *)
(* there comes to be one holder at most.  A file's text is a version.      *)
(***************************************************************************)
EXTENDS StatusPolicy

CONSTANTS
  Path,        \* the indexable paths
  TTL,         \* _status_cache_ttl_sec
  Sparse,      \* whether the collections have a usable sparse branch at first
  Graphs,      \* the graph summaries there may be after an index operation
  ScanEnds,    \* whether a scan of the paths may be complete, may hit its bounds or
               \* a file it cannot read
  AgentTools,  \* the tools agents call
  MaxTime,     \* bound: the last time
  MaxEdits,    \* bound: edits and commits together
  MaxOps       \* bound: changes of the registry, operations of other processes and
               \* calls of agents together

\* What holds the lifecycle lease, and where its operation is.
Holder == {"watcher", "other", "tool", "retry"}
Operations == [by : Holder, at : {"begun", "indexed", "invalidated", "synced"}, head : Nat, time : Nat]

ASSUME CachesAssumption ==
  /\ {TTL, MaxTime, MaxEdits, MaxOps} \subseteq Nat
  /\ Sparse \subseteq BOOLEAN /\ ScanEnds \subseteq BOOLEAN
  /\ AgentTools \subseteq {"index_status", "search", "update_graph", "reindex_paths", "start_watcher"}
  /\ None \notin Holder \cup Operations \cup [stale : BOOLEAN, complete : BOOLEAN]

VARIABLES
  clock,
  file,        \* what each path says, None if there is no such file
  touched,     \* and since when
  committed,   \* what HEAD says of it
  head,        \* the commit HEAD is
  index,       \* the version the collections hold points of
  manifest,    \* and the version its row in the manifest is about
  row,         \* the registry row of the repository
  activeRepo,  \* whose repository is the active one
  otherBackend,\* another embedding backend than the runtime's is selected
  sparse,      \* the collections have a usable sparse branch
  graph,       \* the status summary of the graph
  op,          \* the operation that holds the lease
  watching,    \* the watcher's thread runs
  server,      \* the bootstrap phase of the process
  call,        \* the call the event loop is in
  seen,        \* what the status it builds has read so far
  cache,       \* _status_cache and _status_cache_ts
  lexical,     \* _lexical_cache
  reply,       \* the last answer
  events       \* those so far

\* Observers: when each path was last as its row in the manifest says, when search was
\* last available, and whether no operation was in progress at some moment of the call.
VARIABLES lastClean, lastSearchable, calm

world == <<file, touched, committed, head, activeRepo, otherBackend>>
store == <<index, manifest, row, sparse, graph, op, watching>>
caches == <<call, seen, cache, lexical, reply>>
observers == <<lastClean, lastSearchable, calm>>
vars == <<clock, world, store, server, caches, events, observers>>

-----------------------------------------------------------------------------
(* Readings *)

Clean(p) == file[p] = manifest[p]
Changed == {p \in Path : file[p] # committed[p]}
ModTimes(S) == {IF file[p] = None THEN None ELSE touched[p] : p \in S}

\* inspect_git_worktree
GitReading ==
  [repo |-> TRUE, head |-> head,
   tracked |-> ModTimes({p \in Changed : committed[p] # None}),
   untracked |-> ModTimes({p \in Changed : committed[p] = None}),
   changed |-> Changed]

Points == IF \E p \in Path : index[p] # None THEN 1 ELSE 0

\* The facts about the collections that a build reads: their contract fits, and
\* without a sparse manifest the sparse branch is missing.
Scope(points, hasSparse) ==
  [scope |-> "code", points |-> points, exists |-> TRUE, current |-> TRUE, kind |-> "named",
   manifest |-> IF hasSparse THEN [schema |-> TRUE, contract |-> TRUE, analyzer |-> TRUE,
                                   encoder |-> TRUE, empty |-> FALSE, stale |-> FALSE]
                ELSE None,
   vector |-> hasSparse]

Fitting == [model |-> TRUE, schema |-> "same", template |-> "same", prefix |-> "same"]

Observation(s) ==
  [row |-> s.row, active |-> s.activeRepo = "this", activeRepo |-> s.activeRepo,
   otherBackend |-> s.otherBackend, contracts |-> [code |-> Fitting],
   scopes |-> {Scope(s.points, s.sparse)}, git |-> s.git,
   paths |-> [stale |-> s.dirty # {}, complete |-> s.complete],
   watcher |-> [running |-> s.watching], graph |-> s.graph, lease |-> s.lease]

\* _search_unavailable_codes, the gate of every search.
Gate == SearchUnavailableCodes(row, otherBackend, activeRepo = "this",
                               IndexContractIssue([code |-> Fitting]))

Lease == IF op = None THEN None ELSE op.by

-----------------------------------------------------------------------------
(* What goes on around the server *)

Spend(what, bound) == events[what] < bound /\ events' = [events EXCEPT ![what] = @ + 1]

Tick ==
  /\ clock < MaxTime
  /\ clock' = clock + 1
  /\ UNCHANGED <<world, store, server, caches, events>>

Edit(p) ==
  /\ Spend("edits", MaxEdits)
  /\ \E v \in 1..(events.edits + 2) \cup {None} :
       /\ v # file[p]
       /\ file' = [file EXCEPT ![p] = v]
  /\ touched' = [touched EXCEPT ![p] = clock]
  /\ UNCHANGED <<clock, committed, head, activeRepo, otherBackend, store, server, caches>>

Commit ==
  /\ Changed # {}
  /\ Spend("edits", MaxEdits)
  /\ head' = head + 1
  /\ committed' = file
  /\ UNCHANGED <<clock, file, touched, activeRepo, otherBackend, store, server, caches>>

\* activate_repo for another repository or back, set_role_backend.
Configure ==
  /\ Spend("ops", MaxOps)
  /\ \/ /\ activeRepo' \in {"this", "other"} \ {activeRepo}
        /\ UNCHANGED otherBackend
     \/ /\ otherBackend' = ~otherBackend
        /\ UNCHANGED activeRepo
  /\ UNCHANGED <<clock, file, touched, committed, head, store, server, caches>>

-----------------------------------------------------------------------------
(* Index operations.  Each is begun under the lease, moves points, writes  *)
(* the manifest's rows last, writes the registry's row and gives the lease *)
(* back.  One that raises on the way leaves points and rows apart.         *)

Begin(by) == op' = [by |-> by, at |-> "begun", head |-> head, time |-> clock]

\* One that raises has deleted and upserted points; the rows stay.
PointsMoved == index' \in {f \in [Path -> UNION {{None, index[p], file[p]} : p \in Path}] :
                            \A p \in Path : f[p] \in {None, index[p], file[p]}}

\* reindex_paths, rebuild_index, reconcile_index: points and rows follow the files.
\* A graph there is becomes stale.
Reindexed ==
  /\ index' = file /\ manifest' = file
  /\ graph' \in IF (index' = index /\ manifest' = manifest) \/ graph.state = "missing" THEN {graph}
                ELSE {g \in Graphs : g.state = "stale"}

\* upsert_repo as sync_registry_state calls it.
Synced(status, record) ==
  row' = [status |-> status, points |-> Points',
          commit |-> IF record THEN op.head ELSE row.commit,
          at |-> IF op.at \in {"indexed", "invalidated"} THEN op.time ELSE row.at]

Invalidated == cache' = None

\* The watcher's thread has found changes (watcher.py, main.py:255).
WatcherBegins ==
  /\ watching
  /\ op = None
  /\ \E p \in Path : ~Clean(p)
  /\ Begin("watcher")
  /\ UNCHANGED <<clock, world, index, manifest, row, sparse, graph, watching, server, caches, events>>

WatcherReindexes ==
  /\ op # None /\ op.by = "watcher" /\ op.at = "begun"
  /\ Reindexed
  /\ op' = [op EXCEPT !.at = "indexed", !.head = head, !.time = clock]
  /\ UNCHANGED <<clock, world, row, sparse, watching, server, caches, events>>

\* The callback: sync_registry_state clears the status cache, then writes the row.
WatcherInvalidates ==
  /\ op # None /\ op.by = "watcher" /\ op.at = "indexed"
  /\ Invalidated
  /\ op' = [op EXCEPT !.at = "invalidated"]
  /\ UNCHANGED <<clock, world, index, manifest, row, sparse, graph, watching, server,
                 call, seen, lexical, reply, events>>

WatcherSyncs ==
  /\ op # None /\ op.by = "watcher" /\ op.at = "invalidated"
  /\ UNCHANGED index
  /\ Synced("indexed", TRUE)
  /\ op' = [op EXCEPT !.at = "synced"]
  /\ UNCHANGED <<clock, world, manifest, sparse, graph, watching, server, caches, events>>

\* The reindex or the callback raised, or all is done.
WatcherEnds ==
  /\ op # None /\ op.by = "watcher" /\ op.at \in {"begun", "indexed", "synced"}
  /\ IF op.at = "begun" THEN PointsMoved ELSE UNCHANGED index
  /\ op' = None
  /\ UNCHANGED <<clock, world, manifest, row, sparse, graph, watching, server, caches, events>>

\* A rebuild by another process of this repository: this one's caches stay.
OtherBegins ==
  /\ op = None
  /\ Spend("ops", MaxOps)
  /\ Begin("other")
  /\ row' = [row EXCEPT !.status = "indexing"]
  /\ UNCHANGED <<clock, world, index, manifest, sparse, graph, watching, server, caches>>

OtherRebuilds ==
  /\ op # None /\ op.by = "other" /\ op.at = "begun"
  /\ Reindexed
  /\ sparse' = TRUE
  /\ op' = [op EXCEPT !.at = "indexed", !.head = head, !.time = clock]
  /\ UNCHANGED <<clock, world, row, watching, server, caches, events>>

OtherEnds ==
  /\ op # None /\ op.by = "other"
  /\ op' = None
  /\ \/ op.at = "indexed" /\ UNCHANGED index /\ Synced("indexed", TRUE)
     \/ op.at = "begun" /\ PointsMoved /\ Synced("error", FALSE)
  /\ UNCHANGED <<clock, world, manifest, sparse, graph, watching, server, caches, events>>

-----------------------------------------------------------------------------
(* The event loop *)

Receive(tool, from) ==
  /\ server = "ready"
  /\ call = None
  /\ call' = [tool |-> tool, from |-> from, at |-> "called", start |-> clock,
              now |-> clock, what |-> "status"]
  /\ reply' = None
  /\ UNCHANGED <<clock, world, store, server, seen, cache, lexical>>

In(tools, step) == call # None /\ call.tool \in tools /\ call.at = step

\* The payload: whether it is one, its status and what else it says; and, for the
\* properties only, whether its status was built without a lease there is.
Payload(ok, status, what, g, unread) ==
  /\ call' = None
  /\ seen' = None
  /\ reply' = [ok |-> ok, to |-> call.from, tool |-> call.tool,
               status |-> status, graph |-> g, what |-> what, unread |-> unread]

Answer(ok, status, what, g) == Payload(ok, status, what, g, FALSE)

Refuse == Answer(FALSE, None, "error", None)

(* index_status(), the tool and the last thing other tools do: now is read *)
(* first, then the cache is looked at, then the status is built.           *)

AskStatus(what) ==
  /\ call' = [call EXCEPT !.at = "status", !.now = clock, !.what = what]
  /\ UNCHANGED <<seen, reply>>

\* _status_cache_git_snapshot_matches: counts and samples, not modification times.
GitMatches == cache.git.head = head /\ cache.git.changed = Changed

\* A plausible slip: the flag of the cached status alone, not the lease of now.
LifecycleFlagOnly == ~cache.status.inProgress

\* _status_cache_lifecycle_matches
LifecycleMatches == ~cache.status.inProgress /\ op = None

\* A plausible slip: the age is not looked at.
ServableForever == cache # None /\ GitMatches /\ LifecycleMatches

Servable ==
  /\ cache # None
  /\ call.now - cache.ts <= TTL
  /\ GitMatches
  /\ LifecycleMatches

\* What a tool does with the status it asked for.  start_watcher may still hold the
\* lease (StartAgain) and gives it back.
Has(status, unread) ==
  /\ IF call.tool # "update_graph" THEN Payload(TRUE, status, call.what, None, unread)
     ELSE IF status.search
     THEN call' = [call EXCEPT !.at = "graph"] /\ seen' = None /\ UNCHANGED reply
     ELSE Answer(TRUE, None, "unavailable", graph)
  /\ op' = IF op # None /\ op.by = "tool" THEN None ELSE op

ServeCached ==
  /\ call # None /\ call.at = "status" /\ seen = None
  /\ Servable
  /\ Has(cache.status, FALSE)
  /\ UNCHANGED <<clock, world, index, manifest, row, sparse, graph, watching, server, cache, lexical, events>>

\* What has been read so far, and what is read next.
Further(s, r) == [x \in DOMAIN s \cup DOMAIN r |-> IF x \in DOMAIN s THEN s[x] ELSE r[x]]

\* The registry, the backend, the contracts and the counts.
BuildReadsRegistry ==
  /\ call # None /\ call.at = "status" /\ seen = None
  /\ ~Servable
  /\ seen' = [row |-> row, activeRepo |-> activeRepo, otherBackend |-> otherBackend,
              points |-> Points]
  /\ UNCHANGED <<clock, world, store, server, call, cache, lexical, reply, events>>

\* git, and the paths there are.
BuildReadsGit ==
  /\ seen # None /\ "git" \notin DOMAIN seen
  /\ seen' = Further(seen, [git |-> GitReading, listed |-> {p \in Path : file[p] # None}])
  /\ UNCHANGED <<clock, world, store, server, call, cache, lexical, reply, events>>

\* PathManifestStore.summarize reads the rows, which it takes for what is indexed,
BuildReadsRows ==
  /\ seen # None /\ "git" \in DOMAIN seen /\ "rows" \notin DOMAIN seen
  /\ \E complete \in ScanEnds :
       seen' = Further(seen,
                 [rows |-> manifest, complete |-> complete,
                  left |-> IF complete THEN seen.listed ELSE {},
                  dirty |-> {p \in Path \ seen.listed : complete /\ manifest[p] # None}])
  /\ UNCHANGED <<clock, world, store, server, call, cache, lexical, reply, events>>

\* and compares each file with its row.  One that cannot be read, or has a row and is
\* gone, is an error: it counts as stale, and the scan is not complete.
BuildScans(p) ==
  /\ seen # None /\ "rows" \in DOMAIN seen
  /\ p \in seen.left
  /\ \E readable \in ScanEnds :
       LET error == ~readable \/ (file[p] = None /\ seen.rows[p] # None)
           same == file[p] # None /\ file[p] = seen.rows[p]
       IN  seen' = [seen EXCEPT !.left = @ \ {p},
                                !.dirty = IF same /\ ~error THEN @ ELSE @ \cup {p},
                                !.complete = @ /\ ~error]
  /\ UNCHANGED <<clock, world, store, server, call, cache, lexical, reply, events>>

\* What is read last.
LastReading(unread) ==
  [watching |-> watching, sparse |-> sparse, graph |-> graph,
   lease |-> IF unread THEN None ELSE Lease]

\* A plausible slip: the status is stamped when it is ready, not when it was begun.
BuildEndsRestamped ==
  /\ seen # None /\ "rows" \in DOMAIN seen /\ seen.left = {}
  /\ \E unread \in {FALSE, Lease # None} :
       LET status == IndexStatus(Observation(Further(seen, LastReading(unread))))
       IN  /\ cache' = [ts |-> clock, status |-> status,
                        git |-> [head |-> seen.git.head, changed |-> seen.git.changed]]
           /\ Has(status, unread)
  /\ UNCHANGED <<clock, world, index, manifest, row, sparse, graph, watching, server, lexical, events>>

\* The watcher, the sparse branch, the graph and, last, the lease; one that cannot be
\* read is taken for none.  The status is cached under now.
BuildEnds ==
  /\ seen # None /\ "rows" \in DOMAIN seen /\ seen.left = {}
  /\ \E unread \in {FALSE, Lease # None} :
       LET status == IndexStatus(Observation(Further(seen, LastReading(unread))))
       IN  /\ cache' = [ts |-> call.now, status |-> status,
                        git |-> [head |-> seen.git.head, changed |-> seen.git.changed]]
           /\ Has(status, unread)
  /\ UNCHANGED <<clock, world, index, manifest, row, sparse, graph, watching, server, lexical, events>>

\* index_status and update_graph begin with it.
StatusAsked ==
  /\ In({"index_status", "update_graph"}, "called")
  /\ AskStatus("status")
  /\ UNCHANGED <<clock, world, store, server, cache, lexical, events>>

(* search_v2 with hybrid retrieval: the search, then the status.           *)

Indexed == {<<p, index[p]>> : p \in {q \in Path : index[q] # None}}

\* Dense hits come from the collections; the lexical branch too if they have sparse
\* vectors, and otherwise from _get_lexical_cache, filled by its first use.
Search ==
  /\ In({"search"}, "called")
  /\ IF Gate # {} THEN Refuse /\ UNCHANGED lexical
     ELSE /\ lexical' = IF sparse \/ lexical # None THEN lexical ELSE Indexed
          /\ AskStatus("hits")
  /\ UNCHANGED <<clock, world, store, server, cache, events>>

LexicalHits == IF sparse \/ lexical = None THEN Indexed ELSE lexical

(* The tools that work under the lease.                                    *)

Enter(tools) == In(tools, "called") /\ op = None

\* Another operation is in progress: acquire_lifecycle_lease raises.
TurnedAway ==
  /\ In({"reindex_paths", "start_watcher"}, "called")
  /\ op # None
  /\ ~otherBackend
  /\ IF call.tool = "start_watcher" /\ Gate = {} /\ op.by = "retry"
     THEN Answer(TRUE, None, IF watching THEN "retry" ELSE "in_progress", None)
     ELSE Refuse
  /\ UNCHANGED <<clock, world, store, server, cache, lexical, events>>

ReindexBegins ==
  /\ Enter({"reindex_paths"})
  /\ ~otherBackend
  /\ Begin("tool")
  /\ Invalidated
  /\ row' = [row EXCEPT !.status = "indexing"]
  /\ call' = [call EXCEPT !.at = "work"]
  /\ UNCHANGED <<clock, world, index, manifest, sparse, graph, watching, server, seen, lexical, reply, events>>

ReindexWorks ==
  /\ In({"reindex_paths"}, "work")
  /\ Reindexed
  /\ op' = [op EXCEPT !.at = "indexed", !.head = head, !.time = clock]
  /\ call' = [call EXCEPT !.at = "worked"]
  /\ UNCHANGED <<clock, world, row, sparse, watching, server, seen, cache, lexical, reply, events>>

\* invalidate_cache clears both caches, after a success only.
ReindexEnds ==
  /\ In({"reindex_paths"}, "work") \/ In({"reindex_paths"}, "worked")
  /\ Invalidated
  /\ \/ /\ call.at = "worked"
        /\ UNCHANGED index
        /\ lexical' = None
        /\ Synced("indexed", TRUE)
        /\ Answer(TRUE, None, "reindexed", None)
     \/ /\ call.at = "work"
        /\ PointsMoved
        /\ Synced("error", FALSE)
        /\ UNCHANGED lexical
        /\ Refuse
  /\ op' = None
  /\ UNCHANGED <<clock, world, manifest, sparse, graph, watching, server, events>>

\* Another backend is selected: nothing is done, and the answer says so.
SwitchPending ==
  /\ In({"reindex_paths", "start_watcher"}, "called")
  /\ otherBackend
  /\ AskStatus("switch")
  /\ UNCHANGED <<clock, world, store, server, cache, lexical, events>>

StartRefused ==
  /\ In({"start_watcher"}, "called")
  /\ ~otherBackend /\ Gate # {} /\ op = None
  /\ Refuse
  /\ UNCHANGED <<clock, world, store, server, cache, lexical, events>>

\* A running watcher: the row is written and the status read under the lease.
StartAgain ==
  /\ Enter({"start_watcher"})
  /\ Gate = {} /\ watching
  /\ Begin("tool")
  /\ Invalidated
  /\ row' = [row EXCEPT !.status = "indexed", !.points = Points]
  /\ AskStatus("started")
  /\ UNCHANGED <<clock, world, index, manifest, sparse, graph, watching, server, lexical, events>>

StartReconciles ==
  /\ Enter({"start_watcher"})
  /\ Gate = {} /\ ~watching
  /\ Begin("tool")
  /\ Reindexed
  /\ call' = [call EXCEPT !.at = "work"]
  /\ UNCHANGED <<clock, world, row, sparse, watching, server, seen, cache, lexical, reply, events>>

\* The snapshot or the repair plan exceeds its bounds, or the reconcile raises.
StartGivesUp ==
  /\ Enter({"start_watcher"})
  /\ Gate = {} /\ ~watching
  /\ \/ Answer(TRUE, None, "permission", None) /\ UNCHANGED index
     \/ Refuse /\ PointsMoved
  /\ UNCHANGED <<clock, world, manifest, row, sparse, graph, op, watching, server, cache, lexical, events>>

\* The thread is started, then the row written and the lease given back.
StartStarts ==
  /\ In({"start_watcher"}, "work")
  /\ watching' = TRUE
  /\ Invalidated
  /\ row' = [status |-> "indexed", points |-> Points, commit |-> head, at |-> op.time]
  /\ op' = None
  /\ AskStatus("started")
  /\ UNCHANGED <<clock, world, index, manifest, sparse, graph, server, lexical, events>>

\* Under the lease, or turned away by its holder.  Bounds, other reasons to skip, an
\* error.
UpdateGraph ==
  /\ In({"update_graph"}, "graph")
  /\ IF op # None THEN UNCHANGED graph /\ Answer(TRUE, None, "busy", graph)
     ELSE \/ /\ graph' \in {g \in Graphs : g.state = "ready"}
             /\ Answer(TRUE, None, "updated", graph')
          \/ /\ UNCHANGED graph
             /\ \/ \E what \in {"bounds", "skipped"} : Answer(TRUE, None, what, graph)
                \/ Refuse
  /\ UNCHANGED <<clock, world, index, manifest, row, sparse, op, watching, server, cache, lexical, events>>

-----------------------------------------------------------------------------
(* The process, and an operation a dead process left behind: start_watcher  *)
(* under the key the script uses too.                                      *)

Bootstrapped ==
  /\ server = "bootstrap"
  /\ server' \in {"ready", "bootstrap_failed"}
  /\ UNCHANGED <<clock, world, store, caches, events>>

AbandonedExpires ==
  /\ op # None /\ op.by = "retry"
  /\ op' = None
  /\ UNCHANGED <<clock, world, index, manifest, row, sparse, graph, watching, server, caches, events>>

AgentCalls ==
  \E tool \in AgentTools :
    /\ Spend("ops", MaxOps)
    /\ Receive(tool, "agent")

Around ==
  \/ Tick \/ \E p \in Path : Edit(p)
  \/ Commit \/ Configure
  \/ WatcherBegins \/ WatcherReindexes \/ WatcherInvalidates \/ WatcherSyncs \/ WatcherEnds
  \/ OtherBegins \/ OtherRebuilds \/ OtherEnds
  \/ Bootstrapped \/ AbandonedExpires

Loop ==
  \/ StatusAsked \/ ServeCached \/ BuildReadsRegistry \/ BuildReadsGit \/ BuildReadsRows
  \/ \E p \in Path : BuildScans(p)
  \/ BuildEnds \/ Search \/ TurnedAway
  \/ ReindexBegins \/ ReindexWorks \/ ReindexEnds
  \/ SwitchPending \/ StartRefused \/ StartAgain \/ StartReconciles \/ StartGivesUp \/ StartStarts
  \/ UpdateGraph

\* What the observers note of every step.
Observe ==
  /\ lastClean' = [p \in Path |-> IF file'[p] = manifest'[p] THEN clock' ELSE lastClean[p]]
  /\ lastSearchable' = IF Gate' = {} THEN clock' ELSE lastSearchable
  /\ calm' = IF call = None THEN op' = None ELSE calm \/ op' = None

\* The files are new: indexed and not committed.
Init ==
  /\ clock = 0
  /\ file = [p \in Path |-> 1] /\ touched = [p \in Path |-> 0]
  /\ committed = [p \in Path |-> None]
  /\ head = 0
  /\ index = file /\ manifest = file
  /\ row = [status |-> "indexed", points |-> 1, commit |-> 0, at |-> 0]
  /\ activeRepo = "this" /\ otherBackend = FALSE
  /\ sparse \in Sparse
  /\ graph \in Graphs
  /\ watching = FALSE
  /\ server \in {"down", "bootstrap", "ready"}
  /\ op \in {None} \cup (IF server = "ready"
                         THEN {[by |-> "retry", at |-> "begun", head |-> 0, time |-> 0]} ELSE {})
  /\ call = None /\ seen = None /\ cache = None /\ lexical = None /\ reply = None
  /\ events = [edits |-> 0, ops |-> 0]
  /\ lastClean = [p \in Path |-> 0] /\ lastSearchable = 0 /\ calm = FALSE

-----------------------------------------------------------------------------
(* Properties *)

\* The type invariant of the server and of what is around it: each holder of the
\* lease is one that takes it, a status is built for a call that asked for one, and a
\* build never has the lexical cache or a cached status from the future.
CachesTypeOK ==
  /\ clock \in 0..MaxTime
  /\ \A q \in Path : touched[q] \in 0..clock
  /\ row.status \in {"indexed", "indexing", "error"} /\ row.at \in 0..clock
  /\ row.commit \in 0..head
  /\ op # None => op \in Operations /\ (op.at # "begun" => op.by # "retry")
  /\ server \in {"down", "bootstrap", "ready", "bootstrap_failed"}
  /\ call # None => server = "ready" /\ call.at \in {"called", "status", "work", "worked", "graph"}
  /\ seen # None => call # None /\ call.at = "status"
  /\ cache # None => cache.ts \in 0..clock
  /\ lexical # None => lexical \subseteq Path \X (1..(MaxEdits + 1))
  /\ reply # None => reply.to \in {"agent", "script"} /\ (reply.ok \/ reply.status = None)

\* An answer with a status.
Tells == reply' # reply /\ reply' # None /\ reply'.status # None

\* A status that does not call the index stale, and had the coverage to say so, is true
\* of every file and its row in the manifest at some moment no longer ago than the
\* cache may keep it.  It says nothing of the points: an operation that was cut off
\* between them and the rows leaves them apart (RepoIndexer's NoFalseClean).
FreshAnswersAreRecent ==
  [][\A p \in Path :
       Tells
       /\ ~reply'.status.unknown /\ ~reply'.status.stale
       => lastClean[p] >= call.start - TTL]_vars

\* A status that says search is available, and an update of the graph that was let
\* through by one, saw what was so at some moment no longer ago than that.
SearchableAnswersAreRecent ==
  [][/\ Tells /\ reply'.status.search
        => lastSearchable >= call.start - TTL
     /\ graph' # graph /\ In({"update_graph"}, "graph") => lastSearchable >= call.start - TTL]_vars

\* A status that shows no operation in progress came from a moment of the call when
\* there was none, cached or not; except one that could not read the lease.
NoHiddenOperation ==
  [][Tells
     /\ ~reply'.status.inProgress => calm \/ reply'.unread]_vars

\* Without an operation in progress, or one that was cut off, search answers from what
\* is indexed.
HitsAreIndexed == op = None /\ Gate = {} /\ index = manifest => LexicalHits = Indexed
=============================================================================
