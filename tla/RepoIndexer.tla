---------------------------- MODULE RepoIndexer ----------------------------
(***************************************************************************)
(* The repository indexer: the working tree, the vector collections that   *)
(* mirror it, and the path manifest from which status decides whether the  *)
(* mirror is fresh (indexer.py, path_manifest.py, qdrant_store.py).        *)
(*                                                                         *)
(* One operation mutates the index at a time: that is what the lifecycle   *)
(* lease is for (LifecycleLease).  An editor changes the tree meanwhile,   *)
(* and an operation may end at any point by an exception or a crash.       *)
(* Every Qdrant call, every SQLite transaction and every file system call  *)
(* is a step of its own.                                                   *)
(***************************************************************************)
EXTENDS Naturals, FiniteSets

CONSTANTS
  Path,       \* the indexable repository paths, numbered in sorted order
  ScopeOf,    \* classify_scope: the scope of each path
  Content,    \* what a file may contain; stands for its bytes and their hash
  Chunks,     \* how many chunks each content is cut into
  Size,       \* the length in bytes of each content
  None,       \* nothing: no file, no reading
  NoRow,      \* no row in the path manifest
  Deleted,    \* a row whose index_state is deleted
  MaxEdits,   \* bound on the editor's steps
  MaxPaths,   \* SEMANTIC_MCP_RECONCILE_MAX_PATHS
  MaxPoints   \* SEMANTIC_MCP_RECONCILE_MAX_POINTS_DELETED

Scope == {"code", "docs"}
Schema == {"legacy", "current"}
Mtime == 0..MaxEdits
Version == [content : Content, mtime : Mtime]
Row == [content : Content, mtime : Mtime, size : Nat, chunks : Nat]

ASSUME IndexerAssumption ==
  /\ Path \subseteq Nat /\ IsFiniteSet(Path)
  /\ ScopeOf \in [Path -> Scope]
  /\ Chunks \in [Content -> Nat]
  /\ Size \in [Content -> Nat]
  /\ None \notin Nat /\ None \notin Version
  /\ NoRow \notin Row /\ Deleted \notin Row
  /\ MaxEdits \in Nat /\ MaxPaths \in Nat /\ MaxPoints \in Nat

VARIABLES
  tree,         \* the file at each path, None without one
  edits,        \* the editor's steps so far: the mtime of the last one
  collections,  \* the Qdrant collections that exist, as <<scope, schema>>
  points,       \* the points in them
  manifest,     \* the path_manifest row of each path
  covered,      \* coverage_complete in manifest_metadata
  mode,         \* the operation under way
  pc,           \* where it is
  seen,         \* current_paths: the mtimes a reconcile has read
  targets,      \* the paths it works on
  todo,         \* those it has not visited yet
  reading,      \* the path being read
  bytes,        \* its bytes, as read
  snap,         \* the snapshots taken so far
  pending,      \* the points not upserted yet
  scopes,       \* the scopes a rebuild has not rewritten yet
  scope         \* the scope it is rewriting

\* Observers, read by no action of the code: `quiet`, no edit since the
\* operation started; `settled`, which operation has ended quietly with no edit
\* since; `misread`, snapshots whose bytes and mtime belong to two versions;
\* `torn`, paths indexed from one; `damaged`, paths whose points an operation has
\* begun to replace and whose rows it did not come to write, because it was
\* interrupted or its deletes were not confirmed; `lost`, points it has deleted.
VARIABLES quiet, settled, misread, torn, damaged, lost

index == <<collections, points, manifest, covered>>
work == <<seen, targets, todo, reading, bytes, snap, pending, scopes, scope, misread>>
vars == <<tree, edits, index, mode, pc, work, quiet, settled, torn, damaged, lost>>

Point == [schema : Schema, path : Path, content : Content, mtime : Mtime, idx : Nat]

TypeOK ==
  /\ tree \in [Path -> Version \cup {None}]
  /\ edits \in Mtime
  /\ collections \subseteq Scope \X Schema
  /\ \A pt \in points \cup pending : pt \in Point
  /\ manifest \in [Path -> Row \cup {NoRow, Deleted}]
  /\ covered \in BOOLEAN
  /\ mode \in {"idle", "reconcile", "reindex", "rebuild"}
  /\ pc \in {"idle", "scan", "next", "stat", "upsert", "zero", "deleted", "scope", "create"}
  /\ seen \in [Path -> Mtime \cup {None}]
  /\ targets \subseteq Path /\ todo \subseteq Path
  /\ reading \in Path \cup {None}
  /\ bytes \in Content \cup {None}
  /\ snap \in [Path -> Version \cup {None}]
  /\ scopes \subseteq Scope /\ scope \in Scope \cup {None}
  /\ quiet \in BOOLEAN /\ settled \in {"no", "reconcile", "rebuild"}
  /\ misread \subseteq Path /\ torn \subseteq Path /\ damaged \subseteq Path
  /\ lost \in Nat

-----------------------------------------------------------------------------
(* What is stored, and what readers see of it *)

\* read_collection_name: the current collection of s, else the legacy one.
ReadSchema(s) == IF <<s, "current">> \in collections THEN "current" ELSE "legacy"

\* What scroll_chunks yields for p.
Readable(p) == {pt \in points : pt.path = p /\ pt.schema = ReadSchema(ScopeOf[p])}

HasCurrent(p) == <<ScopeOf[p], "current">> \in collections

\* The points of a version of p.
PointsOf(p, v) ==
  [schema : {"current"}, path : {p}, content : {v.content}, mtime : {v.mtime},
   idx : 1..Chunks[v.content]]

\* The manifest row of a version that was read and chunked.
RowOf(v) == [content |-> v.content, mtime |-> v.mtime,
             size |-> Size[v.content], chunks |-> Chunks[v.content]]

HasRow(p) == manifest[p] \notin {NoRow, Deleted}

\* Wrong variant of DeletesConfirmed: whatever the store answered.
DeletesTrusted == TRUE

\* delete_file_chunks answered True for every scope: a scope with a current
\* collection has been purged of the path, one with none has nothing readable.
DeletesConfirmed ==
  \A s \in Scope : <<s, "current">> \in collections \/ <<s, "legacy">> \notin collections

\* The repository at first start: never indexed, or indexed by an older schema.
Init ==
  /\ tree \in [Path -> [content : Content, mtime : {0}] \cup {None}]
  /\ edits = 0
  /\ \E indexed \in BOOLEAN :
       LET old == {pt \in UNION {PointsOf(p, tree[p]) : p \in {q \in Path : tree[q] # None}} : indexed}
       IN  /\ points = {[pt EXCEPT !.schema = "legacy"] : pt \in old}
           /\ collections = {<<ScopeOf[pt.path], "legacy">> : pt \in old}
  /\ manifest = [p \in Path |-> NoRow]
  /\ covered = FALSE
  /\ mode = "idle" /\ pc = "idle"
  /\ seen = [p \in Path |-> None] /\ snap = [p \in Path |-> None]
  /\ targets = {} /\ todo = {} /\ pending = {} /\ scopes = {} /\ scope = None
  /\ reading = None /\ bytes = None
  /\ quiet = TRUE /\ settled = "no" /\ lost = 0
  /\ misread = {} /\ torn = {} /\ damaged = {}

-----------------------------------------------------------------------------
(* The editor *)

Write(p, c) ==
  /\ edits < MaxEdits
  /\ edits' = edits + 1
  /\ tree' = [tree EXCEPT ![p] = [content |-> c, mtime |-> edits + 1]]
  /\ quiet' = (mode = "idle") /\ settled' = "no"
  /\ UNCHANGED <<index, mode, pc, work, torn, damaged, lost>>

Remove(p) ==
  /\ edits < MaxEdits /\ tree[p] # None
  /\ edits' = edits + 1
  /\ tree' = [tree EXCEPT ![p] = None]
  /\ quiet' = (mode = "idle") /\ settled' = "no"
  /\ UNCHANGED <<index, mode, pc, work, torn, damaged, lost>>

-----------------------------------------------------------------------------
(* How operations begin and end *)

Begin(m, at) ==
  /\ mode = "idle"
  /\ mode' = m /\ pc' = at
  /\ settled' = "no"
  /\ UNCHANGED <<tree, edits, index, quiet, torn, damaged, lost>>

\* The operation returns or is cut short; its local state is gone.
End(kind) ==
  /\ mode' = "idle" /\ pc' = "idle"
  /\ seen' = [p \in Path |-> None] /\ snap' = [p \in Path |-> None]
  /\ targets' = {} /\ todo' = {} /\ pending' = {} /\ scopes' = {} /\ scope' = None
  /\ reading' = None /\ bytes' = None /\ misread' = {}
  /\ quiet' = TRUE /\ lost' = 0
  /\ settled' = IF quiet THEN kind ELSE "no"
  /\ UNCHANGED <<tree, edits>>

\* What an interrupted operation leaves half replaced.
HalfReplaced ==
  CASE pc \in {"scope", "create"} ->
         {p \in Path : ScopeOf[p] \notin scopes}
    [] mode \in {"reconcile", "reindex"} -> targets \ todo
    [] OTHER -> {}

\* An exception of the file system, the embedding backend, Qdrant or SQLite, or
\* the death of the process: nothing that was stored is undone.
Interrupt ==
  /\ mode # "idle"
  /\ End("no")
  /\ damaged' = damaged \cup HalfReplaced
  /\ UNCHANGED <<index, torn>>

-----------------------------------------------------------------------------
(* reconcile_index *)

StartReconcile ==
  /\ Begin("reconcile", "scan")
  /\ todo' = Path
  /\ UNCHANGED <<seen, targets, reading, bytes, snap, pending, scopes, scope, misread>>

\* The paths are visited in order.
IsNext(p) == p \in todo /\ \A q \in todo : p <= q

\* The scan meets p, or passes the place where it is not.
ScanPath(p) ==
  /\ pc = "scan" /\ IsNext(p)
  /\ seen' = [seen EXCEPT ![p] = IF tree[p] = None THEN None ELSE tree[p].mtime]
  /\ todo' = todo \ {p}
  /\ UNCHANGED <<tree, edits, index, mode, pc, targets, reading, bytes, snap, pending,
                 scopes, scope, misread, quiet, settled, torn, damaged, lost>>

\* A path without points counts as indexed by its row when that row is ready
\* and has no chunks.
ZeroRow(p) == HasRow(p) /\ manifest[p].chunks = 0 /\ seen[p] # None

\* The mtime p is indexed at: that of the first of its points.
IndexedMtime(p) ==
  IF Readable(p) # {} THEN (CHOOSE pt \in Readable(p) : TRUE).mtime
  ELSE IF ZeroRow(p) THEN manifest[p].mtime
  ELSE None

\* Wrong variant of Touched: forgets the files that are gone.
TouchedInTree == {p \in Path : seen[p] # None /\ IndexedMtime(p) # seen[p]}

\* New and changed files, and indexed paths whose file is gone.
Touched == {p \in Path : IndexedMtime(p) # seen[p]}

PointsToDelete == Cardinality(UNION {Readable(p) : p \in Touched})

\* Wrong variant of WithinBounds: off by one.
WithinBoundsPlusOne == Cardinality(Touched) <= MaxPaths /\ PointsToDelete <= MaxPoints + 1

WithinBounds == Cardinality(Touched) <= MaxPaths /\ PointsToDelete <= MaxPoints

\* A bound on the scan or on its duration is hit, or the plan exceeds a bound:
\* report it and touch nothing.
StopAtBounds ==
  /\ pc = "scan"
  /\ End("no")
  /\ UNCHANGED <<index, torn, damaged>>

\* The plan is small enough: reindex what it names.
Repair ==
  /\ pc = "scan" /\ todo = {}
  /\ Touched # {} /\ WithinBounds
  /\ targets' = Touched /\ todo' = Touched
  /\ seen' = [p \in Path |-> None]
  /\ pc' = "next"
  /\ UNCHANGED <<tree, edits, index, mode, reading, bytes, snap, pending,
                 scopes, scope, misread, quiet, settled, torn, damaged, lost>>

\* The row that backfilling gives p: its hash and mtime come from the first of
\* its points, or from the row of a file without chunks; its size from the tree.
BackfilledRow(p) ==
  LET from == IF Readable(p) # {} THEN CHOOSE pt \in Readable(p) : TRUE ELSE manifest[p]
  IN  [content |-> from.content, mtime |-> from.mtime,
       size |-> Size[tree[p].content], chunks |-> Cardinality(Readable(p))]

\* _backfill_complete_path_manifest_from_index_snapshot: nothing was touched, so
\* write every row anew and declare the coverage complete, unless a file that
\* was scanned has vanished since.
Backfill ==
  /\ pc = "scan" /\ todo = {}
  /\ Touched = {}
  /\ LET present == {p \in Path : seen[p] # None} IN
     IF \A p \in present : tree[p] # None
     THEN /\ manifest' = [p \in Path |-> IF p \in present THEN BackfilledRow(p) ELSE NoRow]
          /\ covered' = TRUE
     ELSE UNCHANGED <<manifest, covered>>
  /\ End("reconcile")
  /\ UNCHANGED <<collections, points, torn, damaged>>

-----------------------------------------------------------------------------
(* reindex_paths: delete, read and chunk each path; then upsert; then commit *)

StartReindex(paths) ==
  /\ Begin("reindex", "next")
  /\ targets' = paths /\ todo' = paths
  /\ UNCHANGED <<seen, reading, bytes, snap, pending, scopes, scope, misread>>

\* p is next: its bytes are read, or there is no file.
ReadBytes(p) ==
  /\ IsNext(p)
  /\ todo' = todo \ {p}
  /\ IF tree[p] = None
     THEN UNCHANGED <<reading, bytes, pc>>
     ELSE reading' = p /\ bytes' = tree[p].content /\ pc' = "stat"

\* Wrong variant of DropAndRead: deletes only the points of a file that is gone.
DropIfGoneAndRead(p) ==
  /\ pc = "next" /\ mode # "rebuild"
  /\ points' = {pt \in points : pt.path # p \/ pt.schema # "current" \/ tree[p] # None}
  /\ ReadBytes(p)
  /\ UNCHANGED <<tree, edits, collections, manifest, covered, mode, seen, targets,
                 snap, pending, scopes, scope, misread, quiet, settled, torn, damaged, lost>>

\* delete_file_chunks in every scope, then read.  (An edit between the two is an
\* edit before both: deleting does not look at the tree.)
DropAndRead(p) ==
  /\ pc = "next" /\ mode # "rebuild"
  /\ LET dropped == {pt \in points : pt.path = p /\ pt.schema = "current"}
     IN  /\ points' = points \ dropped
         /\ lost' = IF mode = "reconcile" THEN lost + Cardinality(dropped) ELSE 0
  /\ ReadBytes(p)
  /\ UNCHANGED <<tree, edits, collections, manifest, covered, mode, seen, targets,
                 snap, pending, scopes, scope, misread, quiet, settled, torn, damaged>>

\* Wrong variant of StatFile: stamps the snapshot with the current time.
StampFile ==
  /\ pc = "stat" /\ tree[reading] # None
  /\ snap' = [snap EXCEPT ![reading] = [content |-> bytes, mtime |-> edits + 1]]
  /\ reading' = None /\ bytes' = None
  /\ pc' = "next"
  /\ UNCHANGED <<tree, edits, index, mode, seen, targets, todo, pending, scopes, scope,
                 misread, quiet, settled, torn, damaged, lost>>

\* The second half of _read_file_snapshot: the mtime is read after the bytes.
\* (A file that has vanished in between raises: see Interrupt.)
StatFile ==
  /\ pc = "stat" /\ tree[reading] # None
  /\ snap' = [snap EXCEPT ![reading] = [content |-> bytes, mtime |-> tree[reading].mtime]]
  /\ misread' = IF bytes = tree[reading].content THEN misread ELSE misread \cup {reading}
  /\ reading' = None /\ bytes' = None
  /\ pc' = "next"
  /\ UNCHANGED <<tree, edits, index, mode, seen, targets, todo, pending, scopes, scope,
                 quiet, settled, torn, damaged, lost>>

\* Wrong variant of Upserted: takes skipped points for upserted ones.
UpsertedOrSkipped == {p \in targets : snap[p] # None /\ Chunks[snap[p].content] > 0}

\* The targets with chunks whose scope has a current collection; the points of
\* the others are skipped with a warning.
Upserted == {p \in targets : snap[p] # None /\ Chunks[snap[p].content] > 0 /\ HasCurrent(p)}
Empty == {p \in targets : snap[p] # None /\ Chunks[snap[p].content] = 0}
Gone == {p \in targets : snap[p] = None}

BeginUpsert ==
  /\ pc = "next" /\ mode # "rebuild" /\ todo = {}
  /\ pending' = UNION {PointsOf(p, snap[p]) : p \in Upserted}
  /\ pc' = "upsert"
  /\ UNCHANGED <<tree, edits, index, mode, seen, targets, todo, reading, bytes, snap,
                 scopes, scope, misread, quiet, settled, torn, damaged, lost>>

\* upsert_chunks: a batch is on the server; code before docs, the chunks of a
\* file in order.
UpsertPoint(pt) ==
  /\ pt \in pending
  /\ \A q \in pending : q.path = pt.path => q.idx >= pt.idx
  /\ ScopeOf[pt.path] = "docs" => \A q \in pending : ScopeOf[q.path] = "docs"
  /\ points' = points \cup {pt}
  /\ pending' = pending \ {pt}
  /\ UNCHANGED <<tree, edits, collections, manifest, covered, mode, pc, seen, targets, todo,
                 reading, bytes, snap, scopes, scope, misread, quiet, settled, torn,
                 damaged, lost>>

\* The paths in `ready` get the rows of their snapshots.
Commit(ready) ==
  /\ manifest' = [p \in Path |-> IF p \in ready THEN RowOf(snap[p]) ELSE manifest[p]]
  /\ torn' = (torn \ ready) \cup (misread \cap ready)
  /\ damaged' = damaged \ ready

\* upsert_ready_records for the paths that were upserted, in one transaction.
CommitReady ==
  /\ pc = "upsert" /\ pending = {}
  /\ Commit(IF DeletesConfirmed THEN Upserted ELSE {})
  /\ pc' = "zero"
  /\ UNCHANGED <<tree, edits, collections, points, covered, mode, work, quiet, settled, lost>>

\* upsert_ready_records for the files without chunks.
CommitZero ==
  /\ pc = "zero"
  /\ Commit(IF DeletesConfirmed THEN Empty ELSE {})
  /\ pc' = "deleted"
  /\ UNCHANGED <<tree, edits, collections, points, covered, mode, work, quiet, settled, lost>>

\* mark_deleted for the paths without a file.
CommitDeleted ==
  /\ pc = "deleted"
  /\ IF DeletesConfirmed
     THEN /\ manifest' = [p \in Path |-> IF p \in Gone THEN Deleted ELSE manifest[p]]
          /\ torn' = torn \ Gone
          /\ damaged' = damaged \ Gone
     ELSE /\ UNCHANGED <<manifest, torn>>
          /\ damaged' = damaged \cup targets
  /\ End(IF mode = "reconcile" THEN "reconcile" ELSE "no")
  /\ UNCHANGED <<collections, points, covered>>

-----------------------------------------------------------------------------
(* rebuild_index *)

StartRebuild ==
  /\ Begin("rebuild", "next")
  /\ targets' = Path /\ todo' = Path
  /\ UNCHANGED <<seen, reading, bytes, snap, pending, scopes, scope, misread>>

VisitPath(p) ==
  /\ pc = "next" /\ mode = "rebuild"
  /\ ReadBytes(p)
  /\ UNCHANGED <<tree, edits, index, mode, seen, targets, snap, pending, scopes,
                 scope, misread, quiet, settled, torn, damaged, lost>>

BeginScopes ==
  /\ pc = "next" /\ mode = "rebuild" /\ todo = {}
  /\ scopes' = Scope
  /\ pc' = "scope"
  /\ UNCHANGED <<tree, edits, index, mode, seen, targets, todo, reading, bytes, snap,
                 pending, scope, misread, quiet, settled, torn, damaged, lost>>

ScopePoints(s) ==
  UNION {PointsOf(p, snap[p]) : p \in {q \in Path : ScopeOf[q] = s /\ snap[q] # None}}

\* The scopes come in the order code, docs, each upserted before the next.
NextScope(s) ==
  /\ pc = "scope" /\ pending = {}
  /\ s \in scopes /\ (s = "docs" => "code" \notin scopes)

\* delete_collection: a scope without chunks loses its collections of every schema.
ClearScope(s) ==
  /\ NextScope(s) /\ ScopePoints(s) = {}
  /\ scopes' = scopes \ {s}
  /\ collections' = {k \in collections : k[1] # s}
  /\ points' = {pt \in points : ScopeOf[pt.path] # s}
  /\ UNCHANGED <<tree, edits, manifest, covered, mode, pc, seen, targets, todo, reading, bytes,
                 snap, pending, scope, misread, quiet, settled, torn, damaged, lost>>

\* recreate_collection, first call: the chunks are embedded, the current
\* collection is deleted; a legacy one stays.
DropCurrent(s) ==
  /\ NextScope(s) /\ ScopePoints(s) # {}
  /\ scopes' = scopes \ {s} /\ scope' = s
  /\ collections' = collections \ {<<s, "current">>}
  /\ points' = {pt \in points : ScopeOf[pt.path] # s \/ pt.schema = "legacy"}
  /\ pc' = "create"
  /\ UNCHANGED <<tree, edits, manifest, covered, mode, seen, targets, todo, reading, bytes,
                 snap, pending, misread, quiet, settled, torn, damaged, lost>>

\* recreate_collection, second call.
CreateCurrent ==
  /\ pc = "create"
  /\ collections' = collections \cup {<<scope, "current">>}
  /\ pending' = ScopePoints(scope)
  /\ scope' = None
  /\ pc' = "scope"
  /\ UNCHANGED <<tree, edits, points, manifest, covered, mode, seen, targets, todo, reading,
                 bytes, snap, scopes, misread, quiet, settled, torn, damaged, lost>>

\* Wrong variant of RebuiltManifest: upserts instead of replacing.
RebuiltOverOldManifest ==
  [p \in Path |-> IF snap[p] = None THEN manifest[p] ELSE RowOf(snap[p])]

\* replace_all: the rows of exactly the files that were read.
RebuiltManifest == [p \in Path |-> IF snap[p] = None THEN NoRow ELSE RowOf(snap[p])]

CommitRebuild ==
  /\ pc = "scope" /\ scopes = {} /\ pending = {}
  /\ manifest' = RebuiltManifest
  /\ covered' = TRUE
  /\ torn' = misread /\ damaged' = {}
  /\ End("rebuild")
  /\ UNCHANGED <<collections, points>>

-----------------------------------------------------------------------------
Editor == \E p \in Path : Remove(p) \/ \E c \in Content : Write(p, c)

Reconcile ==
  \/ StartReconcile
  \/ \E p \in Path : ScanPath(p)
  \/ StopAtBounds \/ Repair \/ Backfill

Reindex ==
  \/ \E paths \in SUBSET Path \ {{}} : StartReindex(paths)
  \/ \E p \in Path : DropAndRead(p)
  \/ BeginUpsert \/ CommitReady \/ CommitZero \/ CommitDeleted

Rebuild ==
  \/ StartRebuild
  \/ \E p \in Path : VisitPath(p)
  \/ BeginScopes \/ CreateCurrent \/ CommitRebuild
  \/ \E s \in Scope : ClearScope(s) \/ DropCurrent(s)

Next ==
  \/ Editor \/ Interrupt
  \/ Reconcile \/ Reindex \/ Rebuild
  \/ StatFile
  \/ \E pt \in pending : UpsertPoint(pt)

Spec == Init /\ [][Next]_vars

-----------------------------------------------------------------------------
(* Properties *)

\* What readers see of p, and what they would see if it were indexed exactly.
Shown(p) == {[content |-> pt.content, mtime |-> pt.mtime, idx |-> pt.idx] : pt \in Readable(p)}
Expected(p) ==
  IF tree[p] = None THEN {}
  ELSE [content : {tree[p].content}, mtime : {tree[p].mtime}, idx : 1..Chunks[tree[p].content]]

\* The same, whatever the mtimes.
ShownContent(p) == {<<pt.content, pt.idx>> : pt \in Readable(p)}
ExpectedContent(p) == {<<x.content, x.idx>> : x \in Expected(p)}

\* summarize(): the counts of missing, stale and deleted paths are zero and the
\* coverage is complete.  A row is compared by size and mtime first, and by hash
\* only when one of them differs.
RowIsStale(p) ==
  /\ manifest[p].size # Size[tree[p].content] \/ manifest[p].mtime # tree[p].mtime
  /\ manifest[p].content # tree[p].content
ReportsClean ==
  /\ covered
  /\ \A p \in Path : HasRow(p) <=> tree[p] # None
  /\ \A p \in Path : tree[p] # None => ~RowIsStale(p)

\* Search never mixes two versions of one file: the points of a path in one
\* collection all come from the same reading of it.
OneVersionPerPath ==
  \A p1, p2 \in points :
    p1.path = p2.path /\ p1.schema = p2.schema
      => p1.content = p2.content /\ p1.mtime = p2.mtime

\* The manifest never runs ahead of the store: an index operation makes a row
\* ready only when every point of that version is readable and nothing else is,
\* and deleted only when no point of the path is.  (Backfilling copies.)
ManifestFollowsStore ==
  [][\A p \in Path :
       manifest'[p] # manifest[p] /\ pc # "scan" =>
         /\ manifest'[p] \notin {NoRow, Deleted} =>
              /\ Shown(p) = {[content |-> pt.content, mtime |-> pt.mtime, idx |-> pt.idx] :
                               pt \in PointsOf(p, manifest'[p])}
              /\ manifest'[p].chunks = Cardinality(Readable(p))
         /\ manifest'[p] = Deleted => Readable(p) = {}]_vars

\* A rebuild that nobody disturbed leaves the index and the manifest an exact
\* image of the tree, whatever state they were in before.
RebuildIsExact ==
  settled = "rebuild" =>
    /\ covered
    /\ \A p \in Path : Shown(p) = Expected(p)
    /\ \A p \in Path : manifest[p] = IF tree[p] = None THEN NoRow ELSE RowOf(tree[p])

\* A reconcile that nobody disturbed leaves every path of a current collection
\* exactly indexed, but for those whose reading was torn or whose replacement was
\* left unfinished before.
ReconcileRepairs ==
  settled = "reconcile" =>
    \A p \in Path \ (torn \cup damaged) : HasCurrent(p) => Shown(p) = Expected(p)

\* When no operation runs and status reports the paths clean, search shows the
\* text of every file, with the same two exceptions.
CleanIsTrue ==
  mode = "idle" /\ ReportsClean =>
    \A p \in Path \ (torn \cup damaged) : ShownContent(p) = ExpectedContent(p)

\* A reconcile never deletes more points nor reworks more paths than its bounds
\* allow, however the tree changes after it was scanned.
ReconcileWithinBounds ==
  mode = "reconcile" => lost <= MaxPoints /\ Cardinality(targets) <= MaxPaths

\* What docs/specifications/P6.A (7.5) says of a crash: status may report stale
\* or unknown paths afterwards, but never a false clean state.
NoFalseClean ==
  mode = "idle" /\ ReportsClean /\ torn = {}
    => \A p \in Path : ShownContent(p) = ExpectedContent(p)
=============================================================================
