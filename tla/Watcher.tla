------------------------------- MODULE Watcher -------------------------------
(***************************************************************************)
(* The polling watcher and the operations that start, stop and overtake it *)
(* (watcher.py, lifecycle/watcher_ops.py, lifecycle/index_ops.py).         *)
(*                                                                         *)
(* A file is its mtime, and every file has chunks; the index of a path is  *)
(* the mtime of the version whose points are readable, None when there are *)
(* none (RepoIndexer has the detail, and the collections of an older       *)
(* schema, which are left out here).  The lifecycle lease is a lock here   *)
(* (LifecycleLease has the detail); another process may hold it.  A        *)
(* polling thread that outlives the stop() that asked it to end stays an   *)
(* actor of its own.                                                       *)
(***************************************************************************)
EXTENDS Naturals

CONSTANTS
  Path,      \* the indexable paths
  ScopeOf,   \* classify_scope: the scope of each path
  Loop,      \* polling threads that may be alive at a time
  Tool,      \* the thread that runs the MCP tools, one call at a time
  Other,     \* a process of its own, or the row a dead one left behind
  None,      \* no file, no points, no thread, no holder
  MaxEdits   \* bound on the editor's steps

Actor == Loop \cup {Tool}

ASSUME WatcherAssumption ==
  /\ Tool \notin Loop /\ Other \notin Actor /\ None \notin Actor \cup {Other}
  /\ None \notin Nat
  /\ MaxEdits \in Nat

VARIABLES
  tree,      \* the mtime of the file at each path, None without a file
  edits,     \* the editor's steps so far: the mtime of the last one
  indexed,   \* the mtime each path is indexed at
  partial,   \* the paths of which some points of that version are missing
  built,     \* the scopes that have a current collection
  lease,     \* who holds the lifecycle lease
  baseline,  \* self._snapshot, which all threads of one watcher share
  stopping,  \* self._stop_event
  thread,    \* self._thread
  at,        \* where each actor is
  op,        \* the tool under way
  todo,      \* the paths each actor has still to visit
  current,   \* the snapshot each actor is taking
  touched,   \* the paths each actor reindexes
  read,      \* the versions each actor has read for that
  captured   \* initial_snapshot of start_watcher

\* Observers, read by no action of the code: `newest`, the newest version of each
\* path that was ever indexed; `shared`, a thread that survived a stop has shared
\* the snapshot with its successor; `botched`, paths whose points were left half
\* replaced by a tool, or while the snapshot was shared, or which a startup
\* reconcile took for indexed on the strength of some of their points; until
\* somebody succeeds.
VARIABLES newest, shared, botched

index == <<indexed, partial, built>>
watcher == <<baseline, stopping, thread>>
local == <<todo, current, touched, read, captured>>
observers == <<newest, shared, botched>>
vars == <<tree, edits, index, lease, watcher, at, op, local, observers>>

Scope == {ScopeOf[p] : p \in Path}
Mtime == 0..MaxEdits
Snapshot == [Path -> Mtime \cup {None}]
Nothing == [p \in Path |-> None]

\* Where an actor is between lifecycle_lease.__enter__ and __exit__.
Leased == {"reading", "writing", "notifying", "releasing", "joining", "capturing",
           "planning", "ready"}

\* Type invariant; and the lease is with the actor that is inside it.
TypeOK ==
  /\ tree \in Snapshot /\ indexed \in Snapshot
  /\ partial \subseteq Path /\ built \subseteq Scope
  /\ edits \in Mtime
  /\ lease \in Actor \cup {Other, None}
  /\ baseline \in Snapshot /\ stopping \in BOOLEAN /\ thread \in Loop \cup {None}
  /\ at \in [Actor -> Leased \cup {"dead", "waiting", "scanning", "wanting", "advancing"}]
  /\ \A a \in Actor : at[a] \in Leased <=> lease = a
  /\ op \in {"none", "start", "stop", "reindex", "rebuild"}
  /\ todo \in [Actor -> SUBSET Path] /\ touched \in [Actor -> SUBSET Path]
  /\ current \in [Actor -> Snapshot] /\ read \in [Actor -> Snapshot]
  /\ captured \in Snapshot
  /\ newest \in [Path -> Mtime]
  /\ shared \in BOOLEAN
  /\ botched \subseteq Path

\* Is there a collection to delete p from and to write it to?
HasCurrent(p) == ScopeOf[p] \in built

Init ==
  /\ tree \in [Path -> {0, None}]
  /\ edits = 0
  /\ built \in SUBSET Scope
  /\ indexed \in [Path -> {0, None}] /\ \A p \in Path : indexed[p] # None => HasCurrent(p)
  /\ partial = {}
  /\ lease = None
  /\ baseline = Nothing /\ stopping = FALSE /\ thread = None
  /\ at = [a \in Actor |-> IF a = Tool THEN "waiting" ELSE "dead"]
  /\ op = "none"
  /\ todo = [a \in Actor |-> {}] /\ touched = [a \in Actor |-> {}]
  /\ current = [a \in Actor |-> Nothing] /\ read = [a \in Actor |-> Nothing]
  /\ captured = Nothing
  /\ newest = [p \in Path |-> 0]
  /\ shared = FALSE
  /\ botched = {}

-----------------------------------------------------------------------------
(* Editor, other processes *)

Write(p) ==
  /\ edits < MaxEdits
  /\ edits' = edits + 1
  /\ tree' = [tree EXCEPT ![p] = edits + 1]
  /\ UNCHANGED <<index, lease, watcher, at, op, local, observers>>

Remove(p) ==
  /\ edits < MaxEdits /\ tree[p] # None
  /\ edits' = edits + 1
  /\ tree' = [tree EXCEPT ![p] = None]
  /\ UNCHANGED <<index, lease, watcher, at, op, local, observers>>

OtherTakes ==
  /\ lease = None
  /\ lease' = Other
  /\ UNCHANGED <<tree, edits, index, watcher, at, op, local, observers>>

OtherLeaves ==
  /\ lease = Other
  /\ lease' = None
  /\ UNCHANGED <<tree, edits, index, watcher, at, op, local, observers>>

-----------------------------------------------------------------------------
(* What every actor does *)

Go(a, where) == at' = [at EXCEPT ![a] = where]

\* a begins to visit `paths`.
Visit(a, paths) == todo' = [todo EXCEPT ![a] = paths]

\* The actor's local variables go with the end of its iteration or call.
Forget(a) ==
  /\ todo' = [todo EXCEPT ![a] = {}] /\ touched' = [touched EXCEPT ![a] = {}]
  /\ current' = [current EXCEPT ![a] = Nothing] /\ read' = [read EXCEPT ![a] = Nothing]
  /\ captured' = IF a = Tool THEN Nothing ELSE captured

\* _build_snapshot or the scan of reconcile_index meets p, or passes the place
\* where it is not.
Scan(a, p) ==
  /\ at[a] \in {"scanning", "capturing", "planning"} /\ p \in todo[a]
  /\ current' = [current EXCEPT ![a][p] = tree[p]]
  /\ Visit(a, todo[a] \ {p})
  /\ UNCHANGED <<tree, edits, index, lease, watcher, at, op, touched, read, captured, observers>>

\* Wrong variant of Acquire: does not look whether the lease is taken.
AcquireAnyway(a, next) ==
  /\ at[a] = "wanting"
  /\ lease' = a
  /\ Go(a, next)

\* The lease is free.
Acquire(a, next) ==
  /\ at[a] = "wanting" /\ lease = None
  /\ lease' = a
  /\ Go(a, next)

Rebuilds(a) == a = Tool /\ op = "rebuild"

\* reindex_paths visits p: its points are deleted, then its file is read.
\* rebuild_index reads everything before it touches a collection.
ReadPath(a, p) ==
  /\ at[a] = "reading" /\ p \in todo[a]
  /\ read' = [read EXCEPT ![a][p] = tree[p]]
  /\ IF Rebuilds(a) THEN UNCHANGED <<indexed, partial>>
     ELSE indexed' = [indexed EXCEPT ![p] = None] /\ partial' = partial \ {p}
  /\ Visit(a, todo[a] \ {p})
  /\ UNCHANGED <<tree, edits, built, lease, watcher, at, op, current, touched, captured, observers>>

\* All paths are read, and it is time to write.
BeginWriting(a) ==
  /\ at[a] = "reading" /\ todo[a] = {}
  /\ Go(a, "writing")
  /\ UNCHANGED <<tree, edits, index, lease, watcher, op, local, observers>>

Later(v, w) == IF v # None /\ v > w THEN v ELSE w

\* A rebuild writes every path; reindex_paths skips those of a scope without a
\* current collection, with a warning.
Written(a) == {p \in touched[a] : Rebuilds(a) \/ HasCurrent(p)}

\* The operation comes to its end: a rebuild has made a collection for each scope
\* that has files, the points are upserted and the manifest is committed.
WriteIndex(a) ==
  /\ at[a] = "writing"
  /\ built' = IF Rebuilds(a) THEN {ScopeOf[p] : p \in {q \in Path : read[a][q] # None}} ELSE built
  /\ indexed' = [p \in Path |-> IF p \in Written(a) THEN read[a][p] ELSE indexed[p]]
  /\ partial' = partial \ Written(a)
  /\ newest' = [p \in Path |-> IF p \in Written(a) THEN Later(read[a][p], newest[p]) ELSE newest[p]]
  /\ botched' = botched \ Written(a)
  /\ Go(a, IF a = Tool /\ op # "start" THEN "releasing" ELSE "notifying")
  /\ UNCHANGED <<tree, edits, lease, watcher, op, local, shared>>

\* The paths of a whose points are not what they were.
Begun(a) ==
  IF at[a] = "reading" /\ Rebuilds(a) THEN {}
  ELSE IF at[a] \in {"reading", "writing", "notifying"} THEN touched[a] \ todo[a]
  ELSE {}

\* A rebuild has come to the scopes `reached`, and `made` are those of their new
\* collections; the paths `there` have been upserted, batch after batch, and one of
\* them, in `cut`, only in part.
PartlyWritten(a, reached, made, there, cut) ==
  /\ \A p \in there : Rebuilds(a) => ScopeOf[p] \in made
  /\ \A p, q \in cut : p = q
  /\ built' = (built \ reached) \cup made
  /\ indexed' = [p \in Path |-> IF p \in there THEN read[a][p]
                               ELSE IF ScopeOf[p] \in reached THEN None ELSE indexed[p]]
  /\ partial' = {p \in partial \ there : ScopeOf[p] \notin reached} \cup cut
  /\ newest' = [p \in Path |-> IF p \in there THEN Later(read[a][p], newest[p]) ELSE newest[p]]

\* What is left of the index when a ends early: it is what it was, unless a was
\* writing it.
LeavesIndex(a) ==
  IF at[a] # "writing" THEN UNCHANGED <<index, newest>>
  ELSE \E reached \in IF Rebuilds(a) THEN SUBSET Scope ELSE {{}} :
       \E made \in SUBSET reached, there \in SUBSET {p \in Written(a) : read[a][p] # None} :
       \E cut \in SUBSET there : PartlyWritten(a, reached, made, there, cut)

\* Wrong variant of Fail: the exception leaves the lease where it is.
FailHolding(a) ==
  /\ at[a] \in {"reading", "writing", "notifying"} /\ lease = a
  /\ LeavesIndex(a)
  /\ botched' = IF a # Tool /\ ~shared THEN botched ELSE botched \cup Begun(a)
  /\ Go(a, "waiting")
  /\ op' = IF a = Tool THEN "none" ELSE op
  /\ Forget(a)
  /\ UNCHANGED <<tree, edits, lease, watcher, shared>>

\* An exception of the index operation or of on_index_changed.  The lease is
\* released on the way out, or its row is left to expire if that fails too.
Fail(a) ==
  /\ at[a] \in {"reading", "writing", "notifying"} /\ lease = a
  /\ LeavesIndex(a)
  /\ botched' = IF a # Tool /\ ~shared THEN botched ELSE botched \cup Begun(a)
  /\ lease' \in {None, Other}
  /\ Go(a, "waiting")
  /\ op' = IF a = Tool THEN "none" ELSE op
  /\ Forget(a)
  /\ UNCHANGED <<tree, edits, watcher, shared>>

\* The transaction that releases the lease fails: an exception like any other,
\* and a row that is left to expire.
ReleaseFails(a) ==
  /\ at[a] = "releasing"
  /\ lease' = Other
  /\ Go(a, "waiting")
  /\ op' = IF a = Tool THEN "none" ELSE op
  /\ Forget(a)
  /\ UNCHANGED <<tree, edits, index, watcher, observers>>

-----------------------------------------------------------------------------
(* _watch_loop *)

\* Wrong variant of Wake: looks at the event only after a wait that timed out.
WakeAnyway(l) ==
  /\ at[l] = "waiting"
  /\ Go(l, "scanning") /\ Visit(l, Path)
  /\ UNCHANGED <<tree, edits, index, lease, watcher, op, current, touched, read, captured, observers>>

\* stop_event.wait() times out and a new snapshot is begun, or it is set and the
\* thread ends.
Wake(l) ==
  /\ at[l] = "waiting"
  /\ IF stopping
     THEN Go(l, "dead") /\ UNCHANGED todo
     ELSE Go(l, "scanning") /\ Visit(l, Path)
  /\ UNCHANGED <<tree, edits, index, lease, watcher, op, current, touched, read, captured, observers>>

\* A directory vanishes under rglob: the snapshot is built outside the try, and
\* the exception ends the thread.
ScanRaises(l) ==
  /\ at[l] = "scanning"
  /\ Go(l, "dead")
  /\ Forget(l)
  /\ UNCHANGED <<tree, edits, index, lease, watcher, op, observers>>

\* changed and deleted, against the shared snapshot.
Diff(l) == {p \in Path : current[l][p] # baseline[p]}

\* The snapshot is complete: on to the lease, or nothing to do.
Compare(l) ==
  /\ at[l] = "scanning" /\ todo[l] = {}
  /\ IF Diff(l) = {}
     THEN /\ baseline' = current[l]
          /\ Go(l, "waiting")
          /\ Forget(l)
     ELSE /\ touched' = [touched EXCEPT ![l] = Diff(l)]
          /\ Go(l, "wanting")
          /\ UNCHANGED <<baseline, todo, current, read, captured>>
  /\ UNCHANGED <<tree, edits, index, lease, stopping, thread, op, observers>>

LoopAcquires(l) ==
  /\ Acquire(l, "reading")
  /\ Visit(l, touched[l])
  /\ UNCHANGED <<tree, edits, index, watcher, op, current, touched, read, captured, observers>>

\* Wrong variant of LoopTurnedAway: takes the new snapshot all the same.
LoopSkips(l) ==
  /\ at[l] = "wanting"
  /\ baseline' = current[l]
  /\ Go(l, "waiting")
  /\ Forget(l)
  /\ UNCHANGED <<tree, edits, index, lease, stopping, thread, op, observers>>

\* The lease is held, or its transaction failed: log, keep the old snapshot.
LoopTurnedAway(l) ==
  /\ at[l] = "wanting"
  /\ Go(l, "waiting")
  /\ Forget(l)
  /\ UNCHANGED <<tree, edits, index, lease, watcher, op, observers>>

\* on_index_changed returns.
LoopNotifies(l) ==
  /\ at[l] = "notifying"
  /\ Go(l, "releasing")
  /\ UNCHANGED <<tree, edits, index, lease, watcher, op, local, observers>>

LoopReleases(l) ==
  /\ at[l] = "releasing"
  /\ lease' = None
  /\ Go(l, "advancing")
  /\ UNCHANGED <<tree, edits, index, watcher, op, local, observers>>

\* self._snapshot = current, after the lease is gone.
Advance(l) ==
  /\ at[l] = "advancing"
  /\ baseline' = current[l]
  /\ Go(l, "waiting")
  /\ Forget(l)
  /\ UNCHANGED <<tree, edits, index, lease, stopping, thread, op, observers>>

-----------------------------------------------------------------------------
(* The tools *)

IsRunning == thread # None /\ at[thread] # "dead"

\* A tool is called and asks for the lease; start_watcher on a running watcher
\* only refreshes the registry.
Call(kind) ==
  /\ op = "none"
  /\ kind = "start" => ~IsRunning
  /\ op' = kind
  /\ Go(Tool, "wanting")
  /\ UNCHANGED <<tree, edits, index, lease, watcher, local, observers>>

\* The lease is held: the tool raises.
ToolTurnedAway ==
  /\ at[Tool] = "wanting" /\ lease # None
  /\ op' = "none"
  /\ Go(Tool, "waiting")
  /\ UNCHANGED <<tree, edits, index, lease, watcher, local, observers>>

\* start_watcher: capture_snapshot.
BeginCapture ==
  /\ op = "start"
  /\ Acquire(Tool, "capturing")
  /\ Visit(Tool, Path)
  /\ UNCHANGED <<tree, edits, index, watcher, op, current, touched, read, captured, observers>>

\* The snapshot becomes the baseline at once, and reconcile_index scans again.
BeginReconcile ==
  /\ at[Tool] = "capturing" /\ todo[Tool] = {}
  /\ captured' = current[Tool] /\ baseline' = current[Tool]
  /\ current' = [current EXCEPT ![Tool] = Nothing]
  /\ Go(Tool, "planning")
  /\ Visit(Tool, Path)
  /\ UNCHANGED <<tree, edits, index, lease, stopping, thread, op, touched, read, observers>>

Stale == {p \in Path : current[Tool][p] # indexed[p]}

\* Reindex what the index does not show as the scan saw it; one point is enough to
\* show a version.
Reconcile ==
  /\ at[Tool] = "planning" /\ todo[Tool] = {}
  /\ touched' = [touched EXCEPT ![Tool] = Stale]
  /\ Visit(Tool, Stale)
  /\ current' = [current EXCEPT ![Tool] = Nothing]
  /\ Go(Tool, IF Stale = {} THEN "ready" ELSE "reading")
  /\ botched' = botched \cup (partial \ Stale)
  /\ UNCHANGED <<tree, edits, index, lease, watcher, op, read, captured, newest, shared>>

\* A bound is exceeded in either scan, or the scan raises: nothing is started.
StartGivesUp ==
  /\ at[Tool] \in {"capturing", "planning"}
  /\ Go(Tool, "releasing")
  /\ Forget(Tool)
  /\ UNCHANGED <<tree, edits, index, lease, watcher, op, observers>>

\* on_index_changed(startup=True) returns.
ToolNotified ==
  /\ at[Tool] = "notifying"
  /\ Go(Tool, "ready")
  /\ UNCHANGED <<tree, edits, index, lease, watcher, op, local, observers>>

\* Wrong variant of StartThread, and what docs/specifications/P6.A (8.1) asks
\* for: polling starts from a snapshot taken after the reconcile.
StartThreadAfresh(l) ==
  /\ at[Tool] = "ready" /\ at[l] = "dead"
  /\ stopping' = FALSE /\ baseline' = tree /\ thread' = l
  /\ at' = [at EXCEPT ![l] = "waiting", ![Tool] = "releasing"]
  /\ shared' = (shared \/ \E k \in Loop : at[k] # "dead")
  /\ Forget(Tool)
  /\ UNCHANGED <<tree, edits, index, lease, op, newest, botched>>

\* RepositoryWatcher.start, with the snapshot captured before the reconcile.
StartThread(l) ==
  /\ at[Tool] = "ready" /\ at[l] = "dead"
  /\ stopping' = FALSE /\ baseline' = captured /\ thread' = l
  /\ at' = [at EXCEPT ![l] = "waiting", ![Tool] = "releasing"]
  /\ shared' = (shared \/ \E k \in Loop : at[k] # "dead")
  /\ Forget(Tool)
  /\ UNCHANGED <<tree, edits, index, lease, op, newest, botched>>

\* stop_watcher, and rebuild_index while the watcher runs: ask it to end.
BeginStop ==
  /\ op = "stop" \/ (op = "rebuild" /\ IsRunning)
  /\ Acquire(Tool, "joining")
  /\ stopping' = TRUE
  /\ UNCHANGED <<tree, edits, index, baseline, thread, op, local, observers>>

\* The thread has ended, or debounce + 1 seconds are not enough for its scan or
\* for its wait for the database.
Joinable == thread # None => at[thread] \in {"dead", "scanning", "wanting"}

\* join() returns, and the thread is let go of whether or not it has ended.
JoinThread ==
  /\ at[Tool] = "joining" /\ Joinable
  /\ thread' = None
  /\ Go(Tool, IF op = "stop" THEN "releasing" ELSE "reading")
  /\ touched' = [touched EXCEPT ![Tool] = IF op = "stop" THEN {} ELSE Path]
  /\ Visit(Tool, IF op = "stop" THEN {} ELSE Path)
  /\ UNCHANGED <<tree, edits, index, lease, baseline, stopping, op, current, read, captured,
                 observers>>

\* rebuild_index without a running watcher, or reindex_paths(paths).
BeginReindex(paths) ==
  /\ op = "reindex" \/ (op = "rebuild" /\ ~IsRunning /\ paths = Path)
  /\ Acquire(Tool, "reading")
  /\ touched' = [touched EXCEPT ![Tool] = paths]
  /\ Visit(Tool, paths)
  /\ UNCHANGED <<tree, edits, index, watcher, op, current, read, captured, observers>>

ToolReturns ==
  /\ at[Tool] = "releasing"
  /\ lease' = None
  /\ op' = "none"
  /\ Go(Tool, "waiting")
  /\ Forget(Tool)
  /\ UNCHANGED <<tree, edits, index, watcher, observers>>

\* The process dies: its threads with it, its lease row left to expire.
Crash ==
  /\ at[Tool] # "waiting" \/ \E l \in Loop : at[l] # "dead"
  /\ at' = [a \in Actor |-> IF a = Tool THEN "waiting" ELSE "dead"]
  /\ op' = "none"
  /\ thread' = None /\ stopping' = FALSE /\ baseline' = Nothing
  /\ lease' = IF lease \in Actor THEN Other ELSE lease
  /\ IF lease \in Actor THEN LeavesIndex(lease) ELSE UNCHANGED <<index, newest>>
  /\ botched' = botched \cup UNION {Begun(a) : a \in Actor}
  /\ todo' = [a \in Actor |-> {}] /\ touched' = [a \in Actor |-> {}]
  /\ current' = [a \in Actor |-> Nothing] /\ read' = [a \in Actor |-> Nothing]
  /\ captured' = Nothing
  /\ shared' = FALSE
  /\ UNCHANGED <<tree, edits>>

-----------------------------------------------------------------------------
Environment == OtherTakes \/ OtherLeaves \/ Crash \/ \E p \in Path : Write(p) \/ Remove(p)

Indexing(a) ==
  \/ \E p \in Path : ReadPath(a, p)
  \/ BeginWriting(a) \/ WriteIndex(a) \/ Fail(a) \/ ReleaseFails(a)

LoopStep(l) ==
  \/ Wake(l) \/ Compare(l) \/ ScanRaises(l)
  \/ \E p \in Path : Scan(l, p)
  \/ LoopAcquires(l) \/ LoopTurnedAway(l)
  \/ Indexing(l)
  \/ LoopNotifies(l) \/ LoopReleases(l) \/ Advance(l)

ToolStep ==
  \/ \E kind \in {"start", "stop", "reindex", "rebuild"} : Call(kind)
  \/ ToolTurnedAway
  \/ BeginCapture \/ BeginReconcile \/ Reconcile \/ StartGivesUp
  \/ \E p \in Path : Scan(Tool, p)
  \/ Indexing(Tool) \/ ToolNotified
  \/ \E l \in Loop : StartThread(l)
  \/ BeginStop \/ JoinThread
  \/ \E paths \in SUBSET Path \ {{}} : BeginReindex(paths)
  \/ ToolReturns

Next == Environment \/ ToolStep \/ \E l \in Loop : LoopStep(l)

\* Every thread runs, and another process gives the lease back.
Fairness ==
  /\ WF_vars(OtherLeaves)
  /\ WF_vars(at[Tool] # "waiting" /\ ToolStep)
  /\ \A l \in Loop : WF_vars(LoopStep(l))

Spec == Init /\ [][Next]_vars /\ Fairness

-----------------------------------------------------------------------------
(* Properties *)

\* The watcher polls, and neither a loop nor a tool is in the middle of anything.
Asleep ==
  /\ IsRunning /\ ~stopping
  /\ \A l \in Loop : at[l] \in {"waiting", "dead"}
  /\ at[Tool] = "waiting"

\* All points of the file at p are readable.
IsIndexed(p) == indexed[p] = tree[p] /\ p \notin partial

\* A sleeping watcher has missed no file: one that the next comparison will pass
\* over is indexed as it is, all of it.  There are two exceptions: `botched` (its
\* points were left half replaced by a tool or by a polling thread that had to share
\* the snapshot, or a startup reconcile took a part of them for the whole), and a
\* scope without a current collection, whose files reindex_paths skips without an
\* error until somebody rebuilds.
NothingIsMissed ==
  Asleep => \A p \in Path :
    tree[p] # None /\ baseline[p] = tree[p] => IsIndexed(p) \/ p \in botched \/ ~HasCurrent(p)

\* The index of a path never goes back to an older version of its file.
IndexMovesForward ==
  [][\A p \in Path : indexed'[p] # None => indexed'[p] >= newest[p]]_vars

\* A watcher that from some time on runs, finds the lease free of tools and other
\* processes and meets no errors brings the index to every file, whatever went
\* wrong before that time; with the same two exceptions.
Undisturbed == IsRunning /\ ~stopping /\ op = "none" /\ lease # Other
MeetsError == \E l \in Loop : Fail(l) \/ ReleaseFails(l) \/ (LoopTurnedAway(l) /\ lease = None)
ComesToBeIndexed ==
  <>[]Undisturbed /\ <>[][~MeetsError]_vars
    => \A p \in Path : []<>(tree[p] = None \/ IsIndexed(p) \/ p \in botched \/ ~HasCurrent(p))

\* Threads that were told to stop end, even one that nobody waits for any more,
\* unless a new start() takes the request back.
StoppedThreadEnds ==
  []<>(~stopping \/ \A l \in Loop : at[l] = "dead")

\* What watcher.py:88 says of files that are deleted: the comparison with the
\* previous snapshot handles the cleanup of the index on the next loop.
DeletedPathsAreCleaned ==
  Asleep => \A p \in Path :
    tree[p] = None /\ baseline[p] = None => indexed[p] = None \/ p \in botched
=============================================================================
