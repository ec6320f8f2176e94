--------------------------- MODULE RepoLifecycle ---------------------------
(***************************************************************************)
(* The life of repositories in the registry that all server processes      *)
(* share: statuses, the active repository, and what bootstrap, the tools   *)
(* and the watcher's callback write there (registry.py, lifecycle/*.py,    *)
(* search_service.py, apps/repo-semantic-mcp/main.py).                     *)
(*                                                                         *)
(* A process serves one repository.  Its main thread bootstraps and then   *)
(* runs the tools one at a time, its watcher thread polls.  What an index  *)
(* operation does to the vectors is RepoIndexer's subject: here the store  *)
(* of a repository has no collection, or empty ones, or some of its files  *)
(* (nothing but reindexes filled it), or is torn (an operation did not end *)
(* well) or full; there is always something to index.  Leases are locks    *)
(* whose owner may die (LifecycleLease); a call that needs two takes both  *)
(* or is refused.  register_repo about a repository of another process     *)
(* has no lease of that repository, and writes back what it read of it.    *)
(*                                                                         *)
(* sync_registry_state is two steps, because its reads and its upsert are  *)
(* transactions of their own; the same call twice in a row is one.         *)
(***************************************************************************)
EXTENDS Naturals, FiniteSets

CONSTANTS
  Runtime,   \* the server processes
  Repo,      \* the repositories
  RepoOf,    \* the one each process serves
  Calls,     \* the tools that the clients of each process call
  About,     \* the repositories they register
  Registry,  \* the lease key of lifecycle_global_mutation("repo_registry")
  None, Dead \* a lease without a row; a lease whose owner is gone

Tools == {"build", "reindex", "start", "stop", "activate", "register"}

ASSUME LifecycleAssumption ==
  /\ RepoOf \in [Runtime -> Repo]
  /\ Calls \in [Runtime -> SUBSET Tools] /\ About \in [Runtime -> SUBSET Repo]
  /\ Registry \notin Repo
  /\ {None, Dead} \cap (Runtime \X {"main", "watch"}) = {} /\ None # Dead

Main(rt) == <<rt, "main">>
Watch(rt) == <<rt, "watch">>
Actor == Runtime \X {"main", "watch"}
Own(a) == RepoOf[a[1]]

VARIABLES
  row,       \* repo_registry: status, and whether its points counts are positive
  active,    \* the rows with active = 1
  store,     \* the collections of each repository
  lease,     \* lifecycle_lease: the holder of each key
  at,        \* where each thread is
  op,        \* what it does
  target,    \* the repository a register_repo is about
  say,       \* the status it is going to write
  saw,       \* what it has read: final_points > 0, then the active flag to write
  existing,  \* the row it has read, when register_repo is about another's repository
  watching   \* the processes whose watcher runs

\* Observers, read by no action of the code, each a set of repositories:
\* `orphaned`, the status indexing has lost its owner; `echoed`, register_repo of
\* another repository's process has written back a row that had changed since it
\* was read, and no process of its own has written a status of its own since;
\* `unnoted`, a poll or a startup reconcile has left no points, and the counts in
\* the row were not written since.
VARIABLES orphaned, echoed, unnoted

registry == <<row, active, orphaned, echoed, unnoted>>
local == <<op, target, say, saw, existing>>
vars == <<registry, store, lease, at, local, watching>>

Status == {"registered", "indexing", "indexed", "stale", "error"}
NoRow == [status |-> "none", points |-> FALSE]
Row == [status : Status, points : BOOLEAN]

\* What there may be of a repository's vectors, and whether its count is positive.
Vectors == {"none", "empty", "some", "torn", "full"}
HasPoints(vectors) == vectors \notin {"none", "empty"}

\* The positions of a thread that holds its leases.
Inside == {"reading", "writing", "working", "filling", "leaving"}

TypeOK ==
  /\ row \in [Repo -> Row \cup {NoRow}]
  /\ active \subseteq Repo /\ Cardinality(active) <= 1
  /\ store \in [Repo -> Vectors]
  /\ lease \in [Repo \cup {Registry} -> Actor \cup {None, Dead}]
  /\ \A k \in DOMAIN lease : lease[k] \in Actor => at[lease[k]] \in Inside
  /\ at \in [Actor -> Inside \cup {"down", "counting", "counted", "broken", "failed",
                                   "idle", "checked"}]
  /\ op \in [Actor -> Tools \cup {"none", "connect", "boot", "boot_error", "poll"}]
  /\ \A a \in Actor : op[a] = "none" <=> at[a] \notin Inside
  /\ target \in [Actor -> Repo]
  /\ say \in [Actor -> Status] /\ saw \in [Actor -> BOOLEAN]
  /\ existing \in [Actor -> Row \cup {NoRow}]
  /\ watching \subseteq Runtime
  /\ orphaned \subseteq Repo /\ echoed \subseteq Repo /\ unnoted \subseteq Repo

\* The processes up have bootstrapped, the other ones are not started yet.
Starts(up) ==
  /\ row = [r \in Repo |-> IF r \in {RepoOf[rt] : rt \in up}
                          THEN [status |-> "registered", points |-> FALSE] ELSE NoRow]
  /\ active = {}
  /\ store = [r \in Repo |-> "none"]
  /\ lease = [k \in Repo \cup {Registry} |-> None]
  /\ at = [a \in Actor |-> IF a[2] = "main" /\ a[1] \notin up THEN "down" ELSE "idle"]
  /\ op = [a \in Actor |-> "none"]
  /\ target = [a \in Actor |-> Own(a)]
  /\ say = [a \in Actor |-> "registered"] /\ saw = [a \in Actor |-> FALSE]
  /\ existing = [a \in Actor |-> NoRow]
  /\ watching = {}
  /\ orphaned = {} /\ echoed = {} /\ unnoted = {}

Init == Starts({})

-----------------------------------------------------------------------------
(* Calls and their leases *)

Go(a, where) == at' = [at EXCEPT ![a] = where]

\* The locals of a call go out of scope.
Forget(A) ==
  /\ op' = [a \in Actor |-> IF a \in A THEN "none" ELSE op[a]]
  /\ target' = [a \in Actor |-> IF a \in A THEN Own(a) ELSE target[a]]
  /\ say' = [a \in Actor |-> IF a \in A THEN "registered" ELSE say[a]]
  /\ saw' = [a \in Actor |-> IF a \in A THEN FALSE ELSE saw[a]]
  /\ existing' = [a \in Actor |-> IF a \in A THEN NoRow ELSE existing[a]]

\* ensure_search_available and index_status: no reason against a search.
SearchAvailable(r) == r \in active /\ row[r].status = "indexed" /\ row[r].points

\* The calls a thread may make where it is.
Asks(a) ==
  CASE at[a] = "down" -> {"connect"}
    [] at[a] = "counted" -> {"boot"}
    [] at[a] = "broken" -> {"boot_error"}
    [] at[a] = "checked" -> {"start"}
    [] a[2] = "main" /\ at[a] = "idle" -> Calls[a[1]] \ {"start"}
    [] a[2] = "watch" /\ at[a] = "idle" /\ a[1] \in watching -> {"poll"}
    [] OTHER -> {}

\* The keys the call o about r locks.
Needs(a, o, r) ==
  (IF o \in {"connect", "activate", "register"} THEN {Registry} ELSE {})
    \cup (IF o = "register" /\ r # Own(a) THEN {} ELSE {Own(a)})

\* Where a thread is after a call, and after one that failed or was refused: a
\* connecting process exits, a bootstrap tries to leave an error behind.
Returns(o) == IF o = "connect" THEN "counting" ELSE IF o = "boot_error" THEN "failed" ELSE "idle"
Raises(o) == CASE o = "connect" -> "down" [] o = "boot" -> "broken" [] OTHER -> Returns(o)

\* Wrong variant of Enter: the work starts before its status is written.
EnterUnannounced(a, o, r) ==
  /\ o \in Asks(a)
  /\ \A k \in Needs(a, o, r) : lease[k] = None
  /\ lease' = [k \in DOMAIN lease |-> IF k \in Needs(a, o, r) THEN a ELSE lease[k]]
  /\ op' = [op EXCEPT ![a] = o]
  /\ target' = [target EXCEPT ![a] = r]
  /\ Go(a, IF o \in {"poll", "build", "reindex"} THEN "working" ELSE "reading")
  /\ UNCHANGED <<registry, store, say, saw, existing, watching>>

\* A call gets its leases.  rebuild_index and stop_watcher stop the watcher; an
\* index operation that is to be announced writes its status first.
Enter(a, o, r) ==
  /\ o \in Asks(a)
  /\ \A k \in Needs(a, o, r) : lease[k] = None
  /\ lease' = [k \in DOMAIN lease |-> IF k \in Needs(a, o, r) THEN a ELSE lease[k]]
  /\ op' = [op EXCEPT ![a] = o]
  /\ target' = [target EXCEPT ![a] = r]
  /\ say' = [say EXCEPT ![a] = IF o \in {"build", "reindex"} THEN "indexing" ELSE "indexed"]
  /\ Go(a, IF o = "poll" \/ (o = "start" /\ a[1] \notin watching) THEN "working" ELSE "reading")
  /\ watching' = IF o \in {"build", "stop"} THEN watching \ {a[1]} ELSE watching
  /\ UNCHANGED <<registry, store, saw, existing>>

\* A call is refused: a tool raises, a poll is skipped.
Refuse(a, o, r) ==
  /\ o \in Asks(a)
  /\ \E k \in Needs(a, o, r) : lease[k] # None
  /\ Go(a, Raises(o))
  /\ Forget({a})
  /\ UNCHANGED <<registry, store, lease, watching>>

\* Wrong variant of Released: only the inner lease is given back.
ReleasedInner(a) ==
  [k \in DOMAIN lease |-> IF lease[k] = a /\ k # Registry THEN None ELSE lease[k]]

Released(a) == [k \in DOMAIN lease |-> IF lease[k] = a THEN None ELSE lease[k]]

\* The body has ended.
Leave(a) ==
  /\ at[a] = "leaving"
  /\ lease' = Released(a)
  /\ Go(a, Returns(op[a]))
  /\ Forget({a})
  /\ UNCHANGED <<registry, store, watching>>

\* A lease without an owner expires.
Expire(k) ==
  /\ lease[k] = Dead
  /\ lease' = [lease EXCEPT ![k] = None]
  /\ UNCHANGED <<registry, store, at, local, watching>>

-----------------------------------------------------------------------------
(* Between the calls *)

\* _bootstrap_runtime: the dependencies are there, and the points are counted
\* before the lease is asked for.
Count(rt) ==
  /\ at[Main(rt)] = "counting"
  /\ saw' = [saw EXCEPT ![Main(rt)] = HasPoints(store[RepoOf[rt]])]
  /\ Go(Main(rt), "counted")
  /\ UNCHANGED <<registry, store, lease, op, target, say, existing, watching>>

\* Or they are not.
DependenciesFail(rt) ==
  /\ at[Main(rt)] = "counting"
  /\ Go(Main(rt), "broken")
  /\ UNCHANGED <<registry, store, lease, local, watching>>

\* start_watcher looks at the status before it asks for the lease.
Check(rt) ==
  /\ at[Main(rt)] = "idle" /\ "start" \in Calls[rt] /\ SearchAvailable(RepoOf[rt])
  /\ Go(Main(rt), "checked")
  /\ UNCHANGED <<registry, store, lease, local, watching>>

\* What the vectors may be when an operation has not come to its end.  A rebuild's
\* are what they are: it works step by step.  reindex_paths, also on behalf of a
\* poll or a reconcile, skips what has no collection; it deletes the points of all
\* its paths before it upserts any.
LeftBy(o, vectors) ==
  IF o = "build" \/ vectors = "none" THEN {vectors} ELSE {vectors, "empty", "torn"}

\* A poll or a startup reconcile that leaves no points has not written that down.
NotesNothing(r, o, vectors) ==
  unnoted' = IF o \in {"poll", "start"} /\ ~HasPoints(vectors) THEN unnoted \cup {r} ELSE unnoted

\* A process dies, in the middle of one operation or of none.
Crash(rt) ==
  LET threads == {Main(rt), Watch(rt)}
      r == RepoOf[rt]
      cut == {a \in threads : at[a] \in {"working", "filling"}}
      o == IF cut = {} THEN "build" ELSE op[CHOOSE a \in cut : TRUE] IN
  /\ at[Main(rt)] # "down"
  /\ at' = [at EXCEPT ![Main(rt)] = "down", ![Watch(rt)] = "idle"]
  /\ Forget(threads)
  /\ lease' = [k \in DOMAIN lease |-> IF lease[k] \in threads THEN Dead ELSE lease[k]]
  /\ \E vectors \in LeftBy(o, store[r]) :
       /\ store' = [store EXCEPT ![r] = vectors]
       /\ NotesNothing(r, o, vectors)
  /\ watching' = watching \ {rt}
  /\ orphaned' = IF op[Main(rt)] \in {"build", "reindex"} /\ row[r].status = "indexing"
                 THEN orphaned \cup {r} ELSE orphaned
  /\ UNCHANGED <<row, active, echoed>>

-----------------------------------------------------------------------------
(* Registry reads and writes *)

\* activate_repo and bootstrap take a repository with points for indexed.
Promoted(status, points) == IF status \in {"registered", "error"} /\ points THEN "indexed" ELSE status

\* upsert_registered_repo: a changed configuration makes an index stale.
Reconfigured(status) == IF status = "indexed" THEN "stale" ELSE status

\* The statuses a may write, given the row it reads.
Verdicts(a) ==
  LET status == row[target[a]].status IN
  IF row[target[a]] = NoRow THEN {"registered"}
  ELSE CASE op[a] = "boot" -> {Promoted(status, saw[a])}
         [] op[a] = "boot_error" -> {"error"}
         [] op[a] = "activate" -> {Promoted(status, HasPoints(store[target[a]]))}
         [] op[a] = "register" -> {status, Reconfigured(status)}
         [] op[a] \in {"stop", "connect"} -> {status}
         [] OTHER -> {say[a]}

\* The active flags it may write: register_repo may be told to activate its own.
Flags(a) ==
  IF op[a] = "activate" THEN {TRUE}
  ELSE {target[a] \in active} \cup (IF op[a] = "register" /\ target[a] = Own(a) THEN {TRUE} ELSE {})

\* The entry and the active repository are read.
Read(a) ==
  /\ at[a] = "reading"
  /\ \E status \in Verdicts(a), flag \in Flags(a) :
       /\ say' = [say EXCEPT ![a] = status]
       /\ saw' = [saw EXCEPT ![a] = flag]
  /\ existing' = [existing EXCEPT ![a] = IF target[a] = Own(a) THEN NoRow ELSE row[target[a]]]
  /\ Go(a, "writing")
  /\ UNCHANGED <<registry, store, lease, op, target, watching>>

\* Wrong variant of Points: an empty collection does not reset the counts.
OldPoints(a) == (target[a] = Own(a) /\ HasPoints(store[target[a]])) \/ row[target[a]].points

\* The counts that go into the row: a runtime counts its own collections, and of
\* another's repository it has those it read.
Points(a) == IF target[a] = Own(a) THEN HasPoints(store[target[a]]) ELSE existing[a].points

\* a writes back what has changed since it was read.
Echoes(a) == target[a] # Own(a) /\ row[target[a]] # existing[a]

\* upsert_repo; ensure_registered leaves a row alone, or makes it active.
Write(a) ==
  LET r == target[a]
      announces == say[a] = "indexing" /\ op[a] \in {"build", "reindex"}
      repeats == say[a] = "indexing" /\ ~announces IN
  /\ at[a] = "writing"
  /\ IF op[a] = "connect" /\ row[r] # NoRow
     THEN /\ active' = IF saw[a] THEN {r} ELSE active
          /\ UNCHANGED <<row, orphaned, echoed, unnoted>>
     ELSE /\ row' = [row EXCEPT ![r] = [status |-> say[a], points |-> Points(a)]]
          /\ active' = IF saw[a] THEN {r} ELSE active \ {r}
          /\ orphaned' = IF repeats THEN orphaned ELSE orphaned \ {r}
          /\ echoed' = IF Echoes(a) THEN echoed \cup {r}
                       ELSE IF repeats \/ r # Own(a) THEN echoed ELSE echoed \ {r}
          /\ unnoted' = IF r = Own(a) THEN unnoted \ {r} ELSE unnoted
  /\ say' = [say EXCEPT ![a] = "registered"] /\ saw' = [saw EXCEPT ![a] = FALSE]
  /\ existing' = [existing EXCEPT ![a] = NoRow]
  /\ Go(a, IF announces THEN "working" ELSE "leaving")
  /\ UNCHANGED <<store, lease, op, target, watching>>

\* The transaction of a build's or reindex's success fails: it writes an error.
SuccessNotWritten(a) ==
  /\ at[a] = "writing" /\ op[a] \in {"build", "reindex"} /\ say[a] \in {"indexed", "registered"}
  /\ say' = [say EXCEPT ![a] = "error"]
  /\ Go(a, "reading")
  /\ UNCHANGED <<registry, store, lease, op, target, saw, existing, watching>>

\* Wrong variant of WriteFails: the lease is not given back when the body raises.
WriteFailsHolding(a) ==
  /\ at[a] = "writing" /\ (op[a] \in {"build", "reindex"} => say[a] \in {"indexing", "error"})
  /\ Go(a, Raises(op[a]))
  /\ Forget({a})
  /\ UNCHANGED <<registry, store, lease, watching>>

\* Any other transaction fails, that error's among them, and the call with it.
\* In start_watcher it is the callback's, or the one after the start.
WriteFails(a) ==
  /\ at[a] = "writing" /\ (op[a] \in {"build", "reindex"} => say[a] \in {"indexing", "error"})
  /\ lease' = Released(a)
  /\ Go(a, Raises(op[a]))
  /\ Forget({a})
  /\ watching' \in {watching, IF op[a] = "start" THEN watching \ {a[1]} ELSE watching}
  /\ orphaned' = IF op[a] \in {"build", "reindex"} /\ say[a] = "error"
                 THEN orphaned \cup {target[a]} ELSE orphaned
  /\ UNCHANGED <<row, active, echoed, unnoted, store>>

-----------------------------------------------------------------------------
(* Index operations *)

\* rebuild_index recreates a collection: it is gone, or there without points; the
\* other one may still have its points ...
DropIndex(a) ==
  /\ at[a] = "working" /\ op[a] = "build"
  /\ \E vectors \in {"none", "empty", IF HasPoints(store[Own(a)]) THEN "torn" ELSE "empty"} :
       store' = [store EXCEPT ![Own(a)] = vectors]
  /\ Go(a, "filling")
  /\ UNCHANGED <<registry, lease, local, watching>>

\* ... and upserts point after point.
FillIndex(a) ==
  /\ at[a] = "filling" /\ ~HasPoints(store[Own(a)])
  /\ store' = [store EXCEPT ![Own(a)] = "torn"]
  /\ UNCHANGED <<registry, lease, at, local, watching>>

\* What an operation makes of the vectors: reconcile repairs what the manifest
\* knows to be missing, a reindex or a poll what it is about, if it is only to
\* delete it; without a collection they delete and write nothing.
Results(o, vectors) ==
  CASE o = "build" -> {"full"}
    [] o # "build" /\ vectors = "none" -> {"none"}
    [] o = "start" /\ vectors # "none" -> {vectors, "full"}
    [] OTHER -> {vectors, "empty", IF HasPoints(vectors) THEN "full" ELSE "some"}

\* current_runtime_repo_state.
RuntimeState(vectors) == IF HasPoints(vectors) THEN "indexed" ELSE "registered"

\* It returns; a watcher starts.
FinishWork(a) ==
  /\ IF op[a] = "build" THEN at[a] = "filling" /\ store[Own(a)] = "torn" ELSE at[a] = "working"
  /\ \E vectors \in Results(op[a], store[Own(a)]) :
       /\ store' = [store EXCEPT ![Own(a)] = vectors]
       /\ say' = [say EXCEPT ![a] = IF op[a] = "reindex" THEN RuntimeState(vectors) ELSE "indexed"]
       /\ NotesNothing(Own(a), op[a], vectors)
  /\ watching' = IF op[a] = "start" THEN watching \cup {a[1]} ELSE watching
  /\ Go(a, "reading")
  /\ UNCHANGED <<row, active, orphaned, echoed, lease, op, target, saw, existing>>

\* Wrong variant of FailWork: the exception is not written down.
FailSilently(a) ==
  /\ at[a] \in {"working", "filling"}
  /\ Go(a, "leaving")
  /\ UNCHANGED <<registry, store, lease, local, watching>>

\* It raises, before or after it has changed something.  Only a build or a reindex
\* writes that down; the exception of start_watcher is raised, that of a poll logged.
FailWork(a) ==
  /\ at[a] \in {"working", "filling"}
  /\ \E vectors \in LeftBy(op[a], store[Own(a)]) :
       /\ store' = [store EXCEPT ![Own(a)] = vectors]
       /\ NotesNothing(Own(a), op[a], vectors)
  /\ IF op[a] \in {"build", "reindex"}
     THEN say' = [say EXCEPT ![a] = "error"] /\ Go(a, "reading")
     ELSE Go(a, "leaving") /\ UNCHANGED say
  /\ UNCHANGED <<row, active, orphaned, echoed, lease, op, target, saw, existing, watching>>

-----------------------------------------------------------------------------
Progress(a) ==
  \/ Read(a) \/ Write(a) \/ SuccessNotWritten(a) \/ WriteFails(a) \/ Leave(a)
  \/ FinishWork(a) \/ FailWork(a)

\* Only register_repo may be about a repository that is not the process's own.
Next ==
  \/ \E rt \in Runtime : Count(rt) \/ DependenciesFail(rt) \/ Check(rt) \/ Crash(rt)
  \/ \E k \in Repo \cup {Registry} : Expire(k)
  \/ \E a \in Actor :
       \/ Progress(a) \/ DropIndex(a) \/ FillIndex(a)
       \/ \E o \in Asks(a), r \in Repo :
            /\ IF o = "register" THEN r \in About[a[1]] ELSE r = Own(a)
            /\ Enter(a, o, r) \/ Refuse(a, o, r)

\* Calls that hold a lease go on, and leases without an owner expire.
Fairness ==
  /\ \A a \in Actor : WF_vars(Progress(a))
  /\ \A k \in Repo \cup {Registry} : WF_vars(Expire(k))

Spec == Init /\ [][Next]_vars /\ Fairness

-----------------------------------------------------------------------------
(* Properties *)

\* As long as an index is rebuilt or reindexed by a tool, its status says so (and
\* search is refused): no writer of the row with its lease gets in between.  The
\* exception is the one without: register_repo of another repository's process may
\* write back a status that it read before.
WorkIsAnnounced ==
  \A a \in Actor :
    at[a] \in {"working", "filling"} /\ op[a] \in {"build", "reindex"} =>
      row[Own(a)].status = "indexing" \/ Own(a) \in echoed

\* Whatever is rebuilt, fails, crashes or is promoted on a count taken before the
\* lease, search is not let through to a repository without points.  There are two
\* exceptions: a row that another repository's register_repo has written back, and
\* points that a poll or a startup reconcile has deleted and not upserted again,
\* until the counts are written the next time.
SearchableMeansPoints ==
  \A r \in Repo \ (echoed \cup unnoted) : SearchAvailable(r) => HasPoints(store[r])

\* A repository whose status is indexing is being indexed.  The exceptions: the
\* operation died with its process or could write neither its success nor its
\* failure, or another repository's register_repo has written the status back after
\* its end.
IndexingMeansWork ==
  \A r \in Repo \ (orphaned \cup echoed) : row[r].status = "indexing" =>
    \E a \in Actor :
      /\ Own(a) = r /\ op[a] \in {"build", "reindex"}
      /\ at[a] \in Inside \ {"leaving"}

\* No lease is kept for ever: calls end, and dead owners' leases expire.
LeasesComeFree ==
  \A k \in Repo \cup {Registry} : lease[k] # None ~> lease[k] = None

\* What docs/specifications/P6.A (8.4) says: search is blocked in an unknown
\* mutation state, as a failed or interrupted operation leaves it, and while a
\* rebuild has emptied the collections.
SearchIsBlocked ==
  /\ \A r \in Repo : SearchAvailable(r) => store[r] # "torn"
  /\ \A a \in Actor : at[a] = "filling" => ~SearchAvailable(Own(a))
=============================================================================
