---------------------------- MODULE WatcherProofs ----------------------------
(***************************************************************************)
(* Theorems about Watcher: its type invariant, that the index of a path    *)
(* never goes back, and that a sleeping watcher has missed nothing, for    *)
(* any paths, any number of polling threads and any number of edits.       *)
(***************************************************************************)
EXTENDS Watcher, TLAPS

-----------------------------------------------------------------------------
(* The steps of Next, by whose they are *)

\* A step that polling threads and tools have in common.
SharedStep(a) == Indexing(a) \/ \E p \in Path : Scan(a, p)

LoopOwnStep(l) ==
  \/ Wake(l) \/ Compare(l) \/ ScanRaises(l) \/ LoopAcquires(l) \/ LoopTurnedAway(l)
  \/ LoopNotifies(l) \/ LoopReleases(l) \/ Advance(l)

ToolOwnStep ==
  \/ \E kind \in {"start", "stop", "reindex", "rebuild"} : Call(kind)
  \/ ToolTurnedAway \/ BeginCapture \/ BeginReconcile \/ Reconcile \/ StartGivesUp \/ ToolNotified
  \/ \E l \in Loop : StartThread(l)
  \/ BeginStop \/ JoinThread
  \/ \E paths \in SUBSET Path \ {{}} : BeginReindex(paths)
  \/ ToolReturns

\* A step is the environment's, a tool's or a polling thread's.
LEMMA StepCases ==
  ASSUME [Next]_vars
  PROVE  \/ Environment \/ ToolOwnStep \/ UNCHANGED vars
         \/ \E a \in Actor : SharedStep(a)
         \/ \E l \in Loop : LoopOwnStep(l)
<1>1. ASSUME NEW l \in Loop, LoopStep(l) PROVE SharedStep(l) \/ LoopOwnStep(l)
  BY <1>1, Zenon DEF LoopStep, SharedStep, LoopOwnStep
<1>2. ASSUME ToolStep PROVE SharedStep(Tool) \/ ToolOwnStep
  BY <1>2, Zenon DEF ToolStep, SharedStep, ToolOwnStep
<1> QED BY <1>1, <1>2 DEF Next, Actor

-----------------------------------------------------------------------------
(* Types, and where a tool may be *)

\* The tool thread waits exactly when no tool is under way.
ToolPlaces == op = "none" <=> at[Tool] = "waiting"

Types == TypeOK /\ ToolPlaces

\* At first everything is well typed and no tool is under way.
LEMMA TypesInit == Init => Types
<1> SUFFICES ASSUME Init PROVE Types
  OBVIOUS
<1> USE WatcherAssumption DEF Init, Actor, Leased, Snapshot, Mtime, Nothing, Scope
<1>1. /\ tree \in Snapshot /\ indexed \in Snapshot
      /\ baseline \in Snapshot /\ captured \in Snapshot /\ newest \in [Path -> Mtime]
  OBVIOUS
<1>2. /\ at \in [Actor -> Leased \cup {"dead", "waiting", "scanning", "wanting", "advancing"}]
      /\ \A a \in Actor : at[a] \notin Leased /\ lease # a
  OBVIOUS
<1>3. /\ todo \in [Actor -> SUBSET Path] /\ touched \in [Actor -> SUBSET Path]
      /\ current \in [Actor -> Snapshot] /\ read \in [Actor -> Snapshot]
  OBVIOUS
<1>4. edits \in Mtime /\ at[Tool] = "waiting" /\ op = "none"
  OBVIOUS
<1>5. /\ partial \subseteq Path /\ built \subseteq Scope /\ lease \in Actor \cup {Other, None}
      /\ stopping \in BOOLEAN /\ thread \in Loop \cup {None} /\ shared \in BOOLEAN
      /\ op \in {"none", "start", "stop", "reindex", "rebuild"} /\ botched \subseteq Path
  OBVIOUS
<1> HIDE DEF Init, Actor, Leased, Snapshot, Mtime, Nothing, Scope
<1>6. TypeOK
  BY <1>1, <1>2, <1>3, <1>4, <1>5, Zenon DEF TypeOK
<1> QED BY <1>4, <1>6 DEF Types, ToolPlaces

\* An operation that ends early changes the index of the paths it has upserted and,
\* when it is a rebuild, of those whose collection it has recreated.
LEMMA WhatIsLeft ==
  ASSUME TypeOK, NEW a \in Actor, LeavesIndex(a)
  PROVE  \/ UNCHANGED <<index, newest>>
         \/ /\ at[a] = "writing"
            /\ \E there \in SUBSET Written(a), reached \in SUBSET Scope :
                 /\ ~Rebuilds(a) => reached = {} /\ built' = built
                 /\ \A p \in there : read[a][p] # None
                 /\ indexed' = [p \in Path |-> IF p \in there THEN read[a][p]
                                              ELSE IF ScopeOf[p] \in reached THEN None ELSE indexed[p]]
                 /\ newest' = [p \in Path |->
                                 IF p \in there THEN Later(read[a][p], newest[p]) ELSE newest[p]]
                 /\ \A p \in Path \ there : p \in partial' => p \in partial
                 /\ built' \subseteq Scope /\ partial' \subseteq Path
<1>1. CASE at[a] # "writing"
  BY <1>1 DEF LeavesIndex
<1>2. CASE at[a] = "writing"
  <2>1. PICK reached \in IF Rebuilds(a) THEN SUBSET Scope ELSE {{}},
             made \in SUBSET Scope, there \in SUBSET Path, cut \in SUBSET Path :
          /\ made \subseteq reached /\ there \subseteq {p \in Written(a) : read[a][p] # None}
          /\ cut \subseteq there
          /\ PartlyWritten(a, reached, made, there, cut)
    <3>1. PICK r \in IF Rebuilds(a) THEN SUBSET Scope ELSE {{}} :
            \E made \in SUBSET r, there \in SUBSET {p \in Written(a) : read[a][p] # None} :
            \E cut \in SUBSET there : PartlyWritten(a, r, made, there, cut)
      BY <1>2, Zenon DEF LeavesIndex
    <3>2. PICK m \in SUBSET r, t \in SUBSET {p \in Written(a) : read[a][p] # None} :
            \E cut \in SUBSET t : PartlyWritten(a, r, m, t, cut)
      BY <3>1, Zenon
    <3>3. PICK c \in SUBSET t : PartlyWritten(a, r, m, t, c)
      BY <3>2, Zenon
    <3>4. r \subseteq Scope /\ m \subseteq Scope /\ t \subseteq Path /\ c \subseteq Path
      BY <3>1, <3>2, <3>3 DEF Written, TypeOK
    <3> QED BY <3>1, <3>2, <3>3, <3>4, Zenon
  <2>2. /\ built' = (built \ reached) \cup made
        /\ indexed' = [p \in Path |-> IF p \in there THEN read[a][p]
                                     ELSE IF ScopeOf[p] \in reached THEN None ELSE indexed[p]]
        /\ partial' = {p \in partial \ there : ScopeOf[p] \notin reached} \cup cut
        /\ newest' = [p \in Path |-> IF p \in there THEN Later(read[a][p], newest[p]) ELSE newest[p]]
    BY <2>1, Zenon DEF PartlyWritten
  <2>3. /\ reached \in SUBSET Scope /\ (~Rebuilds(a) => reached = {} /\ built' = built)
        /\ there \in SUBSET Written(a) /\ \A p \in there : read[a][p] # None
    BY <2>1, <2>2
  <2>4. /\ built' \subseteq Scope /\ partial' \subseteq Path
        /\ \A p \in Path \ there : p \in partial' => p \in partial
    BY <2>1, <2>2, <2>3 DEF TypeOK
  <2> QED BY <1>2, <2>2, <2>3, <2>4, Zenon
<1> QED BY <1>1, <1>2

\* So the index keeps its types.
LEMMA LeftTypes ==
  ASSUME TypeOK, NEW a \in Actor, LeavesIndex(a)
  PROVE  /\ indexed' \in Snapshot /\ newest' \in [Path -> Mtime]
         /\ partial' \subseteq Path /\ built' \subseteq Scope
<1>1. CASE UNCHANGED <<index, newest>>
  BY <1>1 DEF TypeOK, index
<1>2. ASSUME NEW there \in SUBSET Written(a), NEW reached \in SUBSET Scope,
             \A p \in there : read[a][p] # None,
             indexed' = [p \in Path |-> IF p \in there THEN read[a][p]
                                       ELSE IF ScopeOf[p] \in reached THEN None ELSE indexed[p]],
             newest' = [p \in Path |-> IF p \in there THEN Later(read[a][p], newest[p]) ELSE newest[p]],
             built' \subseteq Scope /\ partial' \subseteq Path
      PROVE  /\ indexed' \in Snapshot /\ newest' \in [Path -> Mtime]
             /\ partial' \subseteq Path /\ built' \subseteq Scope
  BY <1>2, WatcherAssumption DEF TypeOK, Snapshot, Mtime, Later
<1> QED BY <1>1, <1>2, WhatIsLeft, Zenon

\* Every step keeps the types, and returns a tool when it ends.
LEMMA TypesStep == Types /\ [Next]_vars => Types'
<1> SUFFICES ASSUME Types, [Next]_vars PROVE Types'
  OBVIOUS
<1> USE WatcherAssumption DEF Types, TypeOK, ToolPlaces, Actor, Leased, Snapshot, Mtime, Nothing,
        Go, Visit, Forget, Acquire, index, watcher, local, observers
<1>1. ASSUME NEW p \in Path, Write(p) \/ Remove(p) PROVE Types'
  BY <1>1 DEF Write, Remove
<1>2. CASE OtherTakes \/ OtherLeaves
  BY <1>2 DEF OtherTakes, OtherLeaves
<1>3. CASE Crash
  <2>1. /\ at' \in [Actor -> Leased \cup {"dead", "waiting", "scanning", "wanting", "advancing"}]
        /\ \A a \in Actor : at'[a] \notin Leased /\ lease' # a
        /\ lease' \in Actor \cup {Other, None}
    BY <1>3 DEF Crash
  <2>2. botched' \subseteq Path
    BY <1>3 DEF Crash, Begun
  <2>3. /\ indexed' \in Snapshot /\ newest' \in [Path -> Mtime]
        /\ partial' \subseteq Path /\ built' \subseteq Scope
    <3>1. CASE lease \in Actor
      BY <1>3, <3>1, LeftTypes DEF Crash
    <3>2. CASE lease \notin Actor
      BY <1>3, <3>2 DEF Crash
    <3> QED BY <3>1, <3>2
  <2> QED BY <1>3, <2>1, <2>2, <2>3 DEF Crash
<1>4. ASSUME NEW a \in Actor, NEW p \in Path, Scan(a, p) \/ ReadPath(a, p) PROVE Types'
  <2>1. CASE Scan(a, p) BY <2>1 DEF Scan
  <2>2. CASE ReadPath(a, p) BY <2>2 DEF ReadPath
  <2> QED BY <1>4, <2>1, <2>2
<1>5. ASSUME NEW a \in Actor, BeginWriting(a) \/ ReleaseFails(a) PROVE Types'
  <2>1. CASE BeginWriting(a) BY <2>1 DEF BeginWriting
  <2>2. CASE ReleaseFails(a) BY <2>2 DEF ReleaseFails
  <2> QED BY <1>5, <2>1, <2>2
<1>6. ASSUME NEW a \in Actor, WriteIndex(a) PROVE Types'
  <2>1. /\ indexed' \in Snapshot /\ newest' \in [Path -> Mtime]
        /\ partial' \subseteq Path /\ built' \subseteq Scope /\ botched' \subseteq Path
    BY <1>6 DEF WriteIndex, Later, Written, Scope
  <2> QED BY <1>6, <2>1 DEF WriteIndex
<1>7. ASSUME NEW a \in Actor, Fail(a) PROVE Types'
  <2>1. /\ indexed' \in Snapshot /\ newest' \in [Path -> Mtime]
        /\ partial' \subseteq Path /\ built' \subseteq Scope
    BY <1>7, LeftTypes DEF Fail
  <2>2. botched' \subseteq Path
    BY <1>7 DEF Fail, Begun
  <2> QED BY <1>7, <2>1, <2>2 DEF Fail
<1>8. ASSUME NEW l \in Loop, Wake(l) PROVE Types'
  <2>1. CASE stopping
    BY <1>8, <2>1 DEF Wake
  <2>2. CASE ~stopping
    <3>1. /\ at' = [at EXCEPT ![l] = "scanning"] /\ todo' = [todo EXCEPT ![l] = Path]
          /\ at[l] = "waiting" /\ l # Tool
          /\ UNCHANGED <<tree, edits, index, lease, watcher, op, current, touched, read, captured, observers>>
      BY <1>8, <2>2 DEF Wake
    <3> QED BY <3>1
  <2> QED BY <2>1, <2>2
<1>9. ASSUME NEW l \in Loop, Compare(l) PROVE Types'
  <2>1. CASE Diff(l) = {}
    <3>1. /\ baseline' = current[l] /\ Go(l, "waiting") /\ Forget(l) /\ at[l] = "scanning"
          /\ UNCHANGED <<tree, edits, index, lease, stopping, thread, op, observers>>
      BY <1>9, <2>1, Zenon DEF Compare
    <3> QED BY <3>1
  <2>2. CASE Diff(l) # {}
    <3>1. /\ at' = [at EXCEPT ![l] = "wanting"] /\ at[l] = "scanning" /\ l # Tool
          /\ touched' = [touched EXCEPT ![l] = Diff(l)] /\ Diff(l) \subseteq Path
          /\ UNCHANGED <<tree, edits, index, lease, watcher, op, todo, current, read, captured, observers>>
      BY <1>9, <2>2 DEF Compare, Diff
    <3> QED BY <3>1
  <2> QED BY <2>1, <2>2
<1>10. ASSUME NEW l \in Loop, ScanRaises(l) \/ LoopAcquires(l) \/ LoopTurnedAway(l) PROVE Types'
  <2>1. CASE ScanRaises(l) BY <2>1 DEF ScanRaises
  <2>2. CASE LoopAcquires(l) BY <2>2 DEF LoopAcquires
  <2>3. CASE LoopTurnedAway(l) BY <2>3 DEF LoopTurnedAway
  <2> QED BY <1>10, <2>1, <2>2, <2>3
<1>11. ASSUME NEW l \in Loop, LoopNotifies(l) \/ LoopReleases(l) \/ Advance(l) PROVE Types'
  <2>1. CASE LoopNotifies(l) BY <2>1 DEF LoopNotifies
  <2>2. CASE LoopReleases(l) BY <2>2 DEF LoopReleases
  <2>3. CASE Advance(l) BY <2>3 DEF Advance
  <2> QED BY <1>11, <2>1, <2>2, <2>3
<1>12. ASSUME NEW kind \in {"start", "stop", "reindex", "rebuild"}, Call(kind) PROVE Types'
  BY <1>12 DEF Call
<1>13. CASE ToolTurnedAway \/ BeginCapture \/ BeginReconcile
  BY <1>13 DEF ToolTurnedAway, BeginCapture, BeginReconcile
<1>14. CASE Reconcile \/ StartGivesUp \/ ToolNotified
  BY <1>14 DEF Reconcile, Stale, StartGivesUp, ToolNotified
<1>15. ASSUME NEW l \in Loop, StartThread(l) PROVE Types'
  <2>1. /\ l # Tool /\ lease = Tool
        /\ at' = [at EXCEPT ![l] = "waiting", ![Tool] = "releasing"]
        /\ shared' \in BOOLEAN
    BY <1>15 DEF StartThread
  <2>2. /\ at' \in [Actor -> Leased \cup {"dead", "waiting", "scanning", "wanting", "advancing"}]
        /\ \A a \in Actor : at'[a] \in Leased <=> lease = a
    BY <1>15, <2>1 DEF StartThread
  <2> QED BY <1>15, <2>1, <2>2 DEF StartThread
<1>16. CASE BeginStop \/ JoinThread \/ ToolReturns
  <2>1. CASE BeginStop BY <2>1 DEF BeginStop
  <2>2. CASE JoinThread BY <2>2 DEF JoinThread
  <2>3. CASE ToolReturns BY <2>3 DEF ToolReturns
  <2> QED BY <1>16, <2>1, <2>2, <2>3
<1>17. ASSUME NEW paths \in SUBSET Path \ {{}}, BeginReindex(paths) PROVE Types'
  BY <1>17 DEF BeginReindex
<1>18. CASE UNCHANGED vars
  BY <1>18 DEF vars
<1> QED
  BY <1>1, <1>2, <1>3, <1>4, <1>5, <1>6, <1>7, <1>8, <1>9, <1>10, <1>11, <1>12, <1>13, <1>14, <1>15,
     <1>16, <1>17, <1>18, StepCases, Zenon
     DEF Environment, SharedStep, Indexing, LoopOwnStep, ToolOwnStep

-----------------------------------------------------------------------------
(* The inductive invariant *)

\* A version somebody has seen is not after the last edit, nor after the file there is:
\* so what is written now differs from all that was seen before.
Past(p, v) == v = None \/ (v <= edits /\ (tree[p] # None => v <= tree[p]))
SnapshotsArePast ==
  \A p \in Path :
    /\ Past(p, tree[p]) /\ Past(p, baseline[p]) /\ Past(p, captured[p]) /\ Past(p, newest[p])
    /\ \A a \in Actor : Past(p, current[a][p]) /\ Past(p, read[a][p])

\* What is indexed, and what is about to be, is not older than what ever was.
NewestIsIndexed ==
  \A p \in Path :
    /\ indexed[p] # None => indexed[p] = newest[p]
    /\ \A a \in Actor : at[a] \in {"reading", "writing"} /\ p \in touched[a] \ todo[a]
         => read[a][p] = None \/ newest[p] <= read[a][p]

\* Where actors are, relative to their work, to the tool under way and to each other:
\* start_watcher and rebuild_index never index while the watcher runs, and unless the
\* snapshot is shared the other threads are dead.
Progress ==
  /\ \A a \in Actor : at[a] = "reading" => todo[a] \subseteq touched[a]
  /\ \A a \in Actor : at[a] \in {"dead", "waiting", "wanting", "writing", "notifying"} => todo[a] = {}
  /\ \A l \in Loop : at[l] \notin {"joining", "capturing", "planning", "ready"}
  /\ at[Tool] \notin {"dead", "scanning", "advancing"}
  /\ at[Tool] \in {"capturing", "planning", "notifying", "ready"} => op = "start"
  /\ at[Tool] \in {"reading", "writing"} => op # "stop"
  /\ captured # Nothing
       => op = "start" /\ at[Tool] \in {"planning", "reading", "writing", "notifying", "ready"}
  /\ IsRunning => /\ op = "start" => at[Tool] = "releasing"
                  /\ op = "rebuild" => at[Tool] \notin {"reading", "writing"}
  /\ IsRunning /\ ~shared => \A l \in Loop \ {thread} : at[l] = "dead"

\* The file of p is in the snapshot of the watcher, in the one it is started with, or in
\* one that a thread which does not reindex p, or no longer does, will leave as the
\* watcher's: some comparison to come may pass over p.
Trusted(p) ==
  \/ baseline[p] = tree[p]
  \/ captured[p] = tree[p]
  \/ \E l \in Loop :
       /\ current[l][p] = tree[p]
       /\ \/ at[l] \in {"wanting", "reading", "writing"} /\ p \notin touched[l]
          \/ at[l] \in {"notifying", "releasing", "advancing"}

\* Somebody has deleted the points of p to write them anew, or start_watcher will.
InHand(p) ==
  \E a \in Actor :
    /\ at[a] \in {"reading", "writing"} /\ p \in touched[a]
    /\ p \notin todo[a] \/ (a = Tool /\ op = "start")

\* start_watcher has planned its reconcile.
Starting == op = "start" /\ at[Tool] \in {"reading", "writing", "notifying", "ready"}

\* A file that a comparison may pass over is indexed as it is, all of it, or botched or
\* in hand, or there is no collection for it.
TrustIsEarned ==
  IsRunning \/ Starting => \A p \in Path :
    tree[p] # None /\ Trusted(p) => IsIndexed(p) \/ p \in botched \/ InHand(p) \/ ~HasCurrent(p)

\* Who has read p after its snapshot, or after one that is trusted, has read the file
\* there still is, when the snapshot shows that one.
ReadingsAreRecent ==
  \A a \in Actor : at[a] \in {"reading", "writing"} => \A p \in touched[a] \ todo[a] :
    tree[p] # None /\ (Trusted(p) \/ current[a][p] = tree[p]) => read[a][p] = tree[p]

\* So has the scan of reconcile_index, ...
PlanIsRecent ==
  at[Tool] = "planning" => \A p \in Path \ todo[Tool] :
    tree[p] # None /\ Trusted(p) => current[Tool][p] = tree[p]

\* ... and the scan of the one polling thread, ...
ScanIsRecent ==
  IsRunning /\ ~shared /\ at[thread] = "scanning" => \A p \in Path \ todo[thread] :
    tree[p] # None /\ baseline[p] = tree[p] => current[thread][p] = tree[p]

\* ... so that what this thread reindexes is not as the snapshot has it: when it fails,
\* the next comparison finds it again.
ChangesAreNew ==
  IsRunning /\ ~shared /\ at[thread] \in {"wanting", "reading", "writing"} => \A p \in touched[thread] :
    tree[p] # None => baseline[p] # tree[p]

IInv ==
  /\ Types /\ Progress /\ SnapshotsArePast /\ NewestIsIndexed
  /\ TrustIsEarned /\ ReadingsAreRecent /\ PlanIsRecent /\ ScanIsRecent /\ ChangesAreNew

\* At first no polling thread runs, and there is no path to trust.
LEMMA IInvInit == Init => IInv
<1> SUFFICES ASSUME Init PROVE IInv
  OBVIOUS
<1>1. Types
  BY TypesInit
<1>2. Progress
  BY <1>1, WatcherAssumption DEF Init, Progress, IsRunning, Actor, Nothing
<1>3. SnapshotsArePast /\ NewestIsIndexed
  BY WatcherAssumption DEF Init, SnapshotsArePast, NewestIsIndexed, Past, Actor, Nothing
<1>4. TrustIsEarned /\ ReadingsAreRecent /\ PlanIsRecent /\ ScanIsRecent /\ ChangesAreNew
  BY WatcherAssumption DEF Init, TrustIsEarned, ReadingsAreRecent, PlanIsRecent, ScanIsRecent,
     ChangesAreNew, IsRunning, Starting, Actor
<1> QED BY <1>1, <1>2, <1>3, <1>4 DEF IInv

\* What a polling thread does outside of reading and writing takes no trust away
\* from a path and gives none that is not earned.
LEMMA LoopOutside ==
  ASSUME Types, TrustIsEarned, NEW l \in Loop, NEW where \in {"dead", "waiting", "scanning", "wanting"},
         UNCHANGED <<tree, index, thread, op, captured, botched>>,
         at[l] \notin {"dead", "reading", "writing"}, Go(l, where),
         \A a \in Actor \ {l} :
           touched'[a] = touched[a] /\ todo'[a] = todo[a] /\ current'[a] = current[a],
         \A p \in Path : \/ baseline'[p] = baseline[p]
                         \/ at[l] = "advancing" /\ baseline'[p] = current[l][p],
         where = "wanting" => \A p \in Path \ touched'[l] : current'[l][p] = baseline[p]
  PROVE  TrustIsEarned'
<1> USE WatcherAssumption DEF Types, TypeOK, Actor, Go
<1>1. at' = [at EXCEPT ![l] = where] /\ l \in Actor /\ l # Tool /\ Tool \in Actor /\ Loop \subseteq Actor
  OBVIOUS
<1>2. IsRunning' \/ Starting' => IsRunning \/ Starting
  BY <1>1 DEF IsRunning, Starting
<1>3. ASSUME NEW p \in Path, Trusted(p)' PROVE Trusted(p)
  BY <1>1, <1>3 DEF Trusted
<1>4. ASSUME NEW p \in Path, InHand(p) PROVE InHand(p)'
  <2>1. PICK a \in Actor : /\ at[a] \in {"reading", "writing"} /\ p \in touched[a]
                           /\ p \notin todo[a] \/ (a = Tool /\ op = "start")
    BY <1>4, Zenon DEF InHand
  <2>2. a # l /\ at'[a] = at[a]
    BY <1>1, <2>1
  <2> QED BY <2>1, <2>2 DEF InHand
<1>5. ASSUME NEW p \in Path, IsIndexed(p) \/ ~HasCurrent(p) PROVE IsIndexed(p)' \/ ~HasCurrent(p)'
  BY <1>5 DEF IsIndexed, HasCurrent, index
<1> QED BY <1>2, <1>3, <1>4, <1>5 DEF TrustIsEarned

\* A reading that is not older than the newest version becomes the newest version.
LEMMA LaterReading ==
  ASSUME NEW v \in Nat, NEW w \in Nat, w <= v
  PROVE  Later(v, w) = v
BY WatcherAssumption DEF Later

\* What an operation that ends early leaves is the newest version, or nothing.
LEMMA LeftIsNewest ==
  ASSUME Types, Progress, SnapshotsArePast, NewestIsIndexed, NEW a \in Actor, LeavesIndex(a),
         NEW p \in Path
  PROVE  /\ indexed'[p] # None => indexed'[p] = newest'[p]
         /\ Past(p, newest'[p])
<1>1. CASE UNCHANGED <<index, newest>>
  BY <1>1 DEF index, NewestIsIndexed, SnapshotsArePast
<1>2. ASSUME at[a] = "writing", NEW there \in SUBSET Written(a), NEW reached \in SUBSET Scope,
             \A q \in there : read[a][q] # None,
             indexed' = [q \in Path |-> IF q \in there THEN read[a][q]
                                       ELSE IF ScopeOf[q] \in reached THEN None ELSE indexed[q]],
             newest' = [q \in Path |-> IF q \in there THEN Later(read[a][q], newest[q]) ELSE newest[q]]
      PROVE  /\ indexed'[p] # None => indexed'[p] = newest'[p]
             /\ Past(p, newest'[p])
  <2>1. CASE p \in there
    <3>1. /\ p \in touched[a] \ todo[a] /\ read[a][p] \in Nat /\ newest[p] \in Nat
          /\ indexed'[p] = read[a][p] /\ newest'[p] = Later(read[a][p], newest[p])
      BY <1>2, <2>1, WatcherAssumption DEF Written, Types, TypeOK, Progress, Snapshot, Mtime
    <3>2. newest[p] <= read[a][p]
      BY <1>2, <3>1, WatcherAssumption DEF NewestIsIndexed
    <3> QED BY <3>1, <3>2, LaterReading DEF SnapshotsArePast
  <2>2. CASE p \notin there
    BY <1>2, <2>2 DEF NewestIsIndexed, SnapshotsArePast
  <2> QED BY <2>1, <2>2
<1> QED BY <1>1, <1>2, WhatIsLeft, Zenon DEF Types

\* Every step preserves every part of the invariant.
LEMMA IInvStep == IInv /\ [Next]_vars => IInv'
<1> SUFFICES ASSUME IInv, [Next]_vars PROVE IInv'
  OBVIOUS
<1>0. Types'
  BY TypesStep DEF IInv
<1> USE <1>0, WatcherAssumption DEF IInv, Types, TypeOK, ToolPlaces, Actor, Leased, Snapshot, Mtime,
        Nothing, Go, Visit, Forget, Acquire, index, watcher, local, observers,
        Progress, IsRunning, Past, SnapshotsArePast

<1>1. ASSUME NEW p \in Path, Write(p) \/ Remove(p) PROVE IInv'
  <2>1. CASE Write(p)
    <3>1. Progress'
      BY <2>1 DEF Write
    <3>2. SnapshotsArePast' /\ NewestIsIndexed'
      BY <2>1 DEF Write, NewestIsIndexed
    <3>3. ReadingsAreRecent' /\ PlanIsRecent'
      <4>1. ASSUME NEW q \in Path, Trusted(q)' PROVE Trusted(q) /\ tree'[q] = tree[q]
        BY <2>1, <4>1 DEF Write, Trusted
      <4>2. ASSUME NEW q \in Path, NEW a \in Actor, current[a][q] = tree'[q] PROVE tree'[q] = tree[q]
        BY <2>1, <4>2 DEF Write
      <4> QED BY <2>1, <4>1, <4>2 DEF Write, ReadingsAreRecent, PlanIsRecent
    <3>4. ScanIsRecent' /\ ChangesAreNew'
      BY <2>1 DEF Write, ScanIsRecent, ChangesAreNew
    <3>5. TrustIsEarned'
      BY <2>1 DEF Write, TrustIsEarned, Trusted, InHand, Starting, PlanIsRecent, IsIndexed, HasCurrent
    <3> QED BY <3>1, <3>2, <3>3, <3>4, <3>5, Zenon
  <2>2. CASE Remove(p) BY <2>2 DEF Remove,
     NewestIsIndexed, TrustIsEarned, ReadingsAreRecent, PlanIsRecent, ScanIsRecent, ChangesAreNew,
     Starting, Trusted, InHand, IsIndexed, HasCurrent
  <2> QED BY <1>1, <2>1, <2>2, Zenon
<1>2. CASE OtherTakes \/ OtherLeaves
  <2>1. CASE OtherTakes BY <2>1 DEF OtherTakes,
     NewestIsIndexed, TrustIsEarned, ReadingsAreRecent, PlanIsRecent, ScanIsRecent, ChangesAreNew,
     Starting, Trusted, InHand, IsIndexed, HasCurrent
  <2>2. CASE OtherLeaves BY <2>2 DEF OtherLeaves,
     NewestIsIndexed, TrustIsEarned, ReadingsAreRecent, PlanIsRecent, ScanIsRecent, ChangesAreNew,
     Starting, Trusted, InHand, IsIndexed, HasCurrent
  <2> QED BY <1>2, <2>1, <2>2, Zenon
<1>3. CASE Crash
  <2>1. Progress'
    BY <1>3 DEF Crash
  <2>2. ASSUME NEW p \in Path
        PROVE (indexed'[p] # None => indexed'[p] = newest'[p]) /\ Past(p, newest'[p])
    <3>1. CASE lease \in Actor
      BY <1>3, <3>1, LeftIsNewest, Zenon DEF Crash
    <3>2. CASE lease \notin Actor
      BY <1>3, <3>2 DEF Crash, NewestIsIndexed
    <3> QED BY <3>1, <3>2
  <2>3. SnapshotsArePast' /\ NewestIsIndexed'
    BY <1>3, <2>2 DEF Crash, NewestIsIndexed
  <2>4. ReadingsAreRecent' /\ PlanIsRecent'
    BY <1>3 DEF Crash, ReadingsAreRecent, PlanIsRecent
  <2>5. TrustIsEarned' /\ ScanIsRecent' /\ ChangesAreNew'
    BY <1>3 DEF Crash, TrustIsEarned, Starting, ScanIsRecent, ChangesAreNew
  <2> QED BY <2>1, <2>3, <2>4, <2>5, Zenon
<1>4. ASSUME NEW a \in Actor, NEW p \in Path, Scan(a, p) PROVE IInv'
  <2>1. Progress'
    BY <1>4 DEF Scan
  <2>2. SnapshotsArePast' /\ NewestIsIndexed'
    BY <1>4 DEF Scan, NewestIsIndexed
  <2>3. ReadingsAreRecent' /\ PlanIsRecent'
    BY <1>4 DEF Scan, ReadingsAreRecent, PlanIsRecent, Trusted
  <2>4. ScanIsRecent' /\ ChangesAreNew'
    BY <1>4 DEF Scan, ScanIsRecent, ChangesAreNew
  <2>5. TrustIsEarned'
    BY <1>4 DEF Scan, TrustIsEarned, Trusted, InHand, Starting, PlanIsRecent, IsIndexed, HasCurrent
  <2> QED BY <2>1, <2>2, <2>3, <2>4, <2>5, Zenon
<1>5. ASSUME NEW a \in Actor, NEW p \in Path, ReadPath(a, p) PROVE IInv'
  <2>1. Progress'
    BY <1>5 DEF ReadPath
  <2>2. SnapshotsArePast' /\ NewestIsIndexed'
    BY <1>5 DEF ReadPath, NewestIsIndexed
  <2>3. ReadingsAreRecent' /\ PlanIsRecent'
    BY <1>5 DEF ReadPath, ReadingsAreRecent, PlanIsRecent, Trusted
  <2>4. ScanIsRecent' /\ ChangesAreNew'
    BY <1>5 DEF ReadPath, ScanIsRecent, ChangesAreNew
  <2>5. TrustIsEarned'
    BY <1>5 DEF ReadPath, TrustIsEarned, Trusted, InHand, Starting, PlanIsRecent, IsIndexed, HasCurrent
  <2> QED BY <2>1, <2>2, <2>3, <2>4, <2>5, Zenon
<1>6. ASSUME NEW a \in Actor, BeginWriting(a) PROVE IInv'
  <2>1. Progress'
    BY <1>6 DEF BeginWriting
  <2>2. SnapshotsArePast' /\ NewestIsIndexed'
    BY <1>6 DEF BeginWriting, NewestIsIndexed
  <2>3. ReadingsAreRecent' /\ PlanIsRecent'
    BY <1>6 DEF BeginWriting, ReadingsAreRecent, PlanIsRecent, Trusted
  <2>4. ScanIsRecent' /\ ChangesAreNew'
    BY <1>6 DEF BeginWriting, ScanIsRecent, ChangesAreNew
  <2>5. TrustIsEarned'
    BY <1>6 DEF BeginWriting, TrustIsEarned, Trusted, InHand, Starting, PlanIsRecent, IsIndexed, HasCurrent
  <2> QED BY <2>1, <2>2, <2>3, <2>4, <2>5, Zenon
<1>7. ASSUME NEW a \in Actor, WriteIndex(a) PROVE IInv'
  <2>1. Progress'
    BY <1>7 DEF WriteIndex, Later
  <2>0. Written(a) \subseteq touched[a] /\ touched[a] \subseteq Path
    BY DEF Written
  <2>2. SnapshotsArePast' /\ NewestIsIndexed'
    <3>1. SnapshotsArePast'
      BY <1>7 DEF WriteIndex, Later
    <3>2. ASSUME NEW b \in Actor PROVE at'[b] \notin {"reading", "writing"}
      BY <1>7 DEF WriteIndex
    <3>3. ASSUME NEW p \in Path, indexed'[p] # None PROVE indexed'[p] = newest'[p]
      <4>1. CASE p \in Written(a)
        <5>1. /\ at[a] = "writing" /\ p \in touched[a] \ todo[a] /\ read[a][p] \in Mtime /\ newest[p] \in Nat
              /\ indexed'[p] = read[a][p] /\ newest'[p] = Later(read[a][p], newest[p])
          BY <1>7, <2>0, <3>3, <4>1 DEF WriteIndex
        <5>2. newest[p] <= read[a][p]
          BY <5>1 DEF NewestIsIndexed
        <5> QED BY <5>1, <5>2, LaterReading
      <4>2. CASE p \notin Written(a)
        BY <1>7, <3>3, <4>2 DEF WriteIndex, NewestIsIndexed
      <4> QED BY <4>1, <4>2
    <3> QED BY <3>1, <3>2, <3>3 DEF NewestIsIndexed
  <2>3. ReadingsAreRecent' /\ PlanIsRecent'
    BY <1>7 DEF WriteIndex, Later, ReadingsAreRecent, PlanIsRecent, Trusted
  <2>4. ScanIsRecent' /\ ChangesAreNew'
    BY <1>7 DEF WriteIndex, Later, ScanIsRecent, ChangesAreNew
  <2>5. TrustIsEarned'
    <3>1. \A b \in Actor : at[b] \in {"reading", "writing"} => b = a
      BY <1>7 DEF WriteIndex
    <3>2. IsRunning' \/ Starting' => (IsRunning \/ Starting) /\ ~Rebuilds(a)
      BY <1>7 DEF WriteIndex, Starting, Rebuilds
    <3>3. ASSUME NEW p \in Path \ touched[a], Trusted(p)' PROVE Trusted(p) /\ ~InHand(p)
      BY <1>7, <3>1, <3>3 DEF WriteIndex, Trusted, InHand
    <3>4. ASSUME NEW p \in touched[a], Trusted(p)' PROVE Trusted(p) \/ current[a][p] = tree[p]
      BY <1>7, <3>4 DEF WriteIndex, Trusted
    <3>5. ASSUME NEW p \in Written(a), Trusted(p)', tree[p] # None PROVE IsIndexed(p)'
      <4>1. indexed'[p] = read[a][p] /\ p \notin partial' /\ UNCHANGED tree
            /\ p \in touched[a] \ todo[a] /\ at[a] = "writing"
        BY <1>7, <2>0, <3>5 DEF WriteIndex
      <4> QED BY <3>4, <3>5, <4>1 DEF ReadingsAreRecent, IsIndexed
    <3>6. ASSUME NEW p \in Path \ touched[a]
          PROVE  (IsIndexed(p) => IsIndexed(p)') /\ (p \in botched => p \in botched')
      BY <1>7, <2>0 DEF WriteIndex, IsIndexed
    <3>7. UNCHANGED tree /\ (~Rebuilds(a) => UNCHANGED built)
      BY <1>7 DEF WriteIndex
    <3>8. ~Rebuilds(a) => \A p \in touched[a] : p \in Written(a) \/ ~HasCurrent(p)'
      BY <3>7 DEF Written, HasCurrent
    <3>9. ~Rebuilds(a) => \A p \in Path : ~HasCurrent(p) => ~HasCurrent(p)'
      BY <3>7 DEF HasCurrent
    <3> QED BY <2>0, <3>2, <3>3, <3>5, <3>6, <3>7, <3>8, <3>9 DEF TrustIsEarned
  <2> QED BY <2>1, <2>2, <2>3, <2>4, <2>5, Zenon
<1>8. ASSUME NEW a \in Actor, Fail(a) PROVE IInv'
  <2>0. /\ at[a] \in {"reading", "writing", "notifying"} /\ lease = a
        /\ at' = [at EXCEPT ![a] = "waiting"] /\ Forget(a)
        /\ UNCHANGED <<tree, edits, baseline, stopping, thread, shared>>
        /\ botched \subseteq botched' /\ (a = Tool \/ shared => Begun(a) \subseteq botched')
        /\ op' = IF a = Tool THEN "none" ELSE op
        /\ LeavesIndex(a)
    BY <1>8 DEF Fail
  <2>1. Progress'
    BY <2>0
  <2>2. SnapshotsArePast' /\ NewestIsIndexed'
    <3>1. ASSUME NEW p \in Path
          PROVE (indexed'[p] # None => indexed'[p] = newest'[p]) /\ Past(p, newest'[p])
      BY <2>0, LeftIsNewest
    <3>2. SnapshotsArePast'
      BY <2>0, <3>1
    <3>3. ASSUME NEW b \in Actor PROVE at'[b] \notin {"reading", "writing"}
      BY <2>0
    <3> QED BY <3>1, <3>2, <3>3 DEF NewestIsIndexed
  <2>3. ReadingsAreRecent' /\ PlanIsRecent'
    BY <2>0 DEF ReadingsAreRecent, PlanIsRecent, Trusted
  <2>4. ScanIsRecent' /\ ChangesAreNew'
    BY <2>0 DEF ScanIsRecent, ChangesAreNew
  <2>5. TrustIsEarned'
    <3>1. \A b \in Actor : at[b] \in Leased => b = a
      BY <2>0
    <3>2. IsRunning' \/ Starting' => IsRunning /\ (at[a] = "writing" => ~Rebuilds(a))
      BY <2>0, <3>1 DEF Starting, Rebuilds
    <3>3. ASSUME NEW p \in Path, tree[p] # None, Trusted(p)' PROVE Trusted(p)
      BY <2>0, <3>3 DEF Trusted
    <3>4. ASSUME NEW p \in Path, InHand(p), IsRunning PROVE p \in Begun(a)
      BY <2>0, <3>1, <3>4 DEF InHand, Begun, Rebuilds
    <3>6. ASSUME NEW p \in Path, IsRunning, p \notin Begun(a) \/ at[a] = "notifying"
          PROVE (IsIndexed(p) => IsIndexed(p)') /\ (~HasCurrent(p) => ~HasCurrent(p)')
      <4>1. CASE UNCHANGED <<index, newest>>
        BY <2>0, <4>1 DEF IsIndexed, HasCurrent
      <4>2. ASSUME at[a] = "writing", NEW there \in SUBSET Written(a), NEW reached \in SUBSET Scope,
                   ~Rebuilds(a) => reached = {} /\ built' = built,
                   indexed' = [q \in Path |-> IF q \in there THEN read[a][q]
                                             ELSE IF ScopeOf[q] \in reached THEN None ELSE indexed[q]],
                   \A q \in Path \ there : q \in partial' => q \in partial
            PROVE  (IsIndexed(p) => IsIndexed(p)') /\ (~HasCurrent(p) => ~HasCurrent(p)')
        <5>1. ~Rebuilds(a) /\ Begun(a) = touched[a]
          BY <3>6, <4>2 DEF Rebuilds, Begun
        <5>2. p \notin there
          BY <3>6, <4>2, <5>1 DEF Written
        <5> QED BY <2>0, <4>2, <5>1, <5>2 DEF IsIndexed, HasCurrent
      <4> QED BY <4>1, <4>2, WhatIsLeft, <2>0, Zenon
    <3>5. ASSUME NEW p \in Begun(a), IsRunning, tree[p] # None, Trusted(p)', a # Tool, ~shared
          PROVE  IsIndexed(p)' \/ p \in botched' \/ ~HasCurrent(p)'
      <4>1. a = thread
        BY <2>0, <3>5
      <4>2. p \in touched[a] /\ p \in Path
        BY <2>0, <3>5 DEF Begun
      <4>3. captured[p] = None
        BY <2>0, <3>1, <3>5, <4>2
      <4>4. Trusted(p)' => baseline[p] = tree[p]
        BY <2>0, <3>5, <4>1, <4>3 DEF Trusted
      <4>5. CASE at[a] \in {"reading", "writing"}
        BY <3>5, <4>1, <4>2, <4>4, <4>5 DEF ChangesAreNew
      <4>6. CASE at[a] = "notifying"
        <5>1. ~InHand(p)
          BY <3>1, <4>6 DEF InHand
        <5> QED BY <2>0, <3>3, <3>5, <3>6, <4>2, <4>6, <5>1 DEF TrustIsEarned
      <4> QED BY <2>0, <4>5, <4>6
    <3> QED BY <2>0, <3>2, <3>3, <3>4, <3>5, <3>6 DEF TrustIsEarned
  <2> QED BY <2>1, <2>2, <2>3, <2>4, <2>5, Zenon
<1>9. ASSUME NEW a \in Actor, ReleaseFails(a) PROVE IInv'
  <2>1. Progress'
    BY <1>9 DEF ReleaseFails
  <2>2. SnapshotsArePast' /\ NewestIsIndexed'
    BY <1>9 DEF ReleaseFails, NewestIsIndexed
  <2>3. ReadingsAreRecent' /\ PlanIsRecent'
    BY <1>9 DEF ReleaseFails, ReadingsAreRecent, PlanIsRecent, Trusted
  <2>4. ScanIsRecent' /\ ChangesAreNew'
    BY <1>9 DEF ReleaseFails, ScanIsRecent, ChangesAreNew
  <2>5. TrustIsEarned'
    <3>1. CASE a = Tool
      BY <1>9, <3>1 DEF ReleaseFails, TrustIsEarned, Trusted, InHand, Starting, IsIndexed, HasCurrent
    <3>2. CASE a \in Loop
      BY <1>9, <3>2, LoopOutside DEF ReleaseFails
    <3> QED BY <3>1, <3>2
  <2> QED BY <2>1, <2>2, <2>3, <2>4, <2>5, Zenon
<1>10. ASSUME NEW l \in Loop, Wake(l) PROVE IInv'
  <2>1. Progress'
    BY <1>10 DEF Wake
  <2>2. SnapshotsArePast' /\ NewestIsIndexed'
    BY <1>10 DEF Wake, NewestIsIndexed
  <2>3. ReadingsAreRecent' /\ PlanIsRecent'
    <3>1. CASE stopping
      BY <1>10, <3>1 DEF Wake, ReadingsAreRecent, PlanIsRecent, Trusted
    <3>2. CASE ~stopping
      BY <1>10, <3>2 DEF Wake, ReadingsAreRecent, PlanIsRecent, Trusted
    <3> QED BY <3>1, <3>2
  <2>4. ScanIsRecent' /\ ChangesAreNew'
    BY <1>10 DEF Wake, ScanIsRecent, ChangesAreNew
  <2>5. TrustIsEarned'
    BY <1>10, LoopOutside DEF Wake
  <2> QED BY <2>1, <2>2, <2>3, <2>4, <2>5, Zenon
<1>11. ASSUME NEW l \in Loop, Compare(l) PROVE IInv'
  <2>1. CASE Diff(l) = {}
    <3>0. /\ at[l] = "scanning" /\ Go(l, "waiting") /\ Forget(l)
          /\ baseline' = current[l] /\ baseline' = baseline
          /\ UNCHANGED <<tree, edits, index, lease, stopping, thread, op, observers>>
      BY <1>11, <2>1 DEF Compare, Diff
    <3>1. Progress'
      BY <3>0
    <3>2. SnapshotsArePast' /\ NewestIsIndexed'
      BY <3>0 DEF NewestIsIndexed
    <3>3. ReadingsAreRecent' /\ PlanIsRecent'
      BY <3>0, SMTT(60) DEF ReadingsAreRecent, PlanIsRecent, Trusted
    <3>4. ScanIsRecent' /\ ChangesAreNew'
      BY <3>0 DEF ScanIsRecent, ChangesAreNew
    <3>5. TrustIsEarned'
      BY <3>0, LoopOutside
    <3> QED BY <3>1, <3>2, <3>3, <3>4, <3>5, Zenon
  <2>2. CASE Diff(l) # {}
    <3>0. /\ at[l] = "scanning" /\ todo[l] = {} /\ Go(l, "wanting")
          /\ touched' = [touched EXCEPT ![l] = {p \in Path : current[l][p] # baseline[p]}]
          /\ UNCHANGED <<tree, edits, index, lease, watcher, op, todo, current, read, captured, observers>>
      BY <1>11, <2>2 DEF Compare, Diff
    <3>1. Progress'
      BY <3>0
    <3>2. SnapshotsArePast' /\ NewestIsIndexed'
      BY <3>0 DEF NewestIsIndexed
    <3>3. ReadingsAreRecent' /\ PlanIsRecent'
      BY <3>0 DEF ReadingsAreRecent, PlanIsRecent, Trusted
    <3>4. ScanIsRecent' /\ ChangesAreNew'
      BY <3>0 DEF ScanIsRecent, ChangesAreNew
    <3>5. TrustIsEarned'
      BY <3>0, LoopOutside
    <3> QED BY <3>1, <3>2, <3>3, <3>4, <3>5, Zenon
  <2> QED BY <2>1, <2>2
<1>12. ASSUME NEW l \in Loop, ScanRaises(l) PROVE IInv'
  <2>1. Progress'
    BY <1>12 DEF ScanRaises
  <2>2. SnapshotsArePast' /\ NewestIsIndexed'
    BY <1>12 DEF ScanRaises, NewestIsIndexed
  <2>3. ReadingsAreRecent' /\ PlanIsRecent'
    BY <1>12, SMTT(60) DEF ScanRaises, ReadingsAreRecent, PlanIsRecent, Trusted
  <2>4. ScanIsRecent' /\ ChangesAreNew'
    BY <1>12 DEF ScanRaises, ScanIsRecent, ChangesAreNew
  <2>5. TrustIsEarned'
    BY <1>12, LoopOutside DEF ScanRaises
  <2> QED BY <2>1, <2>2, <2>3, <2>4, <2>5, Zenon
<1>13. ASSUME NEW l \in Loop, LoopTurnedAway(l) PROVE IInv'
  <2>1. Progress'
    BY <1>13 DEF LoopTurnedAway
  <2>2. SnapshotsArePast' /\ NewestIsIndexed'
    BY <1>13 DEF LoopTurnedAway, NewestIsIndexed
  <2>3. ReadingsAreRecent' /\ PlanIsRecent'
    BY <1>13 DEF LoopTurnedAway, ReadingsAreRecent, PlanIsRecent, Trusted
  <2>4. ScanIsRecent' /\ ChangesAreNew'
    BY <1>13 DEF LoopTurnedAway, ScanIsRecent, ChangesAreNew
  <2>5. TrustIsEarned'
    BY <1>13, LoopOutside DEF LoopTurnedAway
  <2> QED BY <2>1, <2>2, <2>3, <2>4, <2>5, Zenon
<1>14. ASSUME NEW l \in Loop, Advance(l) PROVE IInv'
  <2>1. Progress'
    BY <1>14 DEF Advance
  <2>2. SnapshotsArePast' /\ NewestIsIndexed'
    BY <1>14 DEF Advance, NewestIsIndexed
  <2>3. ReadingsAreRecent' /\ PlanIsRecent'
    <3>1. ASSUME NEW p \in Path, Trusted(p)' PROVE Trusted(p)
      BY <1>14, <3>1 DEF Advance, Trusted
    <3> QED BY <1>14, <3>1 DEF Advance, ReadingsAreRecent, PlanIsRecent
  <2>4. ScanIsRecent' /\ ChangesAreNew'
    BY <1>14 DEF Advance, ScanIsRecent, ChangesAreNew
  <2>5. TrustIsEarned'
    BY <1>14, LoopOutside DEF Advance
  <2> QED BY <2>1, <2>2, <2>3, <2>4, <2>5, Zenon
<1>15. ASSUME NEW l \in Loop, LoopAcquires(l) \/ LoopNotifies(l) \/ LoopReleases(l) PROVE IInv'
  <2>1. CASE LoopAcquires(l) BY <2>1 DEF LoopAcquires,
     NewestIsIndexed, TrustIsEarned, ReadingsAreRecent, PlanIsRecent, ScanIsRecent, ChangesAreNew,
     Starting, Trusted, InHand, IsIndexed, HasCurrent
  <2>2. CASE LoopNotifies(l) BY <2>2 DEF LoopNotifies,
     NewestIsIndexed, TrustIsEarned, ReadingsAreRecent, PlanIsRecent, ScanIsRecent, ChangesAreNew,
     Starting, Trusted, InHand, IsIndexed, HasCurrent
  <2>3. CASE LoopReleases(l) BY <2>3 DEF LoopReleases,
     NewestIsIndexed, TrustIsEarned, ReadingsAreRecent, PlanIsRecent, ScanIsRecent, ChangesAreNew,
     Starting, Trusted, InHand, IsIndexed, HasCurrent
  <2> QED BY <1>15, <2>1, <2>2, <2>3, Zenon
<1>16. ASSUME NEW kind \in {"start", "stop", "reindex", "rebuild"}, Call(kind) PROVE IInv'
  <2>1. Progress'
    <3>1. op = "none" /\ captured = Nothing /\ at' = [at EXCEPT ![Tool] = "wanting"]
      BY <1>16 DEF Call
    <3>2. IsRunning' = IsRunning
      BY <1>16, <3>1 DEF Call
    <3>3. ASSUME NEW b \in Actor, b # Tool PROVE at'[b] = at[b]
      BY <3>1, <3>3
    <3>4. IsRunning' => kind # "start"
      BY <1>16, <3>2 DEF Call
    <3> QED BY <1>16, <3>1, <3>2, <3>3, <3>4 DEF Call
  <2>2. SnapshotsArePast' /\ NewestIsIndexed'
    BY <1>16 DEF Call, NewestIsIndexed
  <2>3. ReadingsAreRecent' /\ PlanIsRecent'
    BY <1>16 DEF Call, ReadingsAreRecent, PlanIsRecent, Trusted
  <2>4. ScanIsRecent' /\ ChangesAreNew'
    BY <1>16 DEF Call, ScanIsRecent, ChangesAreNew
  <2>5. TrustIsEarned'
    BY <1>16 DEF Call, TrustIsEarned, Trusted, InHand, Starting, IsIndexed, HasCurrent
  <2> QED BY <2>1, <2>2, <2>3, <2>4, <2>5, Zenon
<1>17. CASE ToolTurnedAway \/ BeginCapture \/ StartGivesUp \/ ToolNotified
  <2>1. CASE ToolTurnedAway BY <2>1 DEF ToolTurnedAway,
     NewestIsIndexed, TrustIsEarned, ReadingsAreRecent, PlanIsRecent, ScanIsRecent, ChangesAreNew,
     Starting, Trusted, InHand, IsIndexed, HasCurrent
  <2>2. CASE BeginCapture BY <2>2 DEF BeginCapture,
     NewestIsIndexed, TrustIsEarned, ReadingsAreRecent, PlanIsRecent, ScanIsRecent, ChangesAreNew,
     Starting, Trusted, InHand, IsIndexed, HasCurrent
  <2>3. CASE StartGivesUp BY <2>3 DEF StartGivesUp,
     NewestIsIndexed, TrustIsEarned, ReadingsAreRecent, PlanIsRecent, ScanIsRecent, ChangesAreNew,
     Starting, Trusted, InHand, IsIndexed, HasCurrent
  <2>4. CASE ToolNotified
    <3>1. Progress'
      BY <2>4 DEF ToolNotified
    <3>2. SnapshotsArePast' /\ NewestIsIndexed'
      BY <2>4 DEF ToolNotified, NewestIsIndexed
    <3>3. ReadingsAreRecent' /\ PlanIsRecent'
      BY <2>4 DEF ToolNotified, ReadingsAreRecent, PlanIsRecent, Trusted
    <3>4. ScanIsRecent' /\ ChangesAreNew'
      BY <2>4 DEF ToolNotified, ScanIsRecent, ChangesAreNew
    <3>5. TrustIsEarned'
      BY <2>4 DEF ToolNotified, TrustIsEarned, Trusted, InHand, Starting, PlanIsRecent, IsIndexed, HasCurrent
    <3> QED BY <3>1, <3>2, <3>3, <3>4, <3>5, Zenon
  <2> QED BY <1>17, <2>1, <2>2, <2>3, <2>4, Zenon
<1>18. CASE BeginReconcile
  BY <1>18 DEF BeginReconcile,
     NewestIsIndexed, TrustIsEarned, ReadingsAreRecent, PlanIsRecent, ScanIsRecent, ChangesAreNew,
     Starting, Trusted, InHand, IsIndexed, HasCurrent
<1>19. CASE Reconcile
  BY <1>19 DEF Reconcile, Stale,
     NewestIsIndexed, TrustIsEarned, ReadingsAreRecent, PlanIsRecent, ScanIsRecent, ChangesAreNew,
     Starting, Trusted, InHand, IsIndexed, HasCurrent
<1>20. ASSUME NEW l \in Loop, StartThread(l) PROVE IInv'
  <2>1. Progress'
    BY <1>20 DEF StartThread
  <2>2. SnapshotsArePast' /\ NewestIsIndexed'
    BY <1>20 DEF StartThread, NewestIsIndexed
  <2>3. ReadingsAreRecent' /\ PlanIsRecent'
    BY <1>20 DEF StartThread, ReadingsAreRecent, PlanIsRecent, Trusted
  <2>4. ScanIsRecent' /\ ChangesAreNew'
    BY <1>20 DEF StartThread, ScanIsRecent, ChangesAreNew
  <2>5. TrustIsEarned'
    BY <1>20 DEF StartThread, TrustIsEarned, Trusted, InHand, Starting, IsIndexed, HasCurrent
  <2> QED BY <2>1, <2>2, <2>3, <2>4, <2>5, Zenon
<1>21. CASE BeginStop \/ JoinThread \/ ToolReturns
  <2>1. CASE BeginStop BY <2>1 DEF BeginStop,
     NewestIsIndexed, TrustIsEarned, ReadingsAreRecent, PlanIsRecent, ScanIsRecent, ChangesAreNew,
     Starting, Trusted, InHand, IsIndexed, HasCurrent
  <2>2. CASE JoinThread BY <2>2 DEF JoinThread, Joinable,
     NewestIsIndexed, TrustIsEarned, ReadingsAreRecent, PlanIsRecent, ScanIsRecent, ChangesAreNew,
     Starting, Trusted, InHand, IsIndexed, HasCurrent
  <2>3. CASE ToolReturns BY <2>3 DEF ToolReturns,
     NewestIsIndexed, TrustIsEarned, ReadingsAreRecent, PlanIsRecent, ScanIsRecent, ChangesAreNew,
     Starting, Trusted, InHand, IsIndexed, HasCurrent
  <2> QED BY <1>21, <2>1, <2>2, <2>3, Zenon
<1>22. ASSUME NEW paths \in SUBSET Path \ {{}}, BeginReindex(paths) PROVE IInv'
  BY <1>22 DEF BeginReindex,
     NewestIsIndexed, TrustIsEarned, ReadingsAreRecent, PlanIsRecent, ScanIsRecent, ChangesAreNew,
     Starting, Trusted, InHand, IsIndexed, HasCurrent
<1>23. CASE UNCHANGED vars
  BY <1>23 DEF vars,
     NewestIsIndexed, TrustIsEarned, ReadingsAreRecent, PlanIsRecent, ScanIsRecent, ChangesAreNew,
     Starting, Trusted, InHand, IsIndexed, HasCurrent
<1> QED
  BY <1>1, <1>2, <1>3, <1>4, <1>5, <1>6, <1>7, <1>8, <1>9, <1>10, <1>11, <1>12, <1>13, <1>14,
     <1>15, <1>16, <1>17, <1>18, <1>19, <1>20, <1>21, <1>22, <1>23, StepCases, Zenon
     DEF Environment, SharedStep, Indexing, LoopOwnStep, ToolOwnStep

-----------------------------------------------------------------------------
(* Theorems *)

\* In every state the variables have their types, the lifecycle lease is with the one
\* actor that is inside it, and the tool thread waits exactly when no tool is under way.
THEOREM TypeCorrect == Spec => [](TypeOK /\ ToolPlaces)
<1>1. Spec => []Types
  BY TypesInit, TypesStep, PTL DEF Spec
<1> QED BY <1>1, PTL DEF Types

\* The inductive invariant holds in every state of the watcher.
THEOREM WatcherInvariant == Spec => []IInv
BY IInvInit, IInvStep, PTL DEF Spec

\* A sleeping watcher has missed no file: what the next comparison of _watch_loop passes
\* over is indexed as it is, all of it, whatever was edited, turned away, failed, stopped,
\* restarted or crashed before, but for the paths of a scope without a current collection,
\* which reindex_paths skips, for paths left half replaced by a tool or by a thread that
\* shared the snapshot, and for those of which a startup reconcile took a part for the whole.
THEOREM NothingIsMissedHolds == Spec => []NothingIsMissed
<1>1. IInv => NothingIsMissed
  <2> SUFFICES ASSUME IInv, Asleep, NEW p \in Path, tree[p] # None, baseline[p] = tree[p]
               PROVE  IsIndexed(p) \/ p \in botched \/ ~HasCurrent(p)
    BY DEF NothingIsMissed
  <2>1. IsRunning /\ Trusted(p)
    BY DEF Asleep, Trusted
  <2>2. ~InHand(p)
    BY DEF Asleep, InHand, Actor
  <2> QED BY <2>1, <2>2 DEF IInv, TrustIsEarned
<1> QED BY <1>1, WatcherInvariant, PTL

\* No step makes the index of a path show a version older than one it has shown: neither
\* reindex_paths of a thread or of a tool, nor rebuild_index, nor one that fails half way.
THEOREM IndexMovesForwardHolds == Spec => IndexMovesForward
<1>1. IInv /\ [Next]_vars => [\A p \in Path : indexed'[p] # None => indexed'[p] >= newest[p]]_vars
  <2> SUFFICES ASSUME IInv, [Next]_vars, NEW p \in Path, indexed'[p] # None
               PROVE  indexed'[p] >= newest[p]
    OBVIOUS
  <2>1. indexed'[p] = newest'[p] /\ newest[p] \in Nat
    BY IInvStep, WatcherAssumption DEF IInv, NewestIsIndexed, Types, TypeOK, Mtime
  <2>2. \/ newest'[p] = newest[p]
        \/ \E a \in Actor : newest'[p] = Later(read[a][p], newest[p]) /\ read[a][p] \in Mtime \cup {None}
    <3>0. \A a \in Actor : read[a][p] \in Mtime \cup {None}
      BY DEF IInv, Types, TypeOK, Snapshot
    <3>1. ASSUME NEW a \in Actor, WriteIndex(a) PROVE <2>2!:
      BY <3>0, <3>1 DEF WriteIndex
    <3>2. ASSUME NEW a \in Actor, LeavesIndex(a) PROVE <2>2!:
      <4>1. CASE UNCHANGED <<index, newest>>
        BY <4>1
      <4>2. ASSUME NEW there \in SUBSET Written(a),
                   newest' = [q \in Path |->
                               IF q \in there THEN Later(read[a][q], newest[q]) ELSE newest[q]]
            PROVE <2>2!:
        BY <3>0, <4>2
      <4> QED BY <3>2, <4>1, <4>2, WhatIsLeft, Zenon DEF IInv, Types
    <3>3. CASE UNCHANGED newest
      BY <3>3
    <3>4. UNCHANGED newest \/ \E a \in Actor : WriteIndex(a) \/ LeavesIndex(a)
      BY StepCases DEF Environment, SharedStep, Indexing, LoopOwnStep, ToolOwnStep, vars, observers, local,
         Write, Remove, OtherTakes, OtherLeaves, Crash, Scan, ReadPath, BeginWriting, Fail, ReleaseFails,
         Wake, Compare, ScanRaises, LoopAcquires, LoopTurnedAway, LoopNotifies, LoopReleases, Advance,
         Call, ToolTurnedAway, BeginCapture, BeginReconcile, Reconcile, StartGivesUp, ToolNotified,
         StartThread, BeginStop, JoinThread, BeginReindex, ToolReturns
    <3> QED BY <3>1, <3>2, <3>3, <3>4
  <2>3. ASSUME NEW v \in Mtime \cup {None} PROVE Later(v, newest[p]) >= newest[p]
    BY <2>1, WatcherAssumption DEF Later, Mtime
  <2> QED BY <2>1, <2>2, <2>3
<1> QED BY <1>1, WatcherInvariant, PTL DEF Spec, IndexMovesForward
=============================================================================
