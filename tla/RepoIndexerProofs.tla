------------------------- MODULE RepoIndexerProofs -------------------------
(***************************************************************************)
(* Theorems about RepoIndexer, for every set of paths, every content and   *)
(* every bound: what the manifest claims, what readers see and what a      *)
(* repair achieves, however edits and interruptions interleave.            *)
(*                                                                         *)
(* The argument turns on a path being reliable: neither torn nor left half *)
(* replaced.  Its points are all there, they are of a version that was     *)
(* really read, and its row says so (ReliableIsWhole).  An operation takes *)
(* that away when it starts to replace the path and gives it back when it  *)
(* commits the row, because meanwhile nothing but the points of its        *)
(* snapshot is stored (Replaced) and none of them is forgotten (Upserting, *)
(* Rewriting).                                                             *)
(***************************************************************************)
EXTENDS RepoIndexer, FiniteSetTheorems, TLAPS

-----------------------------------------------------------------------------
(* Sets of points *)

\* The points of one reading in one collection.
Reading(s, p, c, m, n) == [schema : {s}, path : {p}, content : {c}, mtime : {m}, idx : 1..n]

\* They are as many as their indices.
LEMMA ReadingIsCounted ==
  ASSUME NEW s, NEW p, NEW c, NEW m, NEW n \in Nat
  PROVE  IsFiniteSet(Reading(s, p, c, m, n)) /\ Cardinality(Reading(s, p, c, m, n)) = n
<1> DEFINE P == Reading(s, p, c, m, n)
           f == [i \in 1..n |-> [schema |-> s, path |-> p, content |-> c, mtime |-> m, idx |-> i]]
<1>1. f \in Bijection(1..n, P)
  <2>1. f \in [1..n -> P]
    BY DEF Reading
  <2>2. \A i, j \in 1..n : f[i] = f[j] => i = j
    OBVIOUS
  <2>3. ASSUME NEW pt \in P PROVE \E i \in 1..n : f[i] = pt
    <3>1. pt.idx \in 1..n /\ f[pt.idx] = pt
      BY DEF Reading
    <3> QED BY <3>1
  <2> QED BY <2>1, <2>2, <2>3 DEF Bijection, Injection, Surjection, IsInjective
<1>2. IsFiniteSet(1..n) /\ Cardinality(1..n) = n
  <2>1. IsFiniteSet(1..n) /\ Cardinality(1..n) = IF 1 > n THEN 0 ELSE n - 1 + 1
    BY FS_Interval
  <2> QED BY <2>1
<1> QED BY <1>1, <1>2, FS_Bijection DEF ExistsBijection

\* The points of a version are as many as its chunks.
LEMMA PointsOfVersion ==
  ASSUME NEW p \in Path, NEW v \in Version \cup Row
  PROVE  /\ PointsOf(p, v) \subseteq Point
         /\ IsFiniteSet(PointsOf(p, v)) /\ Cardinality(PointsOf(p, v)) = Chunks[v.content]
         /\ PointsOf(p, v) = {} <=> Chunks[v.content] = 0
<1>1. Chunks[v.content] \in Nat /\ v.content \in Content /\ v.mtime \in Mtime
  BY IndexerAssumption DEF Version, Row
<1>2. PointsOf(p, v) \subseteq Point
  BY <1>1 DEF PointsOf, Point, Schema
<1>3. IsFiniteSet(PointsOf(p, v)) /\ Cardinality(PointsOf(p, v)) = Chunks[v.content]
  <2>1. PointsOf(p, v) = Reading("current", p, v.content, v.mtime, Chunks[v.content])
    BY DEF PointsOf, Reading
  <2> QED BY <1>1, <2>1, ReadingIsCounted
<1> QED BY <1>2, <1>3, FS_EmptySet

-----------------------------------------------------------------------------
(* The inductive invariant *)

Types == TypeOK /\ IsFiniteSet(points)

\* Where an operation is, and what it holds there: which targets are visited, read and
\* waiting for an upsert.
Places ==
  /\ mode = "idle" <=> pc = "idle"
  /\ pc = "scan" => mode = "reconcile"
  /\ pc \in {"upsert", "zero", "deleted"} => mode \in {"reconcile", "reindex"}
  /\ pc \in {"scope", "create"} => mode = "rebuild"
  /\ pc \in {"idle", "scan"} => targets = {} /\ lost = 0
  /\ pc \in {"idle", "upsert", "zero", "deleted", "scope", "create"} => todo = {}
  /\ pc # "scan" => todo \subseteq targets
  /\ mode = "rebuild" => targets = Path
  /\ pc = "stat" => reading \in targets \ todo /\ bytes \in Content
  /\ pc # "stat" => reading = None
  /\ \A p \in Path : snap[p] # None => p \in targets \ todo /\ p # reading
  /\ \A p \in misread : snap[p] # None
  /\ pending # {} => pc \in {"upsert", "scope"}
  /\ scopes # {} => pc \in {"scope", "create"}
  /\ pc = "create" => scope \in Scope \ scopes
  /\ mode = "idle" => quiet
  /\ settled # "no" => mode = "idle"

\* Every point lies in a collection that exists, and has an index its content allows.
StoreIsOrderly ==
  \A pt \in points :
    <<ScopeOf[pt.path], pt.schema>> \in collections /\ pt.idx \in 1..Chunks[pt.content]

\* The points that the snapshot of p asks for.
SnapPoints(p) == IF snap[p] = None THEN {} ELSE PointsOf(p, snap[p])

\* Of a path that is being replaced, only points of its snapshot are stored, or wait to be.
Replaced ==
  /\ \A pt \in points :
       pt.schema = "current" /\ pt.path \in HalfReplaced => pt \in SnapPoints(pt.path)
  /\ \A pt \in pending :
       pt.path \in HalfReplaced /\ HasCurrent(pt.path) /\ pt \in SnapPoints(pt.path)

\* Once a reindex upserts, no point of a snapshot is forgotten.
Upserting ==
  pc \in {"upsert", "zero", "deleted"} =>
    \A p \in Upserted : SnapPoints(p) \subseteq points \cup pending

\* The same for a rebuild, scope by scope; a scope it has emptied has no collection at all.
Bare(p) == \A k \in collections : k[1] # ScopeOf[p]
Rewritten(s) == pc \in {"scope", "create"} /\ s \notin scopes /\ ~(pc = "create" /\ s = scope)
Rewriting ==
  \A p \in Path : Rewritten(ScopeOf[p]) =>
    /\ Bare(p) \/ HasCurrent(p)
    /\ SnapPoints(p) \subseteq points \cup pending

Replacement == StoreIsOrderly /\ Replaced /\ Upserting /\ Rewriting

\* If v is as old as the file at p, it has its content: mtimes tell versions apart.
Genuine(p, v) == tree[p] # None /\ tree[p].mtime = v.mtime => tree[p].content = v.content

\* No mtime is ahead of the editor's clock, so that the next edit makes all of them stale;
\* a snapshot that was not misread is genuine.
TimesArePast ==
  /\ \A p \in Path :
       /\ tree[p] # None => tree[p].mtime <= edits
       /\ HasRow(p) => manifest[p].mtime <= edits
       /\ snap[p] # None => snap[p].mtime <= edits
       /\ snap[p] # None /\ p \notin misread => Genuine(p, snap[p])
  /\ \A pt \in points : pt.mtime <= edits

\* As long as nobody edits, what an operation has read is what is there.
QuietIsExact ==
  quiet =>
    /\ misread = {}
    /\ pc \notin {"idle", "scan"} => \A p \in targets \ (todo \cup {reading}) : snap[p] = tree[p]
    /\ pc = "stat" => tree[reading] # None /\ bytes = tree[reading].content
    /\ pc = "scan" =>
         \A p \in Path \ todo : seen[p] = IF tree[p] = None THEN None ELSE tree[p].mtime

\* What the first transactions of a reindex have committed, until the last one.
Committed ==
  pc \in {"zero", "deleted"} /\ DeletesConfirmed =>
    \A p \in Upserted \cup (IF pc = "deleted" THEN Empty ELSE {}) :
      manifest[p] = RowOf(snap[p]) /\ p \notin damaged /\ (p \in misread => p \in torn)

\* A path is reliable when no torn reading and no unfinished replacement has touched it.
Reliable(p) == p \notin torn \cup damaged /\ (p \in HalfReplaced => mode # "rebuild" /\ Bare(p))

\* Its points are all there and genuine, and its row agrees with them.
IsWhole(p) ==
  /\ \A pt \in Readable(p) :
      /\ Genuine(p, pt)
      /\ \A i \in 1..Chunks[pt.content] : [pt EXCEPT !.idx = i] \in points
  /\ HasRow(p) =>
       /\ Genuine(p, manifest[p])
       /\ manifest[p].chunks = Chunks[manifest[p].content]
       /\ \A pt \in Readable(p) : pt.content = manifest[p].content
       /\ Readable(p) = {} => Chunks[manifest[p].content] = 0
  /\ covered /\ ~HasRow(p) => Readable(p) = {}
ReliableIsWhole == \A p \in Path : Reliable(p) => IsWhole(p)

\* What a reconcile does not work on was exact when it was scanned, and still is.
RestIsExact ==
  mode = "reconcile" /\ pc # "scan" /\ quiet =>
    \A p \in Path \ (targets \cup torn \cup damaged) : Shown(p) = Expected(p)

\* The points a reconcile may still delete are within what is left of its bound.
AtRisk == {pt \in points : pt.path \in todo /\ pt.schema = "current"}
LossIsBounded ==
  mode = "reconcile" =>
    /\ pc # "scan" => lost + Cardinality(AtRisk) <= MaxPoints
    /\ Cardinality(targets) <= MaxPaths

IInv ==
  /\ Types /\ Places
  /\ Replacement /\ OneVersionPerPath
  /\ TimesArePast /\ QuietIsExact
  /\ Committed /\ ReliableIsWhole
  /\ RestIsExact /\ RebuildIsExact /\ ReconcileRepairs
  /\ LossIsBounded

-----------------------------------------------------------------------------
(* Types *)

\* The row of a version is a row.
LEMMA RowOfVersion ==
  ASSUME NEW v \in Version
  PROVE  RowOf(v) \in Row
BY IndexerAssumption DEF RowOf, Version, Row

\* What readers see of a path can be counted.
LEMMA ReadableIsFinite ==
  ASSUME Types, NEW p \in Path
  PROVE  /\ Readable(p) \subseteq points /\ IsFiniteSet(Readable(p))
         /\ Cardinality(Readable(p)) \in Nat
         /\ Cardinality(Readable(p)) = 0 <=> Readable(p) = {}
<1>1. Readable(p) \subseteq points
  BY DEF Readable
<1>2. IsFiniteSet(Readable(p))
  BY <1>1, FS_Subset DEF Types
<1> QED BY <1>1, <1>2, FS_CardinalityType, FS_EmptySet

\* Backfilling gives a row to every path that was scanned and is still there.
LEMMA BackfillsRow ==
  ASSUME Types, NEW p \in Path, Touched = {}, seen[p] # None, tree[p] # None
  PROVE  BackfilledRow(p) \in Row
<1> USE IndexerAssumption DEF Types, TypeOK
<1>1. Cardinality(Readable(p)) \in Nat /\ Size[tree[p].content] \in Nat
  BY ReadableIsFinite DEF Version
<1>2. CASE Readable(p) # {}
  <2>1. (CHOOSE pt \in Readable(p) : TRUE) \in Point
    BY <1>2 DEF Readable
  <2> QED BY <1>1, <1>2, <2>1 DEF BackfilledRow, Row, Point
<1>3. CASE Readable(p) = {}
  <2>1. HasRow(p)
    BY <1>3 DEF Touched, IndexedMtime, ZeroRow
  <2> QED BY <1>1, <1>3, <2>1 DEF BackfilledRow, Row, HasRow
<1> QED BY <1>2, <1>3

\* The first state is well typed, and its points are finitely many.
LEMMA TypesInit == Init => Types
<1> SUFFICES ASSUME Init PROVE Types
  OBVIOUS
<1> USE IndexerAssumption
<1> DEFINE present == {p \in Path : tree[p] # None}
           old == UNION {PointsOf(p, tree[p]) : p \in present}
<1>1. tree \in [Path -> Version \cup {None}]
  BY DEF Init, Version, Mtime
<1>2. old \subseteq Point /\ IsFiniteSet(old)
  <2>1. ASSUME NEW p \in present
        PROVE  PointsOf(p, tree[p]) \subseteq Point /\ IsFiniteSet(PointsOf(p, tree[p]))
    BY <1>1, PointsOfVersion
  <2>2. IsFiniteSet({PointsOf(p, tree[p]) : p \in present})
    <3>1. IsFiniteSet(present)
      BY FS_Subset
    <3>2. [p \in present |-> PointsOf(p, tree[p])]
            \in Surjection(present, {PointsOf(p, tree[p]) : p \in present})
      BY DEF Surjection
    <3> QED BY <3>1, <3>2, FS_Surjection
  <2> QED BY <2>1, <2>2, FS_UNION
<1>3. PICK some \in SUBSET old :
        /\ points = {[pt EXCEPT !.schema = "legacy"] : pt \in some}
        /\ collections = {<<ScopeOf[pt.path], "legacy">> : pt \in some}
  BY DEF Init
<1>4. (\A pt \in points : pt \in Point) /\ collections \subseteq Scope \X Schema
  <2>1. \A pt \in some : [pt EXCEPT !.schema = "legacy"] \in Point /\ ScopeOf[pt.path] \in Scope
    BY <1>2 DEF Point, Schema
  <2>2. ASSUME NEW k \in collections PROVE k \in Scope \X Schema
    <3>1. PICK pt \in some : k = <<ScopeOf[pt.path], "legacy">>
      BY <1>3
    <3> QED BY <2>1, <3>1 DEF Schema
  <2>3. ASSUME NEW pt \in points PROVE pt \in Point
    BY <1>3, <2>1
  <2> QED BY <2>2, <2>3
<1>5. IsFiniteSet(points)
  <2>1. IsFiniteSet(some)
    BY <1>2, FS_Subset
  <2>2. [pt \in some |-> [pt EXCEPT !.schema = "legacy"]] \in Surjection(some, points)
    BY <1>3 DEF Surjection
  <2> QED BY <2>1, <2>2, FS_Surjection
<1>6. /\ edits \in Mtime /\ manifest \in [Path -> Row \cup {NoRow, Deleted}]
      /\ seen \in [Path -> Mtime \cup {None}] /\ snap \in [Path -> Version \cup {None}]
  BY DEF Init, Mtime
<1> QED BY <1>1, <1>4, <1>5, <1>6 DEF Init, Types, TypeOK

\* Every step keeps the types.
LEMMA TypesStep == Types /\ Places /\ [Next]_vars => Types'
<1> SUFFICES ASSUME Types, Places, [Next]_vars PROVE TypeOK' /\ IsFiniteSet(points')
  BY DEF Types
<1> USE IndexerAssumption DEF Types, TypeOK, Places, Scope, index, work
<1>1. ASSUME NEW p \in Path, Remove(p) \/ \E c \in Content : Write(p, c)
      PROVE  TypeOK' /\ IsFiniteSet(points')
  <2>1. edits' \in Mtime /\ tree' \in [Path -> Version \cup {None}]
    BY <1>1 DEF Remove, Write, Mtime, Version
  <2> QED BY <1>1, <2>1 DEF Remove, Write
<1> DEFINE Stored ==
             /\ collections' \subseteq Scope \X Schema /\ (\A pt \in points' : pt \in Point)
             /\ manifest' \in [Path -> Row \cup {NoRow, Deleted}] /\ covered' \in BOOLEAN
             /\ torn' \subseteq Path /\ damaged' \subseteq Path /\ IsFiniteSet(points')
<1>2. ASSUME NEW m \in {"no", "reconcile", "rebuild"}, End(m), Stored
      PROVE  TypeOK' /\ IsFiniteSet(points')
  <2>1. /\ tree' = tree /\ edits' = edits /\ mode' = "idle" /\ pc' = "idle"
        /\ seen' = [p \in Path |-> None] /\ snap' = [p \in Path |-> None]
        /\ targets' = {} /\ todo' = {} /\ pending' = {} /\ scopes' = {} /\ scope' = None
        /\ reading' = None /\ bytes' = None /\ misread' = {} /\ quiet' = TRUE /\ lost' = 0
    BY <1>2, Zenon DEF End
  <2>2. settled' \in {"no", "reconcile", "rebuild"}
    BY <1>2 DEF End
  <2> QED BY <1>2, <2>1, <2>2
<1>3. CASE Interrupt \/ StopAtBounds
  <2>1. End("no") /\ UNCHANGED <<index, torn>> /\ damaged' \subseteq Path
    BY <1>3 DEF Interrupt, StopAtBounds, HalfReplaced
  <2>2. Stored
    BY <2>1
  <2> QED BY <1>2, <2>1, <2>2
<1>4. CASE Backfill
  <2>1. End("reconcile") /\ UNCHANGED <<collections, points, torn, damaged>> /\ covered' \in BOOLEAN
    BY <1>4 DEF Backfill
  <2>2. ASSUME NEW p \in Path, seen[p] # None, Touched = {}, tree[p] # None
        PROVE  BackfilledRow(p) \in Row
    BY <2>2, BackfillsRow
  <2>3. manifest' \in [Path -> Row \cup {NoRow, Deleted}]
    BY <1>4, <2>2 DEF Backfill
  <2>4. Stored
    BY <2>1, <2>3
  <2> QED BY <1>2, <2>1, <2>4
<1>5. CASE StartReconcile \/ StartRebuild \/ BeginScopes
  BY <1>5 DEF StartReconcile, StartRebuild, BeginScopes, Begin
<1>6. ASSUME NEW paths \in SUBSET Path \ {{}}, StartReindex(paths)
      PROVE  TypeOK' /\ IsFiniteSet(points')
  BY <1>6 DEF StartReindex, Begin
<1>7. ASSUME NEW p \in Path, ScanPath(p) \/ VisitPath(p) PROVE TypeOK' /\ IsFiniteSet(points')
  <2>1. CASE ScanPath(p)
    BY <2>1 DEF ScanPath, Version
  <2>2. CASE VisitPath(p)
    BY <2>2 DEF VisitPath, ReadBytes, Version
  <2> QED BY <1>7, <2>1, <2>2
<1>8. CASE Repair
  BY <1>8 DEF Repair, Touched
<1>9. ASSUME NEW p \in Path, DropAndRead(p) PROVE TypeOK' /\ IsFiniteSet(points')
  <2> DEFINE dropped == {pt \in points : pt.path = p /\ pt.schema = "current"}
  <2>1. IsFiniteSet(dropped) /\ IsFiniteSet(points \ dropped)
    BY FS_Subset
  <2>2. lost' \in Nat
    BY <1>9, <2>1, FS_CardinalityType DEF DropAndRead
  <2>3. /\ bytes' \in Content \cup {None} /\ reading' \in Path \cup {None} /\ todo' \subseteq Path
        /\ pc' \in {"next", "stat"}
    BY <1>9 DEF DropAndRead, ReadBytes, Version
  <2> QED BY <1>9, <2>1, <2>2, <2>3 DEF DropAndRead
<1>10. CASE StatFile
  BY <1>10 DEF StatFile, Version
<1>11. ASSUME NEW P \in SUBSET {p \in Path : snap[p] # None}
       PROVE  \A pt \in UNION {PointsOf(p, snap[p]) : p \in P} : pt \in Point
  <2>1. ASSUME NEW p \in P PROVE PointsOf(p, snap[p]) \subseteq Point
    BY PointsOfVersion
  <2> QED BY <2>1
<1>12. CASE BeginUpsert
  <2>1. \A pt \in pending' : pt \in Point
    BY <1>11, <1>12 DEF BeginUpsert, Upserted
  <2> QED BY <1>12, <2>1 DEF BeginUpsert
<1>13. ASSUME NEW pt \in pending, UpsertPoint(pt) PROVE TypeOK' /\ IsFiniteSet(points')
  BY <1>13, FS_AddElement DEF UpsertPoint
<1>14. ASSUME NEW ready \in SUBSET {p \in Path : snap[p] # None}, Commit(ready)
       PROVE  /\ manifest' \in [Path -> Row \cup {NoRow, Deleted}]
              /\ torn' \subseteq Path /\ damaged' \subseteq Path
  BY <1>14, RowOfVersion DEF Commit
<1>15. CASE CommitReady
  BY <1>14, <1>15 DEF CommitReady, Upserted
<1>16. CASE CommitZero
  BY <1>14, <1>16 DEF CommitZero, Empty
<1>17. CASE CommitDeleted
  <2>1. /\ UNCHANGED <<collections, points, covered>> /\ torn' \subseteq Path
        /\ damaged' \subseteq Path
        /\ \/ UNCHANGED manifest
           \/ manifest' = [p \in Path |-> IF p \in Gone THEN Deleted ELSE manifest[p]]
    BY <1>17 DEF CommitDeleted
  <2>3. Stored
    BY <2>1
  <2>2. \E m \in {"no", "reconcile", "rebuild"} : End(m)
    BY <1>17, Zenon DEF CommitDeleted
  <2> QED BY <1>2, <2>2, <2>3
<1>18. CASE CommitRebuild
  <2>1. Stored /\ End("rebuild")
    BY <1>18, RowOfVersion DEF CommitRebuild, RebuiltManifest
  <2> QED BY <1>2, <2>1
<1>19. ASSUME NEW s \in Scope, ClearScope(s) \/ DropCurrent(s)
       PROVE  TypeOK' /\ IsFiniteSet(points')
  <2>1. points' \subseteq points
    BY <1>19 DEF ClearScope, DropCurrent
  <2>2. IsFiniteSet(points')
    BY <2>1, FS_Subset
  <2> QED BY <1>19, <2>1, <2>2 DEF ClearScope, DropCurrent
<1>20. CASE CreateCurrent
  <2>1. \A pt \in pending' : pt \in Point
    BY <1>11, <1>20 DEF CreateCurrent, ScopePoints
  <2>2. collections' \subseteq Scope \X Schema
    BY <1>20 DEF CreateCurrent, Schema
  <2> QED BY <1>20, <2>1, <2>2 DEF CreateCurrent
<1>21. CASE UNCHANGED vars
  BY <1>21 DEF vars
<1> QED
  BY <1>1, <1>3, <1>4, <1>5, <1>6, <1>7, <1>8, <1>9, <1>10, <1>12, <1>13, <1>15, <1>16, <1>17,
     <1>18,
     <1>19, <1>20, <1>21, Zenon DEF Next, Editor, Reconcile, Reindex, Rebuild

-----------------------------------------------------------------------------
(* Every step preserves the parts of the invariant *)

\* Where an operation is, and what it holds there.
LEMMA PlacesStep ==
  ASSUME Types, Places, [Next]_vars
  PROVE  Places'
<1> USE IndexerAssumption DEF Types, TypeOK, Places, Scope, index, work
<1>1. ASSUME NEW p \in Path, NEW c \in Content, Write(p, c) PROVE Places'
  BY <1>1 DEF Write
<1>2. ASSUME NEW p \in Path, Remove(p) PROVE Places'
  BY <1>2 DEF Remove
<1>3. CASE Interrupt
  BY <1>3 DEF Interrupt, End
<1>4. CASE StartReconcile
  BY <1>4 DEF StartReconcile, Begin
<1>5. ASSUME NEW p \in Path, ScanPath(p) PROVE Places'
  BY <1>5 DEF ScanPath, IsNext
<1>6. CASE StopAtBounds
  BY <1>6 DEF StopAtBounds, End
<1>7. CASE Repair
  BY <1>7 DEF Repair
<1>8. CASE Backfill
  BY <1>8 DEF Backfill, End
<1>9. ASSUME NEW paths \in SUBSET Path \ {{}}, StartReindex(paths) PROVE Places'
  BY <1>9 DEF StartReindex, Begin
<1>10. ASSUME NEW p \in Path, DropAndRead(p) PROVE Places'
  <2>1. /\ pc = "next" /\ mode \in {"reconcile", "reindex"} /\ p \in todo /\ todo' = todo \ {p}
        /\ UNCHANGED <<mode, targets, snap, pending, scopes, scope, misread, quiet, settled>>
        /\ ReadBytes(p) /\ (mode = "reindex" => lost' = 0)
    BY <1>10 DEF DropAndRead, ReadBytes, IsNext
  <2>2. CASE tree[p] = None
    BY <1>10, <2>1, <2>2 DEF ReadBytes
  <2>3. CASE tree[p] # None
    <3>1. pc' = "stat" /\ reading' = p /\ bytes' \in Content
      BY <2>1, <2>3 DEF ReadBytes, Version
    <3> QED BY <2>1, <3>1
  <2> QED BY <2>2, <2>3
<1>11. CASE BeginUpsert
  BY <1>11 DEF BeginUpsert
<1>12. CASE CommitReady
  BY <1>12 DEF CommitReady, Commit
<1>13. CASE CommitZero
  BY <1>13 DEF CommitZero, Commit
<1>14. CASE CommitDeleted
  BY <1>14 DEF CommitDeleted, End
<1>15. CASE StartRebuild
  BY <1>15 DEF StartRebuild, Begin
<1>16. ASSUME NEW p \in Path, VisitPath(p) PROVE Places'
  <2>1. /\ pc = "next" /\ mode = "rebuild" /\ p \in todo /\ todo' = todo \ {p}
        /\ UNCHANGED <<mode, targets, snap, pending, scopes, scope, misread, quiet, settled>>
    BY <1>16 DEF VisitPath, ReadBytes, IsNext
  <2>2. CASE tree[p] = None
    BY <1>16, <2>1, <2>2 DEF VisitPath, ReadBytes
  <2>3. CASE tree[p] # None
    <3>1. pc' = "stat" /\ reading' = p /\ bytes' \in Content
      BY <1>16, <2>3 DEF VisitPath, ReadBytes, Version
    <3> QED BY <2>1, <3>1
  <2> QED BY <2>2, <2>3
<1>17. CASE BeginScopes
  BY <1>17 DEF BeginScopes
<1>18. CASE CreateCurrent
  BY <1>18 DEF CreateCurrent
<1>19. CASE CommitRebuild
  BY <1>19 DEF CommitRebuild, End, RebuiltManifest
<1>20. ASSUME NEW s \in Scope, ClearScope(s) PROVE Places'
  BY <1>20 DEF ClearScope, NextScope
<1>21. ASSUME NEW s \in Scope, DropCurrent(s) PROVE Places'
  BY <1>21 DEF DropCurrent, NextScope
<1>22. CASE StatFile
  <2>1. /\ pc' = "next" /\ reading' = None
        /\ \A p \in Path \ {reading} : snap'[p] = snap[p]
        /\ misread' \subseteq misread \cup {reading} /\ reading \in Path /\ snap'[reading] # None
        /\ UNCHANGED <<mode, targets, todo, pending, scopes, scope, quiet, settled, lost>>
    BY <1>22 DEF StatFile, Version
  <2>2. \A p \in Path : snap'[p] # None => p \in targets' \ todo' /\ p # reading'
    BY <2>1
  <2> QED BY <2>1, <2>2
<1>23. ASSUME NEW pt \in pending, UpsertPoint(pt) PROVE Places'
  BY <1>23 DEF UpsertPoint
<1>24. CASE UNCHANGED vars
  BY <1>24 DEF vars
<1> QED
  BY <1>1, <1>2, <1>3, <1>4, <1>5, <1>6, <1>7, <1>8, <1>9, <1>10, <1>11, <1>12, <1>13, <1>14,
     <1>15, <1>16, <1>17, <1>18, <1>19, <1>20, <1>21, <1>22, <1>23, <1>24, Zenon DEF Next,
     Editor, Reconcile, Reindex, Rebuild

\* What the store holds of paths that are being replaced.
LEMMA ReplacementStep ==
  ASSUME Types, Types', Places, Places', Replacement, [Next]_vars
  PROVE  Replacement'
<1> USE IndexerAssumption DEF Types, TypeOK, Places, Scope, index, work, Replacement,
      StoreIsOrderly, Replaced, Upserting, Rewriting,
        SnapPoints, HasCurrent, HalfReplaced, Upserted, Rewritten, Bare
<1>1. ASSUME NEW p \in Path, NEW c \in Content, Write(p, c) PROVE Replacement'
  BY <1>1 DEF Write
<1>2. ASSUME NEW p \in Path, Remove(p) PROVE Replacement'
  BY <1>2 DEF Remove
<1>3. CASE Interrupt
  BY <1>3 DEF Interrupt, End
<1>4. CASE StartReconcile
  BY <1>4 DEF StartReconcile, Begin
<1>5. ASSUME NEW p \in Path, ScanPath(p) PROVE Replacement'
  BY <1>5 DEF ScanPath, IsNext
<1>6. CASE StopAtBounds
  BY <1>6 DEF StopAtBounds, End
<1>7. CASE Repair
  BY <1>7 DEF Repair
<1>8. CASE Backfill
  BY <1>8 DEF Backfill, End
<1>9. ASSUME NEW paths \in SUBSET Path \ {{}}, StartReindex(paths) PROVE Replacement'
  BY <1>9 DEF StartReindex, Begin
<1>10. ASSUME NEW p \in Path, DropAndRead(p) PROVE Replacement'
  BY <1>10 DEF DropAndRead, ReadBytes, IsNext
<1>11. CASE BeginUpsert
  <2> HIDE DEF Upserted
  <2>1. ASSUME NEW pt \in pending' PROVE pt.path \in Upserted /\ pt \in SnapPoints(pt.path)
    <3>1. PICK p \in Upserted : pt \in PointsOf(p, snap[p])
      BY <1>11 DEF BeginUpsert
    <3>2. snap[p] # None
      BY DEF Upserted
    <3> QED BY <3>1, <3>2 DEF PointsOf
  <2>2. ASSUME NEW p \in Upserted PROVE SnapPoints(p) \subseteq pending'
    <3>1. pending' = UNION {PointsOf(q, snap[q]) : q \in Upserted}
      BY <1>11 DEF BeginUpsert
    <3> QED BY <3>1
  <2>3. /\ pc' = "upsert" /\ mode \in {"reconcile", "reindex"} /\ todo = {}
        /\ UNCHANGED <<collections, points, mode, targets, todo, snap, scopes, scope>>
    BY <1>11 DEF BeginUpsert
  <2> QED BY <2>1, <2>2, <2>3 DEF Upserted
<1>12. CASE CommitReady
  BY <1>12 DEF CommitReady, Commit
<1>13. CASE CommitZero
  BY <1>13 DEF CommitZero, Commit
<1>14. CASE CommitDeleted
  BY <1>14 DEF CommitDeleted, End
<1>15. CASE StartRebuild
  BY <1>15 DEF StartRebuild, Begin
<1>16. ASSUME NEW p \in Path, VisitPath(p) PROVE Replacement'
  BY <1>16 DEF VisitPath, ReadBytes, IsNext
<1>17. CASE BeginScopes
  BY <1>17 DEF BeginScopes
<1>18. CASE CreateCurrent
  <2>1. ASSUME NEW pt \in pending'
        PROVE  pt.path \in Path /\ ScopeOf[pt.path] = scope /\ pt \in SnapPoints(pt.path)
    <3>1. PICK p \in Path : ScopeOf[p] = scope /\ snap[p] # None /\ pt \in PointsOf(p, snap[p])
      BY <1>18 DEF CreateCurrent, ScopePoints
    <3> QED BY <3>1 DEF PointsOf
  <2>2. \A p \in Path : ScopeOf[p] = scope => SnapPoints(p) \subseteq pending'
    BY <1>18 DEF CreateCurrent, ScopePoints
  <2>3. /\ pc = "create" /\ pc' = "scope" /\ scope \in Scope /\ pending = {}
        /\ collections' = collections \cup {<<scope, "current">>}
        /\ UNCHANGED <<points, mode, targets, todo, snap, scopes>>
    BY <1>18 DEF CreateCurrent
  <2>4. StoreIsOrderly' /\ Replaced'
    BY <2>1, <2>3
  <2>5. Upserting' /\ Rewriting'
    BY <2>2, <2>3
  <2> QED BY <2>4, <2>5
<1>19. CASE CommitRebuild
  BY <1>19 DEF CommitRebuild, End, RebuiltManifest
<1>20. ASSUME NEW s \in Scope, ClearScope(s) PROVE Replacement'
  <2>1. /\ pc = "scope" /\ pending = {} /\ s \in scopes /\ scopes' = scopes \ {s}
        /\ collections' = {k \in collections : k[1] # s}
        /\ points' = {pt \in points : ScopeOf[pt.path] # s}
        /\ \A p \in Path : ScopeOf[p] = s => SnapPoints(p) = {}
        /\ UNCHANGED <<mode, pc, targets, todo, snap, pending, scope>>
    BY <1>20 DEF ClearScope, NextScope, ScopePoints
  <2>2. StoreIsOrderly' /\ Replaced'
    BY <2>1
  <2>3. ASSUME NEW p \in Path, Rewritten(ScopeOf[p])'
        PROVE  (Bare(p) \/ HasCurrent(p))' /\ SnapPoints(p) \subseteq points'
    <3>1. \A pt \in SnapPoints(p) : pt.path = p
      BY DEF PointsOf
    <3> QED BY <2>1, <2>3, <3>1
  <2> QED BY <2>1, <2>2, <2>3
<1>21. ASSUME NEW s \in Scope, DropCurrent(s) PROVE Replacement'
  <2>1. /\ pc = "scope" /\ pc' = "create" /\ pending = {} /\ s \in scopes
        /\ scopes' = scopes \ {s}
        /\ scope' = s /\ collections' = collections \ {<<s, "current">>}
        /\ points' = {pt \in points : ScopeOf[pt.path] # s \/ pt.schema = "legacy"}
        /\ UNCHANGED <<mode, targets, todo, snap, pending>>
    BY <1>21 DEF DropCurrent, NextScope
  <2>2. StoreIsOrderly' /\ Replaced'
    BY <2>1
  <2>3. ASSUME NEW p \in Path, Rewritten(ScopeOf[p])'
        PROVE  (Bare(p) \/ HasCurrent(p))' /\ SnapPoints(p) \subseteq points'
    <3>1. \A pt \in SnapPoints(p) : pt.path = p
      BY DEF PointsOf
    <3> QED BY <2>1, <2>3, <3>1
  <2> QED BY <2>1, <2>2, <2>3
<1>22. CASE StatFile
  BY <1>22 DEF StatFile
<1>23. ASSUME NEW pt \in pending, UpsertPoint(pt) PROVE Replacement'
  <2>1. /\ points' = points \cup {pt} /\ pending' = pending \ {pt}
        /\ UNCHANGED <<collections, pc, mode, targets, todo, snap, scopes, scope>>
    BY <1>23 DEF UpsertPoint
  <2>2. /\ pt \in Point /\ pt.schema = "current" /\ HasCurrent(pt.path)
        /\ pt.idx \in 1..Chunks[pt.content]
    BY DEF PointsOf
  <2>3. StoreIsOrderly'
    BY <2>1, <2>2
  <2>4. Replaced'
    <3>1. HalfReplaced' = HalfReplaced /\ SnapPoints(pt.path)' = SnapPoints(pt.path)
      BY <2>1
    <3>2. pt.path \in HalfReplaced /\ pt \in SnapPoints(pt.path)
      OBVIOUS
    <3>3. ASSUME NEW q \in points', q.schema = "current", q.path \in HalfReplaced
          PROVE  q \in SnapPoints(q.path)
      BY <2>1, <3>2, <3>3
    <3>4. \A q \in pending' : q.path \in HalfReplaced /\ HasCurrent(q.path) /\ q \in SnapPoints(q.path)
      BY <2>1
    <3> QED BY <2>1, <3>1, <3>3, <3>4
  <2>5. Upserting' /\ Rewriting'
    BY <2>1
  <2> QED BY <2>3, <2>4, <2>5
<1>24. CASE UNCHANGED vars
  BY <1>24 DEF vars
<1> QED
  BY <1>1, <1>2, <1>3, <1>4, <1>5, <1>6, <1>7, <1>8, <1>9, <1>10, <1>11, <1>12, <1>13, <1>14,
     <1>15, <1>16, <1>17, <1>18, <1>19, <1>20, <1>21, <1>22, <1>23, <1>24, Zenon DEF Next,
     Editor, Reconcile, Reindex, Rebuild

\* The mtimes that were read are numbers, up to the last edit.
LEMMA MtimesAreNumbers ==
  ASSUME Types, TimesArePast
  PROVE  /\ \A q \in Path : snap[q] # None => snap[q].mtime \in Nat /\ snap[q].mtime <= edits
         /\ \A q \in Path : tree[q] # None => tree[q].mtime \in Nat /\ tree[q].mtime <= edits
         /\ \A q \in Path : HasRow(q) => manifest[q].mtime \in Nat /\ manifest[q].mtime <= edits
         /\ \A pt \in points : pt.mtime \in Nat /\ pt.mtime <= edits
<1>1. Mtime \subseteq Nat
  BY DEF Mtime
<1>2. /\ \A q \in Path : snap[q] \in Version \cup {None} /\ tree[q] \in Version \cup {None}
      /\ \A q \in Path : manifest[q] \in Row \cup {NoRow, Deleted}
      /\ \A pt \in points : pt \in Point
  BY DEF Types, TypeOK
<1>3. ASSUME NEW q \in Path, snap[q] # None PROVE snap[q].mtime \in Nat /\ snap[q].mtime <= edits
  BY <1>1, <1>2, <1>3 DEF Version, TimesArePast
<1>4. ASSUME NEW q \in Path, tree[q] # None PROVE tree[q].mtime \in Nat /\ tree[q].mtime <= edits
  BY <1>1, <1>2, <1>4 DEF Version, TimesArePast
<1>5. ASSUME NEW q \in Path, HasRow(q) PROVE manifest[q].mtime \in Nat /\ manifest[q].mtime <= edits
  BY <1>1, <1>2, <1>5 DEF Row, HasRow, TimesArePast
<1>6. ASSUME NEW pt \in points PROVE pt.mtime \in Nat /\ pt.mtime <= edits
  BY <1>1, <1>2 DEF Point, TimesArePast
<1> QED BY <1>3, <1>4, <1>5, <1>6

\* No mtime is later than the last edit, and no snapshot is taken for a later version.
LEMMA TimesStep ==
  ASSUME Types, Places, Replacement, TimesArePast, [Next]_vars
  PROVE  TimesArePast'
<1> USE IndexerAssumption DEF Types, TypeOK, Places, Scope, Mtime, index, work, TimesArePast,
      Genuine, HasRow
<1>1. ASSUME NEW p \in Path, NEW c \in Content, Write(p, c) PROVE TimesArePast'
  <2>1. /\ edits' = edits + 1 /\ tree' = [tree EXCEPT ![p] = [content |-> c, mtime |-> edits + 1]]
        /\ UNCHANGED <<manifest, points, snap, misread>>
    BY <1>1 DEF Write
  <2>2. tree'[p].mtime = edits + 1 /\ \A q \in Path \ {p} : tree'[q] = tree[q]
    BY <2>1
  <2> QED BY <2>1, <2>2, MtimesAreNumbers
<1>2. ASSUME NEW p \in Path, Remove(p) PROVE TimesArePast'
  <2>1. /\ edits' = edits + 1 /\ tree' = [tree EXCEPT ![p] = None]
        /\ UNCHANGED <<manifest, points, snap, misread>>
    BY <1>2 DEF Remove
  <2> QED BY <2>1, MtimesAreNumbers
<1>3. CASE Interrupt
  BY <1>3 DEF Interrupt, End
<1>4. CASE StartReconcile
  BY <1>4 DEF StartReconcile, Begin
<1>5. ASSUME NEW p \in Path, ScanPath(p) PROVE TimesArePast'
  BY <1>5 DEF ScanPath, IsNext
<1>6. CASE StopAtBounds
  BY <1>6 DEF StopAtBounds, End
<1>7. CASE Repair
  BY <1>7 DEF Repair
<1>8. CASE Backfill
  <2>1. UNCHANGED <<tree, edits, points>> /\ snap' = [p \in Path |-> None]
    BY <1>8 DEF Backfill, End
  <2>2. ASSUME NEW p \in Path, HasRow(p)' PROVE manifest'[p].mtime <= edits
    <3>1. \/ manifest'[p] = manifest[p]
          \/ seen[p] # None /\ Touched = {} /\ manifest'[p] = BackfilledRow(p)
      BY <1>8, <2>2 DEF Backfill
    <3>2. ASSUME seen[p] # None, Touched = {} PROVE BackfilledRow(p).mtime <= edits
      <4>1. CASE Readable(p) # {}
        <5>1. (CHOOSE pt \in Readable(p) : TRUE) \in points
          BY <4>1 DEF Readable
        <5> QED BY <4>1, <5>1 DEF BackfilledRow
      <4>2. CASE Readable(p) = {}
        <5>1. HasRow(p)
          BY <3>2, <4>2 DEF Touched, IndexedMtime, ZeroRow
        <5> QED BY <4>2, <5>1 DEF BackfilledRow
      <4> QED BY <4>1, <4>2
    <3> QED BY <2>2, <3>1, <3>2
  <2> QED BY <2>1, <2>2
<1>9. ASSUME NEW paths \in SUBSET Path \ {{}}, StartReindex(paths) PROVE TimesArePast'
  BY <1>9 DEF StartReindex, Begin
<1>10. ASSUME NEW p \in Path, DropAndRead(p) PROVE TimesArePast'
  BY <1>10 DEF DropAndRead, ReadBytes, IsNext
<1>11. CASE BeginUpsert
  BY <1>11 DEF BeginUpsert
<1>12. CASE CommitReady
  <2>1. /\ UNCHANGED <<tree, edits, points, snap, misread>>
        /\ \A p \in Path :
             manifest'[p] = manifest[p] \/ (snap[p] # None /\ manifest'[p] = RowOf(snap[p]))
    BY <1>12 DEF CommitReady, Commit, Upserted
  <2>2. \A p \in Path : RowOf(snap[p]).mtime = snap[p].mtime
    BY DEF RowOf
  <2> QED BY <2>1, <2>2
<1>13. CASE CommitZero
  <2>1. /\ UNCHANGED <<tree, edits, points, snap, misread>>
        /\ \A p \in Path :
             manifest'[p] = manifest[p] \/ (snap[p] # None /\ manifest'[p] = RowOf(snap[p]))
    BY <1>13 DEF CommitZero, Commit, Empty
  <2>2. \A p \in Path : RowOf(snap[p]).mtime = snap[p].mtime
    BY DEF RowOf
  <2> QED BY <2>1, <2>2
<1>14. CASE CommitDeleted
  BY <1>14 DEF CommitDeleted, End
<1>15. CASE StartRebuild
  BY <1>15 DEF StartRebuild, Begin
<1>16. ASSUME NEW p \in Path, VisitPath(p) PROVE TimesArePast'
  BY <1>16 DEF VisitPath, ReadBytes, IsNext
<1>17. CASE BeginScopes
  BY <1>17 DEF BeginScopes
<1>18. CASE CreateCurrent
  BY <1>18 DEF CreateCurrent
<1>19. CASE CommitRebuild
  BY <1>19 DEF CommitRebuild, End, RebuiltManifest, RowOf
<1>20. ASSUME NEW s \in Scope, ClearScope(s) PROVE TimesArePast'
  BY <1>20 DEF ClearScope, NextScope
<1>21. ASSUME NEW s \in Scope, DropCurrent(s) PROVE TimesArePast'
  BY <1>21 DEF DropCurrent, NextScope
<1>22. CASE StatFile
  <2>1. /\ tree[reading] # None /\ tree[reading].mtime <= edits /\ reading \in Path
        /\ snap' = [snap EXCEPT ![reading] = [content |-> bytes, mtime |-> tree[reading].mtime]]
        /\ misread' = IF bytes = tree[reading].content THEN misread ELSE misread \cup {reading}
        /\ UNCHANGED <<tree, edits, manifest, points>>
    BY <1>22 DEF StatFile
  <2> QED BY <2>1
<1>23. ASSUME NEW pt \in pending, UpsertPoint(pt) PROVE TimesArePast'
  <2>1. /\ points' = points \cup {pt}
        /\ UNCHANGED <<tree, edits, manifest, snap, misread>>
    BY <1>23 DEF UpsertPoint
  <2>2. pt.path \in Path /\ snap[pt.path] # None /\ pt.mtime = snap[pt.path].mtime
    BY DEF Replacement, Replaced, SnapPoints, PointsOf, Point
  <2> QED BY <2>1, <2>2
<1>24. CASE UNCHANGED vars
  BY <1>24 DEF vars
<1> QED
  BY <1>1, <1>2, <1>3, <1>4, <1>5, <1>6, <1>7, <1>8, <1>9, <1>10, <1>11, <1>12, <1>13, <1>14,
     <1>15, <1>16, <1>17, <1>18, <1>19, <1>20, <1>21, <1>22, <1>23, <1>24, Zenon DEF Next,
     Editor, Reconcile, Reindex, Rebuild

\* The rows that are committed before the last of an operation's transactions.
LEMMA CommittedStep ==
  ASSUME Types, Places, Committed, [Next]_vars
  PROVE  Committed'
<1> USE IndexerAssumption DEF Types, TypeOK, Places, Scope, index, work, Committed,
      DeletesConfirmed, Upserted, Empty, HasCurrent
<1>1. ASSUME NEW p \in Path, NEW c \in Content, Write(p, c) PROVE Committed'
  BY <1>1 DEF Write
<1>2. ASSUME NEW p \in Path, Remove(p) PROVE Committed'
  BY <1>2 DEF Remove
<1>3. CASE Interrupt
  BY <1>3 DEF Interrupt, End
<1>4. CASE StartReconcile
  BY <1>4 DEF StartReconcile, Begin
<1>5. ASSUME NEW p \in Path, ScanPath(p) PROVE Committed'
  BY <1>5 DEF ScanPath, IsNext
<1>6. CASE StopAtBounds
  BY <1>6 DEF StopAtBounds, End
<1>7. CASE Repair
  BY <1>7 DEF Repair
<1>8. CASE Backfill
  BY <1>8 DEF Backfill, End
<1>9. ASSUME NEW paths \in SUBSET Path \ {{}}, StartReindex(paths) PROVE Committed'
  BY <1>9 DEF StartReindex, Begin
<1>10. ASSUME NEW p \in Path, DropAndRead(p) PROVE Committed'
  BY <1>10 DEF DropAndRead, ReadBytes, IsNext
<1>11. CASE BeginUpsert
  BY <1>11 DEF BeginUpsert
<1>12. CASE CommitReady
  BY <1>12 DEF CommitReady, Commit
<1>13. CASE CommitZero
  BY <1>13 DEF CommitZero, Commit
<1>14. CASE CommitDeleted
  BY <1>14 DEF CommitDeleted, End
<1>15. CASE StartRebuild
  BY <1>15 DEF StartRebuild, Begin
<1>16. ASSUME NEW p \in Path, VisitPath(p) PROVE Committed'
  BY <1>16 DEF VisitPath, ReadBytes, IsNext
<1>17. CASE BeginScopes
  BY <1>17 DEF BeginScopes
<1>18. CASE CreateCurrent
  BY <1>18 DEF CreateCurrent
<1>19. CASE CommitRebuild
  BY <1>19 DEF CommitRebuild, End, RebuiltManifest
<1>20. ASSUME NEW s \in Scope, ClearScope(s) PROVE Committed'
  BY <1>20 DEF ClearScope, NextScope
<1>21. ASSUME NEW s \in Scope, DropCurrent(s) PROVE Committed'
  BY <1>21 DEF DropCurrent, NextScope
<1>22. CASE StatFile
  BY <1>22 DEF StatFile
<1>23. ASSUME NEW pt \in pending, UpsertPoint(pt) PROVE Committed'
  BY <1>23 DEF UpsertPoint
<1>24. CASE UNCHANGED vars
  BY <1>24 DEF vars
<1> QED
  BY <1>1, <1>2, <1>3, <1>4, <1>5, <1>6, <1>7, <1>8, <1>9, <1>10, <1>11, <1>12, <1>13, <1>14,
     <1>15, <1>16, <1>17, <1>18, <1>19, <1>20, <1>21, <1>22, <1>23, <1>24, Zenon DEF Next,
     Editor, Reconcile, Reindex, Rebuild

\* What an operation has read is what is in the tree, as long as nobody edits.
LEMMA QuietStep ==
  ASSUME Types, Places, QuietIsExact, [Next]_vars
  PROVE  QuietIsExact'
<1> USE IndexerAssumption DEF Types, TypeOK, Places, Scope, index, work, QuietIsExact
<1>1. ASSUME NEW p \in Path, NEW c \in Content, Write(p, c) PROVE QuietIsExact'
  <2>1. quiet' => mode = "idle"
    BY <1>1 DEF Write
  <2> QED BY <1>1, <2>1 DEF Write
<1>2. ASSUME NEW p \in Path, Remove(p) PROVE QuietIsExact'
  <2>1. quiet' => mode = "idle"
    BY <1>2 DEF Remove
  <2> QED BY <1>2, <2>1 DEF Remove
<1>3. CASE Interrupt
  BY <1>3 DEF Interrupt, End
<1>4. CASE StartReconcile
  BY <1>4 DEF StartReconcile, Begin
<1>5. ASSUME NEW p \in Path, ScanPath(p) PROVE QuietIsExact'
  BY <1>5 DEF ScanPath, IsNext
<1>6. CASE StopAtBounds
  BY <1>6 DEF StopAtBounds, End
<1>7. CASE Repair
  BY <1>7 DEF Repair
<1>8. CASE Backfill
  BY <1>8 DEF Backfill, End
<1>9. ASSUME NEW paths \in SUBSET Path \ {{}}, StartReindex(paths) PROVE QuietIsExact'
  BY <1>9 DEF StartReindex, Begin
<1>10. ASSUME NEW p \in Path, DropAndRead(p) PROVE QuietIsExact'
  BY <1>10 DEF DropAndRead, ReadBytes, IsNext
<1>11. CASE BeginUpsert
  BY <1>11 DEF BeginUpsert
<1>12. CASE CommitReady
  BY <1>12 DEF CommitReady, Commit
<1>13. CASE CommitZero
  BY <1>13 DEF CommitZero, Commit
<1>14. CASE CommitDeleted
  BY <1>14 DEF CommitDeleted, End
<1>15. CASE StartRebuild
  BY <1>15 DEF StartRebuild, Begin
<1>16. ASSUME NEW p \in Path, VisitPath(p) PROVE QuietIsExact'
  BY <1>16 DEF VisitPath, ReadBytes, IsNext
<1>17. CASE BeginScopes
  <2>1. pc = "next" /\ pc' = "scope" /\ reading = None /\ None \notin Path
        /\ UNCHANGED <<quiet, misread, tree, targets, todo, reading, snap>>
    BY <1>17 DEF BeginScopes
  <2> QED BY <2>1
<1>18. CASE CreateCurrent
  BY <1>18 DEF CreateCurrent
<1>19. CASE CommitRebuild
  BY <1>19 DEF CommitRebuild, End, RebuiltManifest
<1>20. ASSUME NEW s \in Scope, ClearScope(s) PROVE QuietIsExact'
  BY <1>20 DEF ClearScope, NextScope
<1>21. ASSUME NEW s \in Scope, DropCurrent(s) PROVE QuietIsExact'
  BY <1>21 DEF DropCurrent, NextScope
<1>22. CASE StatFile
  <2>1. /\ pc' = "next" /\ reading' = None /\ reading \in Path /\ None \notin Path
        /\ tree[reading] # None
        /\ snap' = [snap EXCEPT ![reading] = [content |-> bytes, mtime |-> tree[reading].mtime]]
        /\ misread' = IF bytes = tree[reading].content THEN misread ELSE misread \cup {reading}
        /\ UNCHANGED <<quiet, tree, targets, todo>>
    BY <1>22 DEF StatFile
  <2>2. ASSUME quiet PROVE misread' = {} /\ snap'[reading] = tree[reading]
    <3>1. bytes = tree[reading].content /\ tree[reading] \in Version
      BY <1>22, <2>1, <2>2 DEF StatFile
    <3> QED BY <2>1, <2>2, <3>1 DEF Version
  <2>3. \A p \in Path \ {reading} : snap'[p] = snap[p]
    BY <2>1
  <2> QED BY <1>22, <2>1, <2>2, <2>3 DEF StatFile
<1>23. ASSUME NEW pt \in pending, UpsertPoint(pt) PROVE QuietIsExact'
  BY <1>23 DEF UpsertPoint
<1>24. CASE UNCHANGED vars
  BY <1>24 DEF vars
<1> QED
  BY <1>1, <1>2, <1>3, <1>4, <1>5, <1>6, <1>7, <1>8, <1>9, <1>10, <1>11, <1>12, <1>13, <1>14,
     <1>15, <1>16, <1>17, <1>18, <1>19, <1>20, <1>21, <1>22, <1>23, <1>24, Zenon DEF Next,
     Editor, Reconcile, Reindex, Rebuild

\* What a reconcile has deleted and what it will delete stay within the bound.
LEMMA LossStep ==
  ASSUME Types, Places, Replacement, LossIsBounded, [Next]_vars
  PROVE  LossIsBounded'
<1> USE IndexerAssumption DEF Types, TypeOK, Places, Scope, index, work, LossIsBounded, AtRisk
<1>1. ASSUME NEW p \in Path, NEW c \in Content, Write(p, c) PROVE LossIsBounded'
  BY <1>1 DEF Write
<1>2. ASSUME NEW p \in Path, Remove(p) PROVE LossIsBounded'
  BY <1>2 DEF Remove
<1>3. CASE Interrupt
  BY <1>3 DEF Interrupt, End
<1>4. CASE StartReconcile
  <2>1. pc' = "scan" /\ targets' = {}
    BY <1>4 DEF StartReconcile, Begin
  <2>2. Cardinality({}) = 0
    BY FS_EmptySet
  <2> QED BY <2>1, <2>2
<1>5. ASSUME NEW p \in Path, ScanPath(p) PROVE LossIsBounded'
  BY <1>5 DEF ScanPath, IsNext
<1>6. CASE StopAtBounds
  BY <1>6 DEF StopAtBounds, End
<1>7. CASE Repair
  <2> DEFINE planned == UNION {Readable(p) : p \in Touched}
  <2>1. /\ targets' = Touched /\ todo' = Touched /\ lost' = 0 /\ UNCHANGED points
        /\ Cardinality(Touched) <= MaxPaths /\ Cardinality(planned) <= MaxPoints
    BY <1>7 DEF Repair, WithinBounds, PointsToDelete
  <2>2. AtRisk' \subseteq planned
    <3>1. ASSUME NEW pt \in points, pt.path \in Touched, pt.schema = "current"
          PROVE  pt \in Readable(pt.path)
      BY <3>1 DEF Replacement, StoreIsOrderly, Readable, ReadSchema
    <3> QED BY <2>1, <3>1
  <2>3. IsFiniteSet(planned)
    <3>1. planned \subseteq points
      BY DEF Readable
    <3> QED BY <3>1, FS_Subset
  <2>4. /\ Cardinality(AtRisk') \in Nat /\ Cardinality(planned) \in Nat
        /\ Cardinality(AtRisk') <= Cardinality(planned)
    BY <2>2, <2>3, FS_Subset, FS_CardinalityType
  <2> HIDE DEF planned, AtRisk
  <2> QED BY <2>1, <2>4
<1>8. CASE Backfill
  BY <1>8 DEF Backfill, End
<1>9. ASSUME NEW paths \in SUBSET Path \ {{}}, StartReindex(paths) PROVE LossIsBounded'
  BY <1>9 DEF StartReindex, Begin
<1>10. ASSUME NEW p \in Path, DropAndRead(p) PROVE LossIsBounded'
  <2> DEFINE dropped == {pt \in points : pt.path = p /\ pt.schema = "current"}
  <2>1. /\ points' = points \ dropped /\ p \in todo /\ todo' = todo \ {p}
        /\ lost' = IF mode = "reconcile" THEN lost + Cardinality(dropped) ELSE 0
        /\ UNCHANGED <<mode, targets>> /\ pc = "next"
    BY <1>10 DEF DropAndRead, ReadBytes, IsNext
  <2>2. IsFiniteSet(AtRisk) /\ dropped = AtRisk \cap dropped /\ AtRisk' = AtRisk \ dropped
    <3>1. IsFiniteSet(AtRisk)
      BY FS_Subset
    <3> QED BY <2>1, <3>1
  <2>3. /\ Cardinality(AtRisk) \in Nat /\ Cardinality(dropped) \in Nat
        /\ Cardinality(AtRisk') = Cardinality(AtRisk) - Cardinality(dropped)
    <3>1. IsFiniteSet(dropped)
      BY FS_Subset
    <3>2. Cardinality(AtRisk') = Cardinality(AtRisk) - Cardinality(AtRisk \cap dropped)
      BY <2>2, FS_Difference
    <3> QED BY <2>2, <3>1, <3>2, FS_CardinalityType
  <2> HIDE DEF dropped, AtRisk
  <2> QED BY <2>1, <2>3
<1>11. CASE BeginUpsert
  BY <1>11 DEF BeginUpsert
<1>12. CASE CommitReady
  BY <1>12 DEF CommitReady, Commit
<1>13. CASE CommitZero
  BY <1>13 DEF CommitZero, Commit
<1>14. CASE CommitDeleted
  BY <1>14 DEF CommitDeleted, End
<1>15. CASE StartRebuild
  BY <1>15 DEF StartRebuild, Begin
<1>16. ASSUME NEW p \in Path, VisitPath(p) PROVE LossIsBounded'
  BY <1>16 DEF VisitPath, ReadBytes, IsNext
<1>17. CASE BeginScopes
  BY <1>17 DEF BeginScopes
<1>18. CASE CreateCurrent
  BY <1>18 DEF CreateCurrent
<1>19. CASE CommitRebuild
  BY <1>19 DEF CommitRebuild, End, RebuiltManifest
<1>20. ASSUME NEW s \in Scope, ClearScope(s) PROVE LossIsBounded'
  BY <1>20 DEF ClearScope, NextScope
<1>21. ASSUME NEW s \in Scope, DropCurrent(s) PROVE LossIsBounded'
  BY <1>21 DEF DropCurrent, NextScope
<1>22. CASE StatFile
  BY <1>22 DEF StatFile
<1>23. ASSUME NEW pt \in pending, UpsertPoint(pt) PROVE LossIsBounded'
  <2>1. mode = "reconcile" => AtRisk = {} /\ AtRisk' = {}
    BY <1>23 DEF UpsertPoint
  <2> HIDE DEF AtRisk
  <2> QED BY <1>23, <2>1 DEF UpsertPoint
<1>24. CASE UNCHANGED vars
  BY <1>24 DEF vars
<1> QED
  BY <1>1, <1>2, <1>3, <1>4, <1>5, <1>6, <1>7, <1>8, <1>9, <1>10, <1>11, <1>12, <1>13, <1>14,
     <1>15, <1>16, <1>17, <1>18, <1>19, <1>20, <1>21, <1>22, <1>23, <1>24, Zenon DEF Next,
     Editor, Reconcile, Reindex, Rebuild

\* Search never mixes two versions: the points that are put where others are come from
\* the same snapshot.
LEMMA OneVersionStep ==
  ASSUME Types, Places, Replacement, OneVersionPerPath, [Next]_vars
  PROVE  OneVersionPerPath'
<1>1. ASSUME NEW pt \in pending, UpsertPoint(pt) PROVE OneVersionPerPath'
  <2>1. points' = points \cup {pt} /\ pt.schema = "current" /\ pt \in SnapPoints(pt.path)
    BY <1>1 DEF UpsertPoint, Replacement, Replaced, SnapPoints, PointsOf
  <2>2. ASSUME NEW q \in points, q.path = pt.path, q.schema = "current"
        PROVE  q \in SnapPoints(pt.path)
    BY <2>2 DEF Replacement, Replaced
  <2>3. \A q \in SnapPoints(pt.path) : q.content = pt.content /\ q.mtime = pt.mtime
    BY <2>1 DEF SnapPoints, PointsOf
  <2> QED BY <2>1, <2>2, <2>3 DEF OneVersionPerPath
<1>2. ASSUME points' \subseteq points PROVE OneVersionPerPath'
  BY <1>2 DEF OneVersionPerPath
<1>3. \/ points' \subseteq points
      \/ \E pt \in pending : UpsertPoint(pt)
  BY DEF Next, vars, index, Editor, Reconcile, Reindex, Rebuild, Write, Remove, Interrupt, Begin,
     StartReconcile,
     ScanPath, StopAtBounds, Repair, Backfill, StartReindex, DropAndRead, BeginUpsert,
     CommitReady,
     CommitZero, CommitDeleted, StartRebuild, VisitPath, BeginScopes, CreateCurrent,
     CommitRebuild,
     ClearScope, DropCurrent, StatFile
<1> QED BY <1>1, <1>2, <1>3

\* What readers see of a path whose points are all of one version, and all there.
LEMMA WholeIsRead ==
  ASSUME Types, StoreIsOrderly, OneVersionPerPath, NEW p \in Path, NEW pt \in Readable(p),
         \A i \in 1..Chunks[pt.content] : [pt EXCEPT !.idx = i] \in points
  PROVE  Readable(p) = Reading(pt.schema, p, pt.content, pt.mtime, Chunks[pt.content])
<1> USE DEF Reading
<1> DEFINE whole == Reading(pt.schema, p, pt.content, pt.mtime, Chunks[pt.content])
<1>1. /\ pt \in points /\ pt \in Point /\ pt.path = p /\ pt.schema = ReadSchema(ScopeOf[p])
      /\ \A q \in Readable(p) : q \in points /\ q \in Point /\ q.path = p /\ q.schema = pt.schema
  BY DEF Readable, Types, TypeOK
<1>2. ASSUME NEW q \in Readable(p) PROVE q \in whole
  <2>1. q.content = pt.content /\ q.mtime = pt.mtime
    BY <1>1 DEF OneVersionPerPath
  <2>2. q.idx \in 1..Chunks[q.content]
    BY <1>1 DEF StoreIsOrderly
  <2> QED BY <1>1, <2>1, <2>2 DEF Point
<1>3. ASSUME NEW q \in whole PROVE q \in Readable(p)
  <2>1. q = [pt EXCEPT !.idx = q.idx]
    BY <1>1 DEF Point
  <2>2. q \in points
    BY <2>1
  <2> QED BY <1>1, <2>2 DEF Readable
<1> QED BY <1>2, <1>3

\* The same, as a search result.
LEMMA WholeIsShown ==
  ASSUME Types, StoreIsOrderly, OneVersionPerPath, NEW p \in Path, NEW pt \in Readable(p),
         \A i \in 1..Chunks[pt.content] : [pt EXCEPT !.idx = i] \in points
  PROVE  Shown(p) = [content : {pt.content}, mtime : {pt.mtime}, idx : 1..Chunks[pt.content]]
<1> DEFINE shape(q) == [content |-> q.content, mtime |-> q.mtime, idx |-> q.idx]
           q0(i) == [schema |-> pt.schema, path |-> p, content |-> pt.content,
                     mtime |-> pt.mtime, idx |-> i]
<1>1. Shown(p) = {shape(q) : q \in Reading(pt.schema, p, pt.content, pt.mtime, Chunks[pt.content])}
  BY WholeIsRead DEF Shown
<1>2. ASSUME NEW x \in [content : {pt.content}, mtime : {pt.mtime}, idx : 1..Chunks[pt.content]]
      PROVE  x \in Shown(p)
  <2>1. x = shape(q0(x.idx))
    OBVIOUS
  <2> QED BY <1>1, <2>1 DEF Reading
<1>3. ASSUME NEW x \in Shown(p)
      PROVE  x \in [content : {pt.content}, mtime : {pt.mtime}, idx : 1..Chunks[pt.content]]
  BY <1>1 DEF Reading
<1> QED BY <1>2, <1>3

\* A reliable path that the scan found indexed at its mtime is shown exactly.
LEMMA ScannedIsExact ==
  ASSUME Types, Places, StoreIsOrderly, OneVersionPerPath, QuietIsExact, ReliableIsWhole,
         pc = "scan", todo = {}, quiet,
         NEW p \in Path, p \notin torn \cup damaged, IndexedMtime(p) = seen[p]
  PROVE  Shown(p) = Expected(p)
<1> USE IndexerAssumption
<1>1. IsWhole(p)
  BY DEF ReliableIsWhole, Reliable, HalfReplaced, Places
<1>2. seen[p] = IF tree[p] = None THEN None ELSE tree[p].mtime
  BY DEF QuietIsExact
<1>3. tree[p] \in Version \cup {None}
  BY DEF Types, TypeOK
<1>4. CASE Readable(p) # {}
  <2> DEFINE pt == CHOOSE pt \in Readable(p) : TRUE
  <2>1. pt \in Readable(p) /\ pt \in Point
    BY <1>4 DEF Readable, Types, TypeOK
  <2>2. pt.mtime # None /\ seen[p] = pt.mtime
    BY <1>4, <2>1 DEF IndexedMtime, Point, Mtime
  <2>3. tree[p] # None /\ tree[p].mtime = pt.mtime
    BY <1>2, <2>2
  <2>4. /\ tree[p].content = pt.content
        /\ \A i \in 1..Chunks[pt.content] : [pt EXCEPT !.idx = i] \in points
    BY <1>1, <2>1, <2>3 DEF IsWhole, Genuine
  <2> HIDE DEF pt
  <2>5. Shown(p) = [content : {pt.content}, mtime : {pt.mtime}, idx : 1..Chunks[pt.content]]
    BY <2>1, <2>4, WholeIsShown
  <2> QED BY <2>3, <2>4, <2>5 DEF Expected
<1>5. CASE Readable(p) = {}
  <2>1. Shown(p) = {}
    BY <1>5 DEF Shown
  <2>2. CASE ZeroRow(p)
    <3>1. HasRow(p) /\ tree[p] # None /\ manifest[p].mtime = tree[p].mtime /\ manifest[p].chunks = 0
      BY <1>2, <1>5, <2>2 DEF IndexedMtime, ZeroRow
    <3>2. Chunks[tree[p].content] = 0
      BY <1>1, <3>1 DEF IsWhole, Genuine
    <3>3. 1..Chunks[tree[p].content] = {}
      BY <3>2
    <3> QED BY <2>1, <3>3 DEF Expected
  <2>3. CASE ~ZeroRow(p)
    BY <1>2, <1>3, <1>5, <2>1, <2>3 DEF IndexedMtime, Expected, Version, Mtime
  <2> QED BY <2>2, <2>3
<1> QED BY <1>4, <1>5

\* What a reconcile leaves alone is shown exactly, as long as nobody edits.
LEMMA RestStep ==
  ASSUME Types, Places, Replacement, OneVersionPerPath, QuietIsExact, ReliableIsWhole,
         RestIsExact, [Next]_vars
  PROVE  RestIsExact'
<1> USE IndexerAssumption DEF Types, TypeOK, Places, Scope, index, work, RestIsExact, Shown,
      Expected, Readable, ReadSchema
<1>1. ASSUME NEW p \in Path, NEW c \in Content, Write(p, c) PROVE RestIsExact'
  <2>1. quiet' => mode' = "idle"
    BY <1>1 DEF Write
  <2> QED BY <2>1
<1>2. ASSUME NEW p \in Path, Remove(p) PROVE RestIsExact'
  <2>1. quiet' => mode' = "idle"
    BY <1>2 DEF Remove
  <2> QED BY <2>1
<1>3. CASE Interrupt
  BY <1>3 DEF Interrupt, End
<1>4. CASE StartReconcile
  BY <1>4 DEF StartReconcile, Begin
<1>5. ASSUME NEW p \in Path, ScanPath(p) PROVE RestIsExact'
  BY <1>5 DEF ScanPath, IsNext
<1>6. CASE StopAtBounds
  BY <1>6 DEF StopAtBounds, End
<1>7. CASE Repair
  <2> HIDE DEF Types, TypeOK, Places, Shown, Expected, Readable
  <2>1. /\ pc = "scan" /\ todo = {} /\ targets' = Touched
        /\ UNCHANGED <<tree, collections, points, quiet, torn, damaged>>
    BY <1>7 DEF Repair
  <2>2. ASSUME NEW p \in Path, p \notin Touched \cup torn \cup damaged, quiet
        PROVE  Shown(p) = Expected(p)
    BY <2>1, <2>2, ScannedIsExact DEF Touched, Replacement
  <2>3. \A p \in Path : Shown(p)' = Shown(p) /\ Expected(p)' = Expected(p)
    BY <2>1 DEF Shown, Expected, Readable, ReadSchema
  <2> QED BY <2>1, <2>2, <2>3
<1>8. CASE Backfill
  BY <1>8 DEF Backfill, End
<1>9. ASSUME NEW paths \in SUBSET Path \ {{}}, StartReindex(paths) PROVE RestIsExact'
  BY <1>9 DEF StartReindex, Begin
<1>10. ASSUME NEW p \in Path, DropAndRead(p) PROVE RestIsExact'
  BY <1>10 DEF DropAndRead, ReadBytes, IsNext
<1>11. CASE BeginUpsert
  BY <1>11 DEF BeginUpsert
<1>12. CASE CommitReady
  <2>1. /\ UNCHANGED <<tree, collections, points, quiet, mode, targets>> /\ pc = "upsert"
        /\ damaged' \subseteq damaged /\ torn \subseteq torn' \cup targets
        /\ damaged \subseteq damaged' \cup targets
    BY <1>12 DEF CommitReady, Commit, Upserted
  <2>2. \A p \in Path : Shown(p)' = Shown(p) /\ Expected(p)' = Expected(p)
    BY <2>1 DEF Shown, Expected, Readable, ReadSchema
  <2> QED BY <2>1, <2>2
<1>13. CASE CommitZero
  <2>1. /\ UNCHANGED <<tree, collections, points, quiet, mode, targets>> /\ pc = "zero"
        /\ damaged' \subseteq damaged /\ torn \subseteq torn' \cup targets
        /\ damaged \subseteq damaged' \cup targets
    BY <1>13 DEF CommitZero, Commit, Empty
  <2>2. \A p \in Path : Shown(p)' = Shown(p) /\ Expected(p)' = Expected(p)
    BY <2>1 DEF Shown, Expected, Readable, ReadSchema
  <2> QED BY <2>1, <2>2
<1>14. CASE CommitDeleted
  BY <1>14 DEF CommitDeleted, End
<1>15. CASE StartRebuild
  BY <1>15 DEF StartRebuild, Begin
<1>16. ASSUME NEW p \in Path, VisitPath(p) PROVE RestIsExact'
  BY <1>16 DEF VisitPath, ReadBytes, IsNext
<1>17. CASE BeginScopes
  BY <1>17 DEF BeginScopes
<1>18. CASE CreateCurrent
  BY <1>18 DEF CreateCurrent
<1>19. CASE CommitRebuild
  BY <1>19 DEF CommitRebuild, End, RebuiltManifest
<1>20. ASSUME NEW s \in Scope, ClearScope(s) PROVE RestIsExact'
  BY <1>20 DEF ClearScope, NextScope
<1>21. ASSUME NEW s \in Scope, DropCurrent(s) PROVE RestIsExact'
  BY <1>21 DEF DropCurrent, NextScope
<1>22. CASE StatFile
  BY <1>22 DEF StatFile
<1>23. ASSUME NEW pt \in pending, UpsertPoint(pt) PROVE RestIsExact'
  <2>1. /\ points' = points \cup {pt}
        /\ UNCHANGED <<tree, collections, quiet, mode, pc, targets, torn, damaged>>
    BY <1>23 DEF UpsertPoint
  <2>2. mode = "reconcile" => pt.path \in targets
    BY DEF Replacement, Replaced, HalfReplaced
  <2>3. ASSUME NEW p \in Path, p # pt.path
        PROVE  Shown(p)' = Shown(p) /\ Expected(p)' = Expected(p)
    <3>1. Readable(p)' = Readable(p)
      BY <2>1, <2>3
    <3> HIDE DEF Readable
    <3> QED BY <2>1, <3>1
  <2> HIDE DEF Shown, Expected
  <2> QED BY <2>1, <2>2, <2>3
<1>24. CASE UNCHANGED vars
  BY <1>24 DEF vars
<1> QED
  BY <1>1, <1>2, <1>3, <1>4, <1>5, <1>6, <1>7, <1>8, <1>9, <1>10, <1>11, <1>12, <1>13, <1>14,
     <1>15, <1>16, <1>17, <1>18, <1>19, <1>20, <1>21, <1>22, <1>23, <1>24, Zenon DEF Next,
     Editor, Reconcile, Reindex, Rebuild

\* What nobody has touched stays whole.
LEMMA WholeIsKept ==
  ASSUME NEW p \in Path, IsWhole(p), Readable(p)' = Readable(p),
         \A pt \in points : pt.path = p => pt \in points',
         manifest'[p] = manifest[p], covered' = covered,
         \A v : Genuine(p, v) => Genuine(p, v)',
         Types
  PROVE  IsWhole(p)'
<1>1. HasRow(p)' = HasRow(p)
  BY DEF HasRow
<1>2. ASSUME NEW pt \in Readable(p), NEW i \in 1..Chunks[pt.content]
      PROVE  [pt EXCEPT !.idx = i] \in points'
  <2>1. [pt EXCEPT !.idx = i] \in points
    BY DEF IsWhole
  <2>2. [pt EXCEPT !.idx = i].path = p
    BY DEF Readable, Types, TypeOK, Point
  <2> QED BY <2>1, <2>2
<1> QED BY <1>1, <1>2 DEF IsWhole

\* Of a path that is being replaced, readers see points of its snapshot only; and all of
\* them, when they are there.
LEMMA ReplacedIsRead ==
  ASSUME Types, Replacement, NEW p \in Path, p \in HalfReplaced,
         HasCurrent(p) \/ <<ScopeOf[p], "legacy">> \notin collections
  PROVE  /\ Readable(p) \subseteq SnapPoints(p)
         /\ SnapPoints(p) \subseteq points => Readable(p) = SnapPoints(p)
<1>1. ASSUME NEW pt \in Readable(p) PROVE pt \in SnapPoints(p)
  <2>1. pt \in points /\ pt.path = p /\ pt.schema = ReadSchema(ScopeOf[p])
    BY DEF Readable
  <2>2. <<ScopeOf[p], pt.schema>> \in collections
    BY <2>1 DEF Replacement, StoreIsOrderly
  <2>3. pt.schema = "current"
    BY <2>1, <2>2 DEF ReadSchema, HasCurrent
  <2> QED BY <2>1, <2>3 DEF Replacement, Replaced
<1>2. ASSUME NEW pt \in SnapPoints(p), pt \in points PROVE pt \in Readable(p)
  <2>1. pt.path = p /\ pt.schema = "current"
    BY DEF SnapPoints, PointsOf
  <2>2. <<ScopeOf[p], "current">> \in collections
    BY <1>2, <2>1 DEF Replacement, StoreIsOrderly
  <2> QED BY <1>2, <2>1, <2>2 DEF Readable, ReadSchema
<1> QED BY <1>1, <1>2

\* Of a path that was rewritten by a rebuild which has no point left to upsert, readers see
\* the snapshot.
LEMMA RewrittenIsRead ==
  ASSUME Types, Places, Replacement, pc = "scope", scopes = {}, pending = {}, NEW p \in Path
  PROVE  /\ p \in HalfReplaced /\ (HasCurrent(p) \/ <<ScopeOf[p], "legacy">> \notin collections)
         /\ SnapPoints(p) \subseteq points /\ Readable(p) = SnapPoints(p)
<1>1. p \in HalfReplaced
  BY DEF HalfReplaced, Places
<1>2. Rewritten(ScopeOf[p])
  BY DEF Rewritten
<1>3. (Bare(p) \/ HasCurrent(p)) /\ SnapPoints(p) \subseteq points
  BY <1>2 DEF Replacement, Rewriting
<1>4. HasCurrent(p) \/ <<ScopeOf[p], "legacy">> \notin collections
  BY <1>3 DEF Bare
<1> QED BY <1>1, <1>3, <1>4, ReplacedIsRead

\* A path whose points are those of its snapshot, and whose row is that snapshot's.
LEMMA SnapIsWhole ==
  ASSUME Types, TimesArePast, NEW p \in Path, snap[p] # None, p \notin misread,
         Readable(p) = SnapPoints(p), SnapPoints(p) \subseteq points,
         UNCHANGED <<tree, points, collections>>, manifest'[p] = RowOf(snap[p])
  PROVE  IsWhole(p)'
<1> USE IndexerAssumption
<1>1. snap[p] \in Version /\ RowOf(snap[p]) \in Row /\ Chunks[snap[p].content] \in Nat
  BY RowOfVersion DEF Types, TypeOK, Version
<1>2. /\ manifest'[p].content = snap[p].content /\ manifest'[p].mtime = snap[p].mtime
      /\ manifest'[p].chunks = Chunks[snap[p].content] /\ HasRow(p)'
  BY <1>1 DEF RowOf, HasRow
<1>3. Readable(p)' = PointsOf(p, snap[p])
  BY DEF SnapPoints, Readable, ReadSchema
<1>4. tree[p] # None /\ tree[p].mtime = snap[p].mtime => tree[p].content = snap[p].content
  BY DEF TimesArePast, Genuine
<1>5. ASSUME NEW pt \in PointsOf(p, snap[p])
      PROVE  /\ pt.content = snap[p].content /\ pt.mtime = snap[p].mtime
             /\ \A i \in 1..Chunks[pt.content] : [pt EXCEPT !.idx = i] \in points'
  <2>1. \A i \in 1..Chunks[pt.content] : [pt EXCEPT !.idx = i] \in PointsOf(p, snap[p])
    BY DEF PointsOf
  <2> QED BY <2>1 DEF PointsOf, SnapPoints
<1>6. PointsOf(p, snap[p]) = {} => Chunks[snap[p].content] = 0
  BY <1>1, PointsOfVersion
<1> QED BY <1>2, <1>3, <1>4, <1>5, <1>6 DEF IsWhole, Genuine

\* A path of which nothing is read, and that has no row.
LEMMA NothingIsWhole ==
  ASSUME NEW p \in Path, Readable(p)' = {}, ~HasRow(p)'
  PROVE  IsWhole(p)'
BY DEF IsWhole

\* A path that no interrupted, torn or unfinished replacement has touched has a row that tells
\* what readers see of it.
LEMMA ReliableStep ==
  ASSUME Types, Types', Places, Replacement, OneVersionPerPath, TimesArePast, Committed,
         ReliableIsWhole, [Next]_vars
  PROVE  ReliableIsWhole'
<1> USE IndexerAssumption DEF Scope, index, work
<1>1. ASSUME NEW p \in Path, NEW c \in Content, Write(p, c) PROVE ReliableIsWhole'
  <2>1. /\ UNCHANGED <<points, collections, manifest, covered, mode, pc, targets, todo, scopes,
                     torn, damaged>>
        /\ \A q \in Path \ {p} : tree'[q] = tree[q]
        /\ edits' = edits + 1 /\ tree'[p].mtime = edits + 1
    BY <1>1 DEF Write, index, work, TypeOK, Types
  <2>2. ASSUME NEW q \in Path, Reliable(q)' PROVE IsWhole(q)'
    <3>1. Reliable(q) /\ Readable(q)' = Readable(q)
      BY <2>1, <2>2 DEF Reliable, HalfReplaced, Bare, Readable, ReadSchema
    <3>2. IsWhole(q)
      BY <3>1 DEF ReliableIsWhole
    <3>3. CASE q # p
      BY <2>1, <3>1, <3>2, <3>3, WholeIsKept DEF Genuine
    <3>4. CASE q = p
      <4>1. ASSUME NEW pt \in Readable(q) PROVE Genuine(q, pt)'
        BY <2>1, <3>4 DEF Genuine, Readable, TimesArePast, Types, TypeOK, Point, Mtime
      <4>2. ASSUME HasRow(q) PROVE Genuine(q, manifest[q])'
        BY <2>1, <3>4, <4>2 DEF Genuine, HasRow, TimesArePast, Types, TypeOK, Row, Mtime
      <4> QED BY <2>1, <3>1, <3>2, <4>1, <4>2 DEF IsWhole, HasRow
    <3> QED BY <3>3, <3>4
  <2> QED BY <2>2 DEF ReliableIsWhole
<1>2. ASSUME NEW p \in Path, Remove(p) PROVE ReliableIsWhole'
  <2>1. /\ UNCHANGED <<points, collections, manifest, covered, mode, pc, targets, todo, scopes,
                     torn, damaged>>
        /\ \A q \in Path \ {p} : tree'[q] = tree[q]
        /\ tree'[p] = None
    BY <1>2 DEF Remove, index, work, TypeOK, Types
  <2>2. ASSUME NEW q \in Path, Reliable(q)' PROVE IsWhole(q)'
    <3>1. Reliable(q) /\ Readable(q)' = Readable(q)
      BY <2>1, <2>2 DEF Reliable, HalfReplaced, Bare, Readable, ReadSchema
    <3>2. IsWhole(q)
      BY <3>1 DEF ReliableIsWhole
    <3>3. CASE q # p
      BY <2>1, <3>1, <3>2, <3>3, WholeIsKept DEF Genuine
    <3>4. CASE q = p
      <4>1. ASSUME NEW pt \in Readable(q) PROVE Genuine(q, pt)'
        BY <2>1, <3>4 DEF Genuine, Readable, TimesArePast, Types, TypeOK, Point, Mtime
      <4>2. ASSUME HasRow(q) PROVE Genuine(q, manifest[q])'
        BY <2>1, <3>4, <4>2 DEF Genuine, HasRow, TimesArePast, Types, TypeOK, Row, Mtime
      <4> QED BY <2>1, <3>1, <3>2, <4>1, <4>2 DEF IsWhole, HasRow
    <3> QED BY <3>3, <3>4
  <2> QED BY <2>2 DEF ReliableIsWhole
<1>3. CASE Interrupt
  BY <1>3 DEF Interrupt, End,
     ReliableIsWhole, Reliable, HalfReplaced, Bare, IsWhole, Readable, ReadSchema, HasRow,
     Genuine, Places
<1>4. CASE StartReconcile
  BY <1>4 DEF StartReconcile, Begin,
     ReliableIsWhole, Reliable, HalfReplaced, Bare, IsWhole, Readable, ReadSchema, HasRow,
     Genuine, Places
<1>5. ASSUME NEW p \in Path, ScanPath(p) PROVE ReliableIsWhole'
  BY <1>5 DEF ScanPath, IsNext,
     ReliableIsWhole, Reliable, HalfReplaced, Bare, IsWhole, Readable, ReadSchema, HasRow,
     Genuine, Places
<1>6. CASE StopAtBounds
  BY <1>6 DEF StopAtBounds, End,
     ReliableIsWhole, Reliable, HalfReplaced, Bare, IsWhole, Readable, ReadSchema, HasRow,
     Genuine, Places
<1>7. CASE Repair
  BY <1>7 DEF Repair,
     ReliableIsWhole, Reliable, HalfReplaced, Bare, IsWhole, Readable, ReadSchema, HasRow,
     Genuine, Places
<1>8. CASE Backfill
  <2>1. /\ pc = "scan" /\ pc' = "idle" /\ mode' = "idle" /\ targets = {} /\ Touched = {}
        /\ UNCHANGED <<tree, points, collections, torn, damaged>>
    BY <1>8 DEF Backfill, End, Places
  <2>2. ASSUME NEW p \in Path, Reliable(p)' PROVE IsWhole(p)'
    <3>1. Reliable(p) /\ IsWhole(p) /\ Readable(p)' = Readable(p)
      BY <2>1, <2>2 DEF ReliableIsWhole, Reliable, HalfReplaced, Readable, ReadSchema
    <3>2. \/ manifest' = manifest /\ covered' = covered
          \/ seen[p] = None /\ manifest'[p] = NoRow
          \/ seen[p] # None /\ tree[p] # None /\ manifest'[p] = BackfilledRow(p)
      BY <1>8 DEF Backfill
    <3>3. CASE manifest' = manifest /\ covered' = covered
      BY <2>1, <3>1, <3>3, WholeIsKept DEF Genuine
    <3>4. CASE seen[p] = None /\ manifest'[p] = NoRow
      <4>1. Readable(p) = {}
        <5> SUFFICES ASSUME Readable(p) # {} PROVE FALSE
          OBVIOUS
        <5>1. (CHOOSE pt \in Readable(p) : TRUE) \in Point
          BY DEF Readable, Types, TypeOK
        <5>2. (CHOOSE pt \in Readable(p) : TRUE).mtime = None
          BY <2>1, <3>4 DEF Touched, IndexedMtime
        <5> QED BY <5>1, <5>2, IndexerAssumption DEF Point, Mtime
      <4> QED BY <3>1, <3>4, <4>1, NothingIsWhole DEF HasRow
    <3>5. CASE seen[p] # None /\ tree[p] # None /\ manifest'[p] = BackfilledRow(p)
      <4>1. CASE Readable(p) # {}
        <5> DEFINE pt == CHOOSE pt \in Readable(p) : TRUE
        <5>1. pt \in Readable(p) /\ pt \in Point
          BY <4>1 DEF Readable, Types, TypeOK
        <5>2. /\ manifest'[p].content = pt.content /\ manifest'[p].mtime = pt.mtime
              /\ manifest'[p].chunks = Cardinality(Readable(p))
          BY <3>5, <4>1 DEF BackfilledRow
        <5>3. Genuine(p, pt) /\ \A i \in 1..Chunks[pt.content] : [pt EXCEPT !.idx = i] \in points
          BY <3>1, <5>1 DEF IsWhole
        <5> HIDE DEF pt
        <5>4. Readable(p) = Reading(pt.schema, p, pt.content, pt.mtime, Chunks[pt.content])
          BY <5>1, <5>3, WholeIsRead DEF Replacement
        <5>5. Cardinality(Readable(p)) = Chunks[pt.content]
          BY <5>1, <5>4, ReadingIsCounted, IndexerAssumption DEF Point
        <5>6. \A q \in Readable(p) : q.content = pt.content
          BY <5>4 DEF Reading
        <5>7. Genuine(p, manifest[p])'
          BY <2>1, <5>2, <5>3 DEF Genuine
        <5>8. ASSUME NEW q \in Readable(p)
              PROVE  Genuine(p, q)' /\ \A i \in 1..Chunks[q.content] : [q EXCEPT !.idx = i] \in points'
          BY <2>1, <3>1 DEF Genuine, IsWhole
        <5>9. manifest'[p].chunks = Chunks[manifest'[p].content]
          BY <5>2, <5>5
        <5>10. \A q \in Readable(p) : q.content = manifest'[p].content
          BY <5>2, <5>6
        <5>11. HasRow(p)'
          <6>1. manifest'[p] \in Row
            BY <2>1, <3>5, BackfillsRow
          <6> QED BY <6>1, IndexerAssumption DEF HasRow
        <5> QED BY <3>1, <4>1, <5>7, <5>8, <5>9, <5>10, <5>11 DEF IsWhole
      <4>2. CASE Readable(p) = {}
        <5>1. HasRow(p)
          BY <2>1, <3>5, <4>2 DEF Touched, IndexedMtime, ZeroRow
        <5>2. /\ manifest'[p].content = manifest[p].content /\ manifest'[p].mtime = manifest[p].mtime
              /\ manifest'[p].chunks = 0
          BY <3>5, <4>2, FS_EmptySet DEF BackfilledRow
        <5> QED BY <2>1, <3>1, <4>2, <5>1, <5>2 DEF IsWhole, Genuine
      <4> QED BY <4>1, <4>2
    <3> QED BY <3>2, <3>3, <3>4, <3>5
  <2> QED BY <2>2 DEF ReliableIsWhole
<1>9. ASSUME NEW paths \in SUBSET Path \ {{}}, StartReindex(paths) PROVE ReliableIsWhole'
  BY <1>9 DEF StartReindex, Begin,
     ReliableIsWhole, Reliable, HalfReplaced, Bare, IsWhole, Readable, ReadSchema, HasRow,
     Genuine, Places
<1>10. ASSUME NEW p \in Path, DropAndRead(p) PROVE ReliableIsWhole'
  <2>1. /\ pc = "next" /\ pc' \in {"next", "stat"} /\ mode \in {"reconcile", "reindex"}
        /\ p \in todo /\ todo' = todo \ {p}
        /\ points' = points \ {pt \in points : pt.path = p /\ pt.schema = "current"}
        /\ UNCHANGED <<tree, collections, manifest, covered, mode, targets, torn, damaged>>
    <3>1. mode \in {"idle", "reconcile", "reindex", "rebuild"}
      BY DEF Types, TypeOK
    <3> QED BY <1>10, <3>1 DEF DropAndRead, ReadBytes, IsNext, Places
  <2>2. ASSUME NEW q \in Path, Reliable(q)' PROVE IsWhole(q)'
    <3>1. Reliable(q)
      BY <2>1, <2>2 DEF Reliable, HalfReplaced, Bare
    <3>2. \A pt \in points : pt.path = q => pt \in points'
      <4>1. CASE q # p
        BY <2>1, <4>1
      <4>2. CASE q = p
        <5>1. Bare(q)
          BY <2>1, <2>2, <4>2 DEF Reliable, HalfReplaced, Bare, Places
        <5> QED BY <5>1 DEF Bare, Replacement, StoreIsOrderly
      <4> QED BY <4>1, <4>2
    <3>3. Readable(q)' = Readable(q)
      BY <2>1, <3>2 DEF Readable, ReadSchema
    <3> QED BY <2>1, <3>1, <3>2, <3>3, WholeIsKept DEF ReliableIsWhole, Genuine
  <2> QED BY <2>2 DEF ReliableIsWhole
<1>11. CASE BeginUpsert
  BY <1>11 DEF BeginUpsert,
     ReliableIsWhole, Reliable, HalfReplaced, Bare, IsWhole, Readable, ReadSchema, HasRow,
     Genuine, Places
<1>12. CASE CommitReady
  <2> DEFINE ready == IF DeletesConfirmed THEN Upserted ELSE {}
  <2>1. /\ pc = "upsert" /\ pc' = "zero" /\ Commit(ready)
        /\ UNCHANGED <<tree, points, collections, covered, mode, targets, todo, scopes>>
    BY <1>12 DEF CommitReady
  <2>2. ASSUME NEW p \in Path, Reliable(p)' PROVE IsWhole(p)'
    <3>1. p \notin ready
      <4>1. ready \subseteq HalfReplaced' /\ mode' # "rebuild" /\ \A q \in ready : ~Bare(q)'
        BY <2>1 DEF HalfReplaced, Places, Upserted, Bare, HasCurrent
      <4> QED BY <2>2, <4>1 DEF Reliable
    <3>2. Reliable(p) /\ manifest'[p] = manifest[p]
      BY <2>1, <2>2, <3>1 DEF Commit, Reliable, HalfReplaced, Bare
    <3>3. Readable(p)' = Readable(p)
      BY <2>1 DEF Readable, ReadSchema
    <3> QED BY <2>1, <3>2, <3>3, WholeIsKept DEF ReliableIsWhole, Genuine
  <2> QED BY <2>2 DEF ReliableIsWhole
<1>13. CASE CommitZero
  <2> DEFINE ready == IF DeletesConfirmed THEN Empty ELSE {}
  <2>1. /\ pc = "zero" /\ pc' = "deleted" /\ Commit(ready)
        /\ UNCHANGED <<tree, points, collections, covered, mode, targets, todo, scopes, snap>>
    BY <1>13 DEF CommitZero
  <2>2. ASSUME NEW p \in Path, Reliable(p)' PROVE IsWhole(p)'
    <3>1. CASE p \in ready
      <4>1. /\ p \in HalfReplaced /\ snap[p] # None /\ Chunks[snap[p].content] = 0
            /\ p \notin misread /\ manifest'[p] = RowOf(snap[p])
        BY <2>1, <2>2, <3>1 DEF Commit, Empty, Reliable, HalfReplaced, Places
      <4>2. HasCurrent(p) \/ <<ScopeOf[p], "legacy">> \notin collections
        BY <3>1, IndexerAssumption DEF DeletesConfirmed, HasCurrent
      <4>3. SnapPoints(p) = {}
        BY <4>1, PointsOfVersion DEF SnapPoints, Types, TypeOK
      <4> QED BY <2>1, <4>1, <4>2, <4>3, ReplacedIsRead, SnapIsWhole
    <3>2. CASE p \notin ready
      <4>1. Reliable(p) /\ manifest'[p] = manifest[p]
        BY <2>1, <2>2, <3>2 DEF Commit, Reliable, HalfReplaced, Bare
      <4>2. Readable(p)' = Readable(p)
        BY <2>1 DEF Readable, ReadSchema
      <4> QED BY <2>1, <4>1, <4>2, WholeIsKept DEF ReliableIsWhole, Genuine
    <3> QED BY <3>1, <3>2
  <2> QED BY <2>2 DEF ReliableIsWhole
<1>14. CASE CommitDeleted
  <2>1. /\ pc = "deleted" /\ pc' = "idle" /\ mode' = "idle"
        /\ mode \in {"reconcile", "reindex"} /\ todo = {} /\ pending = {}
        /\ UNCHANGED <<tree, points, collections, covered>>
    BY <1>14 DEF CommitDeleted, End, Places
  <2>2. \A p \in Path : Readable(p)' = Readable(p)
    BY <2>1 DEF Readable, ReadSchema
  <2>3. ASSUME NEW p \in Path, Reliable(p), manifest'[p] = manifest[p] PROVE IsWhole(p)'
    BY <2>1, <2>2, <2>3, WholeIsKept DEF ReliableIsWhole, Genuine
  <2>4. ASSUME NEW p \in Path, Reliable(p)' PROVE IsWhole(p)'
    <3>1. CASE ~DeletesConfirmed
      <4>1. manifest' = manifest /\ p \notin targets \cup torn \cup damaged
        BY <1>14, <2>4, <3>1 DEF CommitDeleted, Reliable
      <4> QED BY <2>1, <2>3, <4>1 DEF Reliable, HalfReplaced
    <3>2. CASE DeletesConfirmed
      <4>1. /\ manifest' = [q \in Path |-> IF q \in Gone THEN Deleted ELSE manifest[q]]
            /\ p \in Gone \/ (p \notin torn \cup damaged)
        BY <1>14, <2>4, <3>2 DEF CommitDeleted, Reliable
      <4>2. HasCurrent(p) \/ <<ScopeOf[p], "legacy">> \notin collections
        BY <3>2, IndexerAssumption DEF DeletesConfirmed, HasCurrent
      <4>3. CASE p \in Gone
        <5>1. Readable(p) \subseteq SnapPoints(p) /\ SnapPoints(p) = {}
          BY <2>1, <4>2, <4>3, ReplacedIsRead DEF Gone, HalfReplaced, SnapPoints
        <5>2. ~HasRow(p)'
          BY <4>1, <4>3 DEF HasRow
        <5> QED BY <2>2, <5>1, <5>2, NothingIsWhole
      <4>4. CASE p \in Upserted \cup Empty
        <5>1. /\ p \in HalfReplaced /\ snap[p] # None /\ p \notin Gone
              /\ manifest'[p] = RowOf(snap[p]) /\ p \notin misread
          BY <2>1, <3>2, <4>1, <4>4 DEF Upserted, Empty, Gone, HalfReplaced, Committed
        <5>2. SnapPoints(p) \subseteq points
          <6>1. CASE p \in Upserted
            BY <2>1, <6>1 DEF Replacement, Upserting
          <6>2. CASE p \in Empty
            BY <6>2, PointsOfVersion DEF Empty, SnapPoints, Types, TypeOK
          <6> QED BY <4>4, <6>1, <6>2
        <5> QED BY <2>1, <4>2, <5>1, <5>2, ReplacedIsRead, SnapIsWhole
      <4>5. CASE p \notin Gone \cup Upserted \cup Empty
        <5>1. p \in targets => Bare(p)
          <6> SUFFICES ASSUME p \in targets PROVE Bare(p)
            OBVIOUS
          <6>1. ~HasCurrent(p)
            <7>1. snap[p] # None /\ Chunks[snap[p].content] \in Nat
              BY <4>5, IndexerAssumption DEF Gone, Types, TypeOK, Version
            <7> QED BY <4>5, <7>1 DEF Upserted, Empty
          <6> QED BY <4>2, <6>1 DEF Bare, HasCurrent, Types, TypeOK, Schema
        <5>2. Reliable(p)
          BY <2>1, <4>1, <4>5, <5>1 DEF Reliable, HalfReplaced
        <5> QED BY <2>3, <4>1, <4>5, <5>2
      <4> QED BY <4>3, <4>4, <4>5
    <3> QED BY <3>1, <3>2
  <2> QED BY <2>4 DEF ReliableIsWhole
<1>15. CASE StartRebuild
  BY <1>15 DEF StartRebuild, Begin,
     ReliableIsWhole, Reliable, HalfReplaced, Bare, IsWhole, Readable, ReadSchema, HasRow,
     Genuine, Places
<1>16. ASSUME NEW p \in Path, VisitPath(p) PROVE ReliableIsWhole'
  BY <1>16 DEF VisitPath, ReadBytes, IsNext,
     ReliableIsWhole, Reliable, HalfReplaced, Bare, IsWhole, Readable, ReadSchema, HasRow,
     Genuine, Places
<1>17. CASE BeginScopes
  BY <1>17 DEF BeginScopes,
     ReliableIsWhole, Reliable, HalfReplaced, Bare, IsWhole, Readable, ReadSchema, HasRow,
     Genuine, Places
<1>18. CASE CreateCurrent
  BY <1>18 DEF CreateCurrent,
     ReliableIsWhole, Reliable, HalfReplaced, Bare, IsWhole, Readable, ReadSchema, HasRow,
     Genuine, Places
<1>19. CASE CommitRebuild
  <2>1. /\ pc = "scope" /\ scopes = {} /\ pending = {} /\ torn' = misread
        /\ \A p \in Path : manifest'[p] = IF snap[p] = None THEN NoRow ELSE RowOf(snap[p])
        /\ UNCHANGED <<tree, points, collections>>
    BY <1>19 DEF CommitRebuild, RebuiltManifest, End
  <2>2. ASSUME NEW p \in Path, Reliable(p)' PROVE IsWhole(p)'
    <3>1. p \notin misread
      BY <2>1, <2>2 DEF Reliable
    <3>2. SnapPoints(p) \subseteq points /\ Readable(p) = SnapPoints(p)
      BY <2>1, RewrittenIsRead
    <3>3. Readable(p)' = Readable(p)
      BY <2>1 DEF Readable, ReadSchema
    <3>4. CASE snap[p] = None
      BY <2>1, <3>2, <3>3, <3>4, NothingIsWhole DEF SnapPoints, HasRow
    <3>5. CASE snap[p] # None
      BY <2>1, <3>1, <3>2, <3>5, SnapIsWhole
    <3> QED BY <3>4, <3>5
  <2> QED BY <2>2 DEF ReliableIsWhole
<1>20. ASSUME NEW s \in Scope, ClearScope(s) PROVE ReliableIsWhole'
  <2>1. /\ pc = "scope" /\ pc' \in {"scope", "create"} /\ mode = "rebuild"
        /\ s \in scopes /\ scopes' = scopes \ {s}
        /\ UNCHANGED <<tree, manifest, covered, mode, torn, damaged>>
        /\ \A k \in Scope \X Schema : k[1] # s => (k \in collections' <=> k \in collections)
        /\ \A pt : ScopeOf[pt.path] # s => (pt \in points' <=> pt \in points)
    BY <1>20 DEF ClearScope, NextScope, Places
  <2>2. ASSUME NEW p \in Path, Reliable(p)' PROVE IsWhole(p)'
    <3>1. Reliable(p) /\ ScopeOf[p] # s
      BY <2>1, <2>2 DEF Reliable, HalfReplaced
    <3>2. Readable(p)' = Readable(p)
      BY <2>1, <3>1 DEF Readable, ReadSchema, Schema
    <3> QED BY <2>1, <3>1, <3>2, WholeIsKept DEF ReliableIsWhole, Genuine
  <2> QED BY <2>2 DEF ReliableIsWhole
<1>21. ASSUME NEW s \in Scope, DropCurrent(s) PROVE ReliableIsWhole'
  <2>1. /\ pc = "scope" /\ pc' \in {"scope", "create"} /\ mode = "rebuild"
        /\ s \in scopes /\ scopes' = scopes \ {s}
        /\ UNCHANGED <<tree, manifest, covered, mode, torn, damaged>>
        /\ \A k \in Scope \X Schema : k[1] # s => (k \in collections' <=> k \in collections)
        /\ \A pt : ScopeOf[pt.path] # s => (pt \in points' <=> pt \in points)
    BY <1>21 DEF DropCurrent, NextScope, Places
  <2>2. ASSUME NEW p \in Path, Reliable(p)' PROVE IsWhole(p)'
    <3>1. Reliable(p) /\ ScopeOf[p] # s
      BY <2>1, <2>2 DEF Reliable, HalfReplaced
    <3>2. Readable(p)' = Readable(p)
      BY <2>1, <3>1 DEF Readable, ReadSchema, Schema
    <3> QED BY <2>1, <3>1, <3>2, WholeIsKept DEF ReliableIsWhole, Genuine
  <2> QED BY <2>2 DEF ReliableIsWhole
<1>22. CASE StatFile
  BY <1>22 DEF StatFile, ReliableIsWhole, Reliable, HalfReplaced, Bare, IsWhole, Readable,
     ReadSchema, HasRow, Genuine
<1>23. ASSUME NEW pt \in pending, UpsertPoint(pt) PROVE ReliableIsWhole'
  <2>1. /\ points' = points \cup {pt}
        /\ UNCHANGED <<tree, collections, manifest, covered, mode, pc, targets, todo, scopes,
                       torn, damaged>>
    BY <1>23 DEF UpsertPoint
  <2>2. pt.path \in HalfReplaced /\ HasCurrent(pt.path)
    BY DEF Replacement, Replaced
  <2>3. ASSUME NEW p \in Path, Reliable(p)' PROVE IsWhole(p)'
    <3>1. Reliable(p) /\ p # pt.path
      BY <2>1, <2>2, <2>3 DEF Reliable, HalfReplaced, Bare, HasCurrent
    <3>2. Readable(p)' = Readable(p)
      BY <2>1, <3>1 DEF Readable, ReadSchema
    <3> QED BY <2>1, <3>1, <3>2, WholeIsKept DEF ReliableIsWhole, Genuine
  <2> QED BY <2>3 DEF ReliableIsWhole
<1>24. CASE UNCHANGED vars
  BY <1>24 DEF vars, ReliableIsWhole, Reliable, HalfReplaced, Bare, IsWhole, Readable, ReadSchema,
     HasRow, Genuine
<1> QED
  BY <1>1, <1>2, <1>3, <1>4, <1>5, <1>6, <1>7, <1>8, <1>9, <1>10, <1>11, <1>12, <1>13, <1>14,
     <1>15, <1>16, <1>17, <1>18, <1>19, <1>20, <1>21, <1>22, <1>23, <1>24, Zenon DEF Next,
     Editor, Reconcile, Reindex, Rebuild

-----------------------------------------------------------------------------
(* What an operation that nobody disturbed has achieved *)

\* When all that readers see of a path is its snapshot, and that is the file, it is shown exactly.
LEMMA SnapIsShown ==
  ASSUME Types, NEW p \in Path, snap[p] = tree[p], Readable(p) = SnapPoints(p)
  PROVE  Shown(p) = Expected(p)
<1> DEFINE shape(q) == [content |-> q.content, mtime |-> q.mtime, idx |-> q.idx]
<1>1. CASE tree[p] = None
  BY <1>1 DEF SnapPoints, Shown, Expected
<1>2. CASE tree[p] # None
  <2>1. Shown(p) = {shape(q) : q \in PointsOf(p, tree[p])}
    BY <1>2 DEF SnapPoints, Shown
  <2>2. ASSUME NEW x \in Expected(p) PROVE x \in Shown(p)
    <3>1. /\ x.content = tree[p].content /\ x.mtime = tree[p].mtime
          /\ x.idx \in 1..Chunks[tree[p].content] /\ x = shape(x)
      BY <1>2 DEF Expected
    <3>2. [schema |-> "current", path |-> p, content |-> x.content, mtime |-> x.mtime, idx |-> x.idx]
            \in PointsOf(p, tree[p])
      BY <3>1 DEF PointsOf
    <3> QED BY <2>1, <3>1, <3>2
  <2>3. ASSUME NEW x \in Shown(p) PROVE x \in Expected(p)
    BY <1>2, <2>1 DEF PointsOf, Expected
  <2> QED BY <2>2, <2>3
<1> QED BY <1>1, <1>2

\* At the end of a reindex, a target that has a current collection, or no collection at all,
\* shows its snapshot.
LEMMA TargetIsRead ==
  ASSUME Types, Places, Replacement, pc = "deleted", NEW p \in targets,
         HasCurrent(p) \/ <<ScopeOf[p], "legacy">> \notin collections,
         HasCurrent(p) \/ snap[p] = None \/ Chunks[snap[p].content] = 0
  PROVE  Readable(p) = SnapPoints(p)
<1> USE IndexerAssumption
<1>1. p \in Path /\ p \in HalfReplaced /\ pending = {}
  BY DEF HalfReplaced, Places, Types, TypeOK
<1>2. SnapPoints(p) \subseteq points
  <2>1. CASE snap[p] = None
    BY <2>1 DEF SnapPoints
  <2>2. CASE snap[p] # None /\ Chunks[snap[p].content] = 0
    BY <1>1, <2>2, PointsOfVersion DEF SnapPoints, Types, TypeOK
  <2>3. CASE snap[p] # None /\ Chunks[snap[p].content] # 0
    <3>1. Chunks[snap[p].content] \in Nat
      BY <1>1, <2>3 DEF Types, TypeOK, Version
    <3>2. p \in Upserted
      BY <2>3, <3>1 DEF Upserted
    <3> QED BY <1>1, <3>2 DEF Replacement, Upserting
  <2> QED BY <2>1, <2>2, <2>3
<1> QED BY <1>1, <1>2, ReplacedIsRead

\* Only the end of a reconcile or of a rebuild is a quiet end; anything else that happens
\* makes it a thing of the past.
LEMMA SettledSteps ==
  ASSUME Types, Places, [Next]_vars
  PROVE  settled' = "no" \/ UNCHANGED vars \/ Backfill \/ CommitDeleted \/ CommitRebuild
<1>1. settled = "no" \/ mode = "idle"
  BY DEF Places
<1>2. \A p \in Path, c \in Content : Write(p, c) \/ Remove(p) => settled' = "no"
  BY DEF Write, Remove
<1>3. StartReconcile \/ StartRebuild \/ (\E paths \in SUBSET Path \ {{}} : StartReindex(paths))
        => settled' = "no"
  BY DEF StartReconcile, StartRebuild, StartReindex, Begin
<1>4. Interrupt \/ StopAtBounds => settled' = "no"
  BY DEF Interrupt, StopAtBounds, End
<1>5. mode # "idle" /\ settled' = settled => settled' = "no"
  BY <1>1
<1>6. \A p \in Path : ScanPath(p) \/ DropAndRead(p) \/ VisitPath(p) => settled' = "no"
  BY <1>1 DEF ScanPath, DropAndRead, VisitPath, Places
<1>7. Repair \/ BeginUpsert \/ CommitReady \/ CommitZero \/ BeginScopes \/ CreateCurrent \/ StatFile
        => settled' = "no"
  BY <1>1 DEF Repair, BeginUpsert, CommitReady, CommitZero, BeginScopes, CreateCurrent, StatFile,
     Places
<1>8. \A s \in Scope : ClearScope(s) \/ DropCurrent(s) => settled' = "no"
  BY <1>1 DEF ClearScope, DropCurrent, NextScope, Places
<1>9. \A pt \in pending : UpsertPoint(pt) => settled' = "no"
  BY <1>1 DEF UpsertPoint, Places
<1>10. \A p \in Path : Remove(p) => settled' = "no"
  BY DEF Remove
<1> QED
  BY <1>2, <1>3, <1>4, <1>6, <1>7, <1>8, <1>9, <1>10, Zenon DEF Next, Editor, Reconcile, Reindex,
     Rebuild

\* A quiet rebuild leaves an exact image of the tree.
LEMMA RebuildStep ==
  ASSUME Types, Places, Replacement, QuietIsExact, RebuildIsExact, [Next]_vars
  PROVE  RebuildIsExact'
<1> USE IndexerAssumption
<1>1. ASSUME settled' # "rebuild" PROVE RebuildIsExact'
  BY <1>1 DEF RebuildIsExact
<1>2. CASE UNCHANGED vars
  BY <1>2 DEF vars, index, RebuildIsExact, Shown, Expected, Readable, ReadSchema
<1>3. Backfill \/ CommitDeleted => settled' # "rebuild"
  BY DEF Backfill, CommitDeleted, End
<1>4. ASSUME CommitRebuild, settled' = "rebuild" PROVE RebuildIsExact'
  <2>1. /\ pc = "scope" /\ scopes = {} /\ pending = {} /\ quiet /\ covered' = TRUE
        /\ \A p \in Path : manifest'[p] = IF snap[p] = None THEN NoRow ELSE RowOf(snap[p])
        /\ UNCHANGED <<tree, points, collections>>
    BY <1>4 DEF CommitRebuild, RebuiltManifest, End
  <2>2. \A p \in Path : snap[p] = tree[p]
    BY <2>1 DEF QuietIsExact, Places
  <2>3. ASSUME NEW p \in Path PROVE Shown(p)' = Expected(p)'
    <3>1. Shown(p)' = Shown(p) /\ Expected(p)' = Expected(p)
      BY <2>1 DEF Shown, Expected, Readable, ReadSchema
    <3> QED BY <2>1, <2>2, <3>1, RewrittenIsRead, SnapIsShown
  <2>4. \A p \in Path : manifest'[p] = IF tree'[p] = None THEN NoRow ELSE RowOf(tree'[p])
    BY <2>1, <2>2
  <2> QED BY <2>1, <2>3, <2>4 DEF RebuildIsExact, RowOf
<1> QED BY <1>1, <1>2, <1>3, <1>4, SettledSteps

\* A quiet reconcile leaves every path of a current collection exact, but for those named.
LEMMA RepairStep ==
  ASSUME Types, Places, Replacement, OneVersionPerPath, QuietIsExact, ReliableIsWhole,
         RestIsExact,
         ReconcileRepairs, [Next]_vars
  PROVE  ReconcileRepairs'
<1> USE IndexerAssumption
<1>1. ASSUME settled' # "reconcile" PROVE ReconcileRepairs'
  BY <1>1 DEF ReconcileRepairs
<1>2. CASE UNCHANGED vars
  BY <1>2 DEF vars, index, ReconcileRepairs, HasCurrent, Shown, Expected, Readable, ReadSchema
<1>3. CommitRebuild => settled' # "reconcile"
  BY DEF CommitRebuild, End
<1>4. ASSUME Backfill, settled' = "reconcile" PROVE ReconcileRepairs'
  <2>1. /\ pc = "scan" /\ todo = {} /\ quiet /\ Touched = {}
        /\ UNCHANGED <<tree, points, collections, torn, damaged>>
    BY <1>4 DEF Backfill, End
  <2>2. ASSUME NEW p \in Path \ (torn \cup damaged) PROVE Shown(p) = Expected(p)
    BY <2>1, ScannedIsExact DEF Touched, Replacement
  <2>3. \A p \in Path : Shown(p)' = Shown(p) /\ Expected(p)' = Expected(p)
    BY <2>1 DEF Shown, Expected, Readable, ReadSchema
  <2> QED BY <2>1, <2>2, <2>3 DEF ReconcileRepairs
<1>5. ASSUME CommitDeleted, settled' = "reconcile" PROVE ReconcileRepairs'
  <2>1. /\ pc = "deleted" /\ quiet /\ mode = "reconcile" /\ todo = {}
        /\ UNCHANGED <<tree, points, collections>>
    BY <1>5 DEF CommitDeleted, End, Places
  <2>2. ASSUME NEW p \in Path \ (torn' \cup damaged'), HasCurrent(p) PROVE Shown(p) = Expected(p)
    <3>1. CASE p \notin targets
      <4>1. p \notin torn \cup damaged
        BY <1>5, <3>1 DEF CommitDeleted, Gone
      <4> QED BY <2>1, <3>1, <4>1 DEF RestIsExact
    <3>2. CASE p \in targets
      <4>1. Readable(p) = SnapPoints(p)
        BY <2>1, <2>2, <3>2, TargetIsRead
      <4>2. snap[p] = tree[p]
        BY <2>1, <3>2 DEF QuietIsExact, Places
      <4> QED BY <4>1, <4>2, SnapIsShown
    <3> QED BY <3>1, <3>2
  <2>3. \A p \in Path :
          Shown(p)' = Shown(p) /\ Expected(p)' = Expected(p) /\ HasCurrent(p)' = HasCurrent(p)
    BY <2>1 DEF Shown, Expected, Readable, ReadSchema, HasCurrent
  <2> QED BY <2>2, <2>3 DEF ReconcileRepairs
<1> QED BY <1>1, <1>2, <1>3, <1>4, <1>5, SettledSteps

-----------------------------------------------------------------------------
(* The invariant *)

\* At first start the points of an older schema, when there are any, are those of the files.
LEMMA IInvInit == Init => IInv
<1> SUFFICES ASSUME Init PROVE IInv
  OBVIOUS
<1> USE IndexerAssumption
<1>1. Types
  BY TypesInit
<1>2. PICK indexed \in BOOLEAN :
        LET old == {pt \in UNION {PointsOf(p, tree[p]) : p \in {q \in Path : tree[q] # None}} : indexed}
        IN  /\ points = {[pt EXCEPT !.schema = "legacy"] : pt \in old}
            /\ collections = {<<ScopeOf[pt.path], "legacy">> : pt \in old}
  BY DEF Init
<1> DEFINE old == {pt \in UNION {PointsOf(p, tree[p]) : p \in {q \in Path : tree[q] # None}} : indexed}
<1>3. /\ points = {[pt EXCEPT !.schema = "legacy"] : pt \in old}
      /\ collections = {<<ScopeOf[pt.path], "legacy">> : pt \in old}
  BY <1>2
<1>4. ASSUME NEW pt \in points
      PROVE  /\ pt.path \in Path /\ tree[pt.path] # None /\ pt.schema = "legacy"
             /\ pt.content = tree[pt.path].content /\ pt.mtime = tree[pt.path].mtime
             /\ pt.idx \in 1..Chunks[pt.content] /\ <<ScopeOf[pt.path], "legacy">> \in collections
             /\ \A i \in 1..Chunks[pt.content] : [pt EXCEPT !.idx = i] \in points
  <2>1. PICK q \in old : pt = [q EXCEPT !.schema = "legacy"]
    BY <1>3
  <2>2. PICK p \in Path : tree[p] # None /\ q \in PointsOf(p, tree[p])
    OBVIOUS
  <2> DEFINE r(i) == [q EXCEPT !.idx = i]
  <2>3. \A i \in 1..Chunks[pt.content] : r(i) \in PointsOf(p, tree[p])
    BY <2>1, <2>2 DEF PointsOf
  <2>4. \A i \in 1..Chunks[pt.content] : r(i) \in old
    BY <2>1, <2>2, <2>3
  <2>5. \A i \in 1..Chunks[pt.content] : [pt EXCEPT !.idx = i] = [r(i) EXCEPT !.schema = "legacy"]
    BY <2>1, <2>2 DEF PointsOf
  <2>6. \A i \in 1..Chunks[pt.content] : [pt EXCEPT !.idx = i] \in points
    <3> HIDE DEF r, old
    <3> QED BY <1>3, <2>4, <2>5
  <2>7. /\ pt.path = p /\ q.path = p /\ pt.schema = "legacy"
        /\ pt.content = tree[p].content /\ pt.mtime = tree[p].mtime
        /\ pt.idx \in 1..Chunks[pt.content]
    BY <2>1, <2>2 DEF PointsOf
  <2>8. <<ScopeOf[p], "legacy">> \in collections
    <3> HIDE DEF old
    <3> QED BY <1>3, <2>7
  <2> HIDE DEF old, r
  <2> QED BY <2>2, <2>6, <2>7, <2>8
<1>5. Places /\ QuietIsExact /\ Committed /\ RestIsExact /\ LossIsBounded
  BY DEF Init, Places, QuietIsExact, Committed, RestIsExact, LossIsBounded
<1>6. RebuildIsExact /\ ReconcileRepairs
  BY DEF Init, RebuildIsExact, ReconcileRepairs
<1>7. Replacement
  <2>1. HalfReplaced = {}
    BY DEF Init, HalfReplaced
  <2>2. pending = {} /\ pc = "idle"
    BY DEF Init
  <2>3. StoreIsOrderly
    BY <1>4 DEF StoreIsOrderly
  <2> QED BY <2>1, <2>2, <2>3 DEF Replacement, Replaced, Upserting, Rewriting, Rewritten
<1>8. \A p \in Path : tree[p] # None => tree[p].mtime = 0
  BY DEF Init
<1>9. TimesArePast
  <2>1. edits = 0 /\ \A p \in Path : ~HasRow(p) /\ snap[p] = None
    BY DEF Init, HasRow
  <2>2. \A pt \in points : pt.mtime = 0
    BY <1>4, <1>8
  <2>3. \A p \in Path : tree[p] # None => tree[p].mtime <= edits
    BY <1>8, <2>1
  <2> QED BY <2>1, <2>2, <2>3 DEF TimesArePast
<1>10. ReliableIsWhole
  <2>1. covered = FALSE /\ \A p \in Path : ~HasRow(p)
    BY DEF Init, HasRow
  <2>2. ASSUME NEW p \in Path, NEW pt \in Readable(p)
        PROVE  Genuine(p, pt) /\ \A i \in 1..Chunks[pt.content] : [pt EXCEPT !.idx = i] \in points
    BY <1>4 DEF Readable, Genuine
  <2> QED BY <2>1, <2>2 DEF ReliableIsWhole, IsWhole
<1>11. OneVersionPerPath
  BY <1>4 DEF OneVersionPerPath
<1> QED BY <1>1, <1>5, <1>6, <1>7, <1>9, <1>10, <1>11 DEF IInv

\* Every step preserves it.
LEMMA IInvStep == IInv /\ [Next]_vars => IInv'
<1> SUFFICES ASSUME IInv, [Next]_vars PROVE IInv'
  OBVIOUS
<1> USE DEF IInv
<1>1. Types'
  BY TypesStep
<1>2. Places'
  BY PlacesStep
<1>3. Replacement'
  BY <1>1, <1>2, ReplacementStep
<1>4. TimesArePast'
  BY <1>1, TimesStep
<1>5. QuietIsExact' /\ Committed'
  BY <1>1, <1>2, QuietStep, CommittedStep
<1>6. OneVersionPerPath' /\ ReliableIsWhole' /\ RestIsExact' /\ LossIsBounded'
  BY <1>1, OneVersionStep, ReliableStep, RestStep, LossStep
<1>7. RebuildIsExact' /\ ReconcileRepairs'
  BY RebuildStep, RepairStep
<1> QED BY <1>1, <1>2, <1>3, <1>4, <1>5, <1>6, <1>7

\* The inductive invariant holds of every reachable state.
THEOREM IndexerInvariant == Spec => []IInv
BY IInvInit, IInvStep, PTL DEF Spec

\* Every variable keeps its type, whatever the editor, the operations and the interruptions do.
THEOREM TypeCorrect == Spec => []TypeOK
<1>1. IInv => TypeOK
  BY DEF IInv, Types
<1> QED BY <1>1, IndexerInvariant, PTL

\* Search never mixes two versions of one file.
THEOREM OneVersionPerPathHolds == Spec => []OneVersionPerPath
<1>1. IInv => OneVersionPerPath
  BY DEF IInv
<1> QED BY <1>1, IndexerInvariant, PTL

\* A rebuild that nobody disturbed leaves an exact image of the tree.
THEOREM RebuildIsExactHolds == Spec => []RebuildIsExact
<1>1. IInv => RebuildIsExact
  BY DEF IInv
<1> QED BY <1>1, IndexerInvariant, PTL

\* A reconcile that nobody disturbed leaves every path of a current collection exactly
\* indexed, but for the torn and the half replaced ones.
THEOREM ReconcileRepairsHolds == Spec => []ReconcileRepairs
<1>1. IInv => ReconcileRepairs
  BY DEF IInv
<1> QED BY <1>1, IndexerInvariant, PTL

\* A reconcile stays within the bounds it planned under.
THEOREM ReconcileWithinBoundsHolds == Spec => []ReconcileWithinBounds
<1>1. IInv => ReconcileWithinBounds
  <2> SUFFICES ASSUME IInv, mode = "reconcile"
               PROVE  lost <= MaxPoints /\ Cardinality(targets) <= MaxPaths
    BY DEF ReconcileWithinBounds
  <2>1. Cardinality(AtRisk) \in Nat
    <3>1. IsFiniteSet(AtRisk)
      BY FS_Subset DEF IInv, Types, AtRisk
    <3> QED BY <3>1, FS_CardinalityType
  <2>2. lost \in Nat /\ (pc = "scan" => lost = 0) /\ MaxPoints \in Nat
    BY IndexerAssumption DEF IInv, Types, TypeOK, Places
  <2>3. (pc # "scan" => lost + Cardinality(AtRisk) <= MaxPoints) /\ Cardinality(targets) <= MaxPaths
    BY DEF IInv, LossIsBounded
  <2> QED BY <2>1, <2>2, <2>3
<1> QED BY <1>1, IndexerInvariant, PTL

\* When no operation runs and status reports the paths clean, search shows the text of every
\* file, but for the torn and the half replaced ones.
THEOREM CleanIsTrueHolds == Spec => []CleanIsTrue
<1>1. IInv => CleanIsTrue
  <2> SUFFICES ASSUME IInv, mode = "idle", ReportsClean, NEW p \in Path \ (torn \cup damaged)
               PROVE  ShownContent(p) = ExpectedContent(p)
    BY DEF CleanIsTrue
  <2> USE IndexerAssumption
  <2>1. IsWhole(p)
    <3>1. HalfReplaced = {}
      BY DEF IInv, Places, HalfReplaced
    <3> QED BY <3>1 DEF IInv, ReliableIsWhole, Reliable
  <2>2. CASE tree[p] = None
    <3>1. Readable(p) = {}
      BY <2>1, <2>2 DEF IsWhole, ReportsClean
    <3> QED BY <2>2, <3>1 DEF ShownContent, ExpectedContent, Expected
  <2>3. CASE tree[p] # None
    <3>1. HasRow(p) /\ ~RowIsStale(p)
      BY <2>3 DEF ReportsClean
    <3>2. manifest[p].content = tree[p].content
      BY <2>1, <2>3, <3>1 DEF RowIsStale, IsWhole, Genuine
    <3>3. Expected(p) =
            [content : {tree[p].content}, mtime : {tree[p].mtime}, idx : 1..Chunks[tree[p].content]]
      BY <2>3 DEF Expected
    <3>4. ASSUME NEW x \in ExpectedContent(p)
          PROVE  \E i \in 1..Chunks[tree[p].content] : x = <<tree[p].content, i>>
      BY <3>3 DEF ExpectedContent
    <3>5. ASSUME NEW i \in 1..Chunks[tree[p].content]
          PROVE  <<tree[p].content, i>> \in ExpectedContent(p)
      <4>1. [content |-> tree[p].content, mtime |-> tree[p].mtime, idx |-> i] \in Expected(p)
        BY <3>3
      <4> QED BY <4>1 DEF ExpectedContent
    <3>6. CASE Readable(p) = {}
      <4>1. Chunks[tree[p].content] = 0
        BY <2>1, <3>1, <3>2, <3>6 DEF IsWhole
      <4> QED BY <3>4, <3>6, <4>1 DEF ShownContent
    <3>7. CASE Readable(p) # {}
      <4>1. PICK pt \in Readable(p) : TRUE
        BY <3>7
      <4>2. pt.content = tree[p].content
        BY <2>1, <3>1, <3>2 DEF IsWhole
      <4>3. Readable(p) = Reading(pt.schema, p, pt.content, pt.mtime, Chunks[pt.content])
        BY <2>1, WholeIsRead DEF IInv, IsWhole, Replacement
      <4>4. ASSUME NEW i \in 1..Chunks[pt.content] PROVE <<pt.content, i>> \in ShownContent(p)
        <5>1. [schema |-> pt.schema, path |-> p, content |-> pt.content,
               mtime |-> pt.mtime, idx |-> i] \in Readable(p)
          BY <4>3 DEF Reading
        <5> QED BY <5>1 DEF ShownContent
      <4>5. ASSUME NEW x \in ShownContent(p)
            PROVE  \E i \in 1..Chunks[pt.content] : x = <<pt.content, i>>
        BY <4>3 DEF ShownContent, Reading
      <4> QED BY <3>4, <3>5, <4>2, <4>4, <4>5
    <3> QED BY <3>6, <3>7
  <2> QED BY <2>2, <2>3
<1> QED BY <1>1, IndexerInvariant, PTL

-----------------------------------------------------------------------------
(* The manifest never runs ahead of the store *)

\* The row of a snapshot tells what is seen of a path whose snapshot is seen.
LEMMA RowTellsTheStore ==
  ASSUME Types, NEW p \in Path, snap[p] # None, Readable(p) = SnapPoints(p)
  PROVE  /\ Shown(p) = {[content |-> pt.content, mtime |-> pt.mtime, idx |-> pt.idx] :
                           pt \in PointsOf(p, RowOf(snap[p]))}
         /\ RowOf(snap[p]).chunks = Cardinality(Readable(p))
         /\ RowOf(snap[p]) # Deleted
<1>1. snap[p] \in Version
  BY DEF Types, TypeOK
<1>2. PointsOf(p, RowOf(snap[p])) = PointsOf(p, snap[p])
  BY DEF PointsOf, RowOf
<1>3. Cardinality(Readable(p)) = Chunks[snap[p].content]
  BY <1>1, PointsOfVersion DEF SnapPoints
<1>4. RowOf(snap[p]) # Deleted
  BY <1>1, RowOfVersion, IndexerAssumption
<1> QED BY <1>2, <1>3, <1>4 DEF Shown, SnapPoints, RowOf

\* An index operation makes a row ready only when every point of that version is readable and
\* nothing else is, and deleted only when no point of the path is.
THEOREM ManifestFollowsStoreHolds == Spec => ManifestFollowsStore
<1> DEFINE Told(p) ==
             /\ manifest'[p] \notin {NoRow, Deleted} =>
                  /\ Shown(p) = {[content |-> pt.content, mtime |-> pt.mtime, idx |-> pt.idx] :
                                   pt \in PointsOf(p, manifest'[p])}
                  /\ manifest'[p].chunks = Cardinality(Readable(p))
             /\ manifest'[p] = Deleted => Readable(p) = {}
           Follows == \A p \in Path : manifest'[p] # manifest[p] /\ pc # "scan" => Told(p)
<1>1. IInv /\ [Next]_vars => [Follows]_vars
  <2> SUFFICES ASSUME IInv, Next, NEW p \in Path, manifest'[p] # manifest[p], pc # "scan"
               PROVE  Told(p)
    BY DEF vars
  <2> USE IndexerAssumption
  <2>0. Types /\ Places /\ Replacement
    BY DEF IInv
  <2>1. ASSUME snap[p] # None, manifest'[p] = RowOf(snap[p]), Readable(p) = SnapPoints(p)
        PROVE  Told(p)
    BY <2>0, <2>1, RowTellsTheStore
  <2>2. ASSUME DeletesConfirmed PROVE HasCurrent(p) \/ <<ScopeOf[p], "legacy">> \notin collections
    BY <2>2 DEF DeletesConfirmed, HasCurrent
  <2> HIDE DEF Told
  <2>3. CASE CommitReady
    <3>1. /\ pc = "upsert" /\ pending = {} /\ p \in Upserted
          /\ manifest'[p] = RowOf(snap[p])
      BY <2>3 DEF CommitReady, Commit
    <3>2. snap[p] # None /\ HasCurrent(p) /\ SnapPoints(p) \subseteq points
      BY <2>0, <3>1 DEF Upserted, Replacement, Upserting
    <3>3. p \in HalfReplaced
      BY <2>0, <3>1 DEF Upserted, HalfReplaced, Places
    <3> QED BY <2>0, <2>1, <3>1, <3>2, <3>3, ReplacedIsRead
  <2>4. CASE CommitZero
    <3>1. /\ pc = "zero" /\ p \in Empty /\ DeletesConfirmed
          /\ manifest'[p] = RowOf(snap[p])
      BY <2>4 DEF CommitZero, Commit
    <3>2. snap[p] # None /\ SnapPoints(p) = {}
      BY <2>0, <3>1, PointsOfVersion DEF Empty, SnapPoints, Types, TypeOK
    <3>3. p \in HalfReplaced
      BY <2>0, <3>1 DEF Empty, HalfReplaced, Places
    <3> QED BY <2>0, <2>1, <2>2, <3>1, <3>2, <3>3, ReplacedIsRead
  <2>5. CASE CommitDeleted
    <3>1. pc = "deleted" /\ p \in Gone /\ DeletesConfirmed /\ manifest'[p] = Deleted
      BY <2>5 DEF CommitDeleted
    <3>2. p \in HalfReplaced /\ SnapPoints(p) = {}
      BY <2>0, <3>1 DEF Gone, HalfReplaced, SnapPoints, Places
    <3>3. Readable(p) = {}
      BY <2>0, <2>2, <3>1, <3>2, ReplacedIsRead
    <3> QED BY <3>1, <3>3 DEF Told
  <2>6. CASE CommitRebuild
    <3>1. /\ pc = "scope" /\ scopes = {} /\ pending = {}
          /\ manifest'[p] = IF snap[p] = None THEN NoRow ELSE RowOf(snap[p])
      BY <2>6 DEF CommitRebuild, RebuiltManifest
    <3>2. Readable(p) = SnapPoints(p)
      BY <2>0, <3>1, RewrittenIsRead
    <3>3. CASE snap[p] = None
      BY <3>1, <3>2, <3>3 DEF SnapPoints, Told
    <3> QED BY <2>1, <3>1, <3>2, <3>3
  <2>7. CommitReady \/ CommitZero \/ CommitDeleted \/ CommitRebuild
    BY DEF Next, index, Editor, Reconcile, Reindex, Rebuild, Write, Remove, Interrupt, Begin,
       StartReconcile,
       ScanPath, StopAtBounds, Repair, Backfill, StartReindex, DropAndRead, BeginUpsert,
       StartRebuild, VisitPath, BeginScopes, CreateCurrent, ClearScope, DropCurrent, StatFile,
       UpsertPoint
  <2> QED BY <2>3, <2>4, <2>5, <2>6, <2>7
<1>2. ManifestFollowsStore <=> [][Follows]_vars
  BY DEF ManifestFollowsStore
<1> QED BY <1>1, <1>2, IndexerInvariant, PTL DEF Spec

=============================================================================
