------------------------- MODULE GraphSnapshotProofs -------------------------
(***************************************************************************)
(* What the rows of a build depend on: lemmas about the operators of       *)
(* GraphSnapshot, for any paths and texts.                                 *)
(***************************************************************************)
EXTENDS GraphSnapshot, FiniteSetTheorems, WellFoundedInduction, TLAPS

-----------------------------------------------------------------------------
(* The first and the last of some numbers *)

\* A finite set of numbers has a first, which First chooses.
LEMMA FirstIsLeast ==
  ASSUME NEW S \in SUBSET Nat, IsFiniteSet(S), S # {}
  PROVE  First(S) \in S /\ \A y \in S : First(S) <= y
<1> DEFINE Upto(x) == {y \in S : y <= x}
           F == {Upto(x) : x \in S}
<1>1. F \subseteq FiniteSubsetsOf(S) /\ F # {}
  <2>1. F \subseteq SUBSET S
    OBVIOUS
  <2>2. PICK x \in S : TRUE
    OBVIOUS
  <2>3. Upto(x) \in F
    BY <2>2
  <2> HIDE DEF F
  <2> QED BY <2>1, <2>3, FS_FiniteSubsetsOfFinite
<1>2. PICK m \in F : \A n \in F : <<n, m>> \notin StrictSubsetOrdering(S)
  <2> HIDE DEF F
  <2> QED BY <1>1, FS_StrictSubsetOrderingWellFounded, WFMin
<1>3. PICK x \in S : m = Upto(x)
  OBVIOUS
<1>4. ASSUME NEW y \in S, ~(x <= y) PROVE FALSE
  <2>0. x \in Nat /\ y \in Nat
    OBVIOUS
  <2>1. x \in Nat /\ y \in Nat /\ y < x
    BY <1>4, <2>0
  <2>2. Upto(y) \subseteq Upto(x)
    <3>1. ASSUME NEW z \in S, z <= y PROVE z <= x
      <4>1. z \in Nat
        OBVIOUS
      <4> QED BY <2>1, <3>1, <4>1
    <3> QED BY <3>1
  <2>3. x \in Upto(x) /\ x \notin Upto(y)
    BY <1>3, <2>1
  <2>4. <<Upto(y), Upto(x)>> \in StrictSubsetOrdering(S)
    BY <2>2, <2>3 DEF StrictSubsetOrdering
  <2> QED BY <1>2, <1>3, <2>4
<1>5. x \in S /\ \A y \in S : x <= y
  BY <1>4
<1> QED BY <1>5 DEF First

\* And a last.
LEMMA LastIsGreatest ==
  ASSUME NEW S \in SUBSET Nat, IsFiniteSet(S), S # {}
  PROVE  Last(S) \in S /\ \A y \in S : Last(S) >= y
<1> DEFINE From(x) == {y \in S : y >= x}
           F == {From(x) : x \in S}
<1>1. F \subseteq FiniteSubsetsOf(S) /\ F # {}
  <2>1. F \subseteq SUBSET S
    OBVIOUS
  <2>2. PICK x \in S : TRUE
    OBVIOUS
  <2>3. From(x) \in F
    BY <2>2
  <2> HIDE DEF F
  <2> QED BY <2>1, <2>3, FS_FiniteSubsetsOfFinite
<1>2. PICK m \in F : \A n \in F : <<n, m>> \notin StrictSubsetOrdering(S)
  <2> HIDE DEF F
  <2> QED BY <1>1, FS_StrictSubsetOrderingWellFounded, WFMin
<1>3. PICK x \in S : m = From(x)
  OBVIOUS
<1>4. ASSUME NEW y \in S, ~(x >= y) PROVE FALSE
  <2>0. x \in Nat /\ y \in Nat
    OBVIOUS
  <2>1. x \in Nat /\ y \in Nat /\ x < y
    BY <1>4, <2>0
  <2>2. From(y) \subseteq From(x)
    <3>1. ASSUME NEW z \in S, z >= y PROVE z >= x
      <4>1. z \in Nat
        OBVIOUS
      <4> QED BY <2>1, <3>1, <4>1
    <3> QED BY <3>1
  <2>3. x \in From(x) /\ x \notin From(y)
    BY <1>3, <2>1
  <2>4. <<From(y), From(x)>> \in StrictSubsetOrdering(S)
    BY <2>2, <2>3 DEF StrictSubsetOrdering
  <2> QED BY <1>2, <1>3, <2>4
<1>5. x \in S /\ \A y \in S : x >= y
  BY <1>4
<1> QED BY <1>5 DEF Last

\* Of some paths too.
LEMMA SomePath ==
  ASSUME NEW S \in SUBSET Path, S # {}
  PROVE  /\ First(S) \in S /\ \A y \in S : First(S) <= y
         /\ Last(S) \in S
<1>1. S \in SUBSET Nat /\ IsFiniteSet(S)
  BY SnapshotAssumption, FS_Subset
<1> QED BY <1>1, FirstIsLeast, LastIsGreatest

-----------------------------------------------------------------------------
(* Texts *)

\* What is indexed of a path is a version with a text.
LEMMA TextOfPath ==
  ASSUME NEW c \in Indexed, NEW p \in Present(c)
  PROVE  /\ p \in Path /\ c[p] \in Version /\ <<p, c[p]>> \in DOMAIN Text
         /\ Body(c, p).defines \subseteq Module \cup Route \cup Symbol
         /\ Body(c, p).env \subseteq Env
         /\ Body(c, p).refs \subseteq Seq(Path \cup Name)
         /\ Body(c, p).guesses \subseteq Path \ {p}
<1>1. p \in Path /\ c[p] \in VersionsOf(p) /\ c[p] # None
  BY DEF Indexed, Present
<1>2. c[p] \in Version /\ <<p, c[p]>> \in DOMAIN Text
  BY <1>1 DEF VersionsOf
<1> QED BY <1>1, <1>2, SnapshotAssumption DEF Body

\* The files that define or use a name.
LEMMA FilesOfName ==
  ASSUME NEW c \in Indexed, NEW n
  PROVE  /\ Definers(c, n) \subseteq Users(c, n) /\ Users(c, n) \subseteq Present(c)
         /\ Present(c) \subseteq Path
         /\ n \notin Env => Users(c, n) = Definers(c, n)
  BY TextOfPath DEF Definers, Users, Present

\* Of the files that define a name there is a foremost one.
LEMMA ForemostIsFirst ==
  ASSUME NEW c \in Indexed, NEW t \in Name, Definers(c, t) # {}
  PROVE  /\ Foremost(c, t) \in Definers(c, t)
         /\ \A q \in Definers(c, t) : RankOf(c, t, Foremost(c, t)) <= RankOf(c, t, q)
<1> DEFINE D == Definers(c, t)
           ranks == {RankOf(c, t, q) : q \in D}
<1>1. D \subseteq Path /\ IsFiniteSet(D)
  BY FilesOfName, SnapshotAssumption, FS_Subset
<1>2. \A q \in D : RankOf(c, t, q) \in Nat
  <2> SUFFICES ASSUME NEW q \in D PROVE RankOf(c, t, q) \in Nat
    OBVIOUS
  <2>1. <<q, c[q]>> \in DOMAIN Text
    BY TextOfPath, FilesOfName
  <2>2. Rank[t] \in [DOMAIN Text -> Nat]
    BY SnapshotAssumption
  <2> QED BY <2>1, <2>2 DEF RankOf
<1>3. ranks \in SUBSET Nat /\ ranks # {}
  BY <1>2
<1>4. IsFiniteSet(ranks)
  <2> DEFINE f == [q \in D |-> RankOf(c, t, q)]
  <2>1. f \in Surjection(D, ranks)
    BY DEF Surjection
  <2> QED BY <1>1, <2>1, FS_Surjection
<1>5. First(ranks) \in ranks /\ \A r \in ranks : First(ranks) <= r
  BY <1>3, <1>4, FirstIsLeast
<1>6. PICK p \in D : \A q \in D : RankOf(c, t, p) <= RankOf(c, t, q)
  BY <1>5
<1> QED BY <1>6 DEF Foremost

\* A name that exists has a first file, which defines it; a path stands for itself.
LEMMA FileOfTarget ==
  ASSUME NEW c \in Indexed, NEW t, Exists(c, t)
  PROVE  /\ PathOf(c, t) \in Present(c)
         /\ t \in Path => PathOf(c, t) = t
         /\ t \notin Path => /\ PathOf(c, t) \in Definers(c, t)
                             /\ \A q \in Definers(c, t) :
                                  RankOf(c, t, PathOf(c, t)) <= RankOf(c, t, q)
<1>1. CASE t \in Path
  BY <1>1 DEF Exists, PathOf, Present
<1>2. CASE t \notin Path
  <2>1. Definers(c, t) # {} /\ Definers(c, t) \in SUBSET Path
    BY <1>2, FilesOfName DEF Exists
  <2>2. t \in Name
    <3>1. PICK q \in Definers(c, t) : TRUE
      BY <2>1
    <3>2. q \in Present(c) /\ t \in Body(c, q).defines
      BY <3>1 DEF Definers
    <3> QED BY <3>2, TextOfPath DEF Name
  <2> QED BY <1>2, <2>1, <2>2, ForemostIsFirst, FilesOfName DEF PathOf
<1> QED BY <1>1, <1>2

\* A reference resolves to its first target there is.
LEMMA Resolution ==
  ASSUME NEW c \in Indexed, NEW r \in Seq(Path \cup Name), NEW t
  PROVE  t # None /\ Resolve(c, r) = t
           <=> \E i \in DOMAIN r : /\ t = r[i] /\ Exists(c, t)
                                   /\ \A j \in DOMAIN r : Exists(c, r[j]) => i <= j
<1> DEFINE found == {i \in DOMAIN r : Exists(c, r[i])}
<1>1. found \in SUBSET Nat /\ IsFiniteSet(found)
  <2>1. DOMAIN r = 1..Len(r) /\ Len(r) \in Nat
    OBVIOUS
  <2>2. IsFiniteSet(1..Len(r))
    BY <2>1, FS_Interval
  <2> QED BY <2>1, <2>2, FS_Subset
<1>2. \A i \in DOMAIN r : r[i] \in Path \cup Name /\ r[i] # None
  BY SnapshotAssumption
<1>3. CASE found = {}
  BY <1>3 DEF Resolve
<1>4. CASE found # {}
  <2>1. First(found) \in found /\ \A j \in found : First(found) <= j
    BY <1>1, <1>4, FirstIsLeast
  <2>2. Resolve(c, r) = r[First(found)]
    BY <1>4 DEF Resolve
  <2> DEFINE f == First(found)
  <2>3. f \in DOMAIN r /\ Exists(c, r[f]) /\ \A j \in DOMAIN r : Exists(c, r[j]) => f <= j
    BY <2>1
  <2>4. \A i \in DOMAIN r : (Exists(c, r[i]) /\ \A j \in DOMAIN r : Exists(c, r[j]) => i <= j) => i = f
    <3> HIDE DEF f
    <3>1. DOMAIN r \subseteq Nat
      OBVIOUS
    <3> QED BY <2>3, <3>1
  <2> HIDE DEF f, found
  <2> QED BY <1>2, <2>2, <2>3, <2>4 DEF f
<1> QED BY <1>3, <1>4

\* If one of its targets exists, a reference resolves.
LEMMA SomeTarget ==
  ASSUME NEW c \in Indexed, NEW r \in Seq(Path \cup Name), NEW i \in DOMAIN r, Exists(c, r[i])
  PROVE  Resolve(c, r) # None
<1> DEFINE found == {j \in DOMAIN r : Exists(c, r[j])}
<1>1. found \in SUBSET Nat /\ IsFiniteSet(found)
  <2>1. DOMAIN r = 1..Len(r) /\ Len(r) \in Nat
    OBVIOUS
  <2>2. IsFiniteSet(1..Len(r))
    BY <2>1, FS_Interval
  <2> QED BY <2>1, <2>2, FS_Subset
<1>2. found # {} /\ First(found) \in found
  BY <1>1, FirstIsLeast
<1>3. Resolve(c, r) = r[First(found)]
  BY <1>2 DEF Resolve
<1>4. r[First(found)] \in Path \cup Name
  <2> HIDE DEF found
  <2>1. First(found) \in DOMAIN r
    BY <1>2 DEF found
  <2> QED BY <2>1
<1> QED BY <1>3, <1>4, SnapshotAssumption

-----------------------------------------------------------------------------
(* Nodes and edges *)

\* The names that have nodes.
NodeNames == Module \cup Route \cup Env

\* Nodes of different paths and names are different.
LEMMA NodesApart ==
  /\ \A p, q : Own(p) = Own(q) => p = q
  /\ \A m, n : Shared(m) = Shared(n) => m = n
  /\ \A p, n : Own(p) # Shared(n)
  BY DEF Own, Shared

\* What is shared is named, and what is owned is a path.
LEMMA NamesOfNodes ==
  /\ Name \ Symbol = NodeNames
  /\ SharedNodes = {Shared(n) : n \in NodeNames}
  /\ \A p : Own(p) \notin SharedNodes
  /\ \A n : Shared(n) \notin OwnNodes
  BY SnapshotAssumption, NodesApart DEF NodeNames, Name, SharedNodes, OwnNodes

\* The kinds of edges the extractors find in a file.
Structural(c, p, e) ==
  \E n \in (Body(c, p).defines \ Symbol) \cup Body(c, p).env : e = Edge(Own(p), Shared(n), p, FALSE)
ImportsFile(c, p, e) ==
  \E t \in Imports(c, p) : e = Edge(Own(p), Own(PathOf(c, t)), p, FALSE)
ImportsModule(c, p, e) ==
  \E m \in Body(c, p).defines \cap Module : \E t \in Imports(c, p) :
    e = Edge(Shared(m), Shared(t), p, FALSE)
RefersTo(c, p, e) ==
  \E t \in Targets(c, p) \ Module :
    e = Edge(Own(p), IF t \in Route THEN Shared(t) ELSE Own(PathOf(c, t)), p, FALSE)
Guesses(c, p, e) ==
  \E q \in Present(c) : e = Edge(Own(p), Own(q), p, TRUE)

\* An edge that is found is of one of these kinds.
LEMMA KindsOfEdges ==
  ASSUME NEW c, NEW p, NEW e
  PROVE  /\ e \in FoundEdges(c, p) /\ ~e.guess =>
              Structural(c, p, e) \/ ImportsFile(c, p, e) \/ ImportsModule(c, p, e) \/ RefersTo(c, p, e)
         /\ Structural(c, p, e) \/ ImportsFile(c, p, e) \/ ImportsModule(c, p, e) \/ RefersTo(c, p, e)
              => e \in FoundEdges(c, p) /\ ~e.guess
         /\ e \in FoundEdges(c, p) /\ e.guess => Guesses(c, p, e)
<1>1. e \in StructureEdges(c, p) <=> Structural(c, p, e)
  BY DEF StructureEdges, Structural
<1>2. e \in ImportEdges(c, p) <=> ImportsFile(c, p, e) \/ ImportsModule(c, p, e)
  BY DEF ImportEdges, ImportsFile, ImportsModule
<1>3. e \in ReferenceEdges(c, p) <=> RefersTo(c, p, e)
  BY DEF ReferenceEdges, RefersTo
<1>4. e \in GuessEdges(c, p) => Guesses(c, p, e) /\ e.guess
  BY DEF Edge, GuessEdges, Guesses
<1>5. Structural(c, p, e) \/ ImportsFile(c, p, e) \/ ImportsModule(c, p, e) \/ RefersTo(c, p, e) => ~e.guess
  BY DEF Edge, Structural, ImportsFile, ImportsModule, RefersTo
<1> QED BY <1>1, <1>2, <1>3, <1>4, <1>5 DEF FoundEdges

\* An edge is of the file it was found in, and comes from its node or that of a module.
LEMMA EdgeOfFile ==
  ASSUME NEW c \in Indexed, NEW p \in Present(c), NEW e \in FoundEdges(c, p)
  PROVE  /\ e.path = p
         /\ e.src = Own(p) \/ \E m \in Module : e.src = Shared(m)
<1>1. CASE e.guess
  BY <1>1, KindsOfEdges DEF Edge, Guesses
<1>2. CASE ~e.guess
  BY <1>2, KindsOfEdges DEF Edge, Structural, ImportsFile, ImportsModule, RefersTo
<1> QED BY <1>1, <1>2

\* No other file hides an edge that comes from the node of the file.
LEMMA OwnEdgesStay ==
  ASSUME NEW c \in Indexed, NEW p \in Present(c), NEW e \in FoundEdges(c, p), e.src = Own(p)
  PROVE  e \in BuildEdges(c)
<1>1. e \in Extracted(c)
  BY DEF Extracted
<1>2. ASSUME NEW f \in Extracted(c), SameId(e, f) PROVE f.path <= e.path
  <2>1. PICK q \in Present(c) : f \in FoundEdges(c, q)
    BY DEF Extracted
  <2>2. f.src = Own(p)
    BY <1>2 DEF SameId
  <2>3. f.path = q /\ (f.src = Own(q) \/ \E m \in Module : f.src = Shared(m))
    BY <2>1, EdgeOfFile
  <2>4. q = p
    BY <2>2, <2>3, NodesApart
  <2>5. e.path = p
    BY EdgeOfFile
  <2>6. p \in Nat
    BY TextOfPath, SnapshotAssumption
  <2> QED BY <2>3, <2>4, <2>5, <2>6
<1> QED BY <1>1, <1>2 DEF BuildEdges

\* What a file imports or refers to exists.
LEMMA TargetsExist ==
  ASSUME NEW c \in Indexed, NEW p \in Present(c), NEW t \in Targets(c, p)
  PROVE  t \in Path \cup Name /\ Exists(c, t)
<1>1. PICK r \in Body(c, p).refs : t = Resolve(c, r) /\ t # None
  BY DEF Targets
<1>2. r \in Seq(Path \cup Name)
  BY <1>1, TextOfPath
<1>3. PICK i \in DOMAIN r : t = r[i] /\ Exists(c, t)
  BY <1>1, <1>2, Resolution
<1> QED BY <1>2, <1>3

\* A node of what is indexed.
HasNode(c, id) ==
  \/ \E q \in Present(c) : id = Own(q)
  \/ \E n \in NodeNames : id = Shared(n) /\ Users(c, n) # {}

\* Both ends of every edge an extractor finds are such nodes.
LEMMA EdgeHasNodes ==
  ASSUME NEW c \in Indexed, NEW p \in Present(c), NEW e \in FoundEdges(c, p)
  PROVE  HasNode(c, e.src) /\ HasNode(c, e.dst)
<1>1. CASE e.guess
  BY <1>1, KindsOfEdges DEF Edge, Guesses, HasNode
<1>2. ASSUME Structural(c, p, e) PROVE HasNode(c, e.src) /\ HasNode(c, e.dst)
  <2>1. PICK n \in (Body(c, p).defines \ Symbol) \cup Body(c, p).env : e = Edge(Own(p), Shared(n), p, FALSE)
    BY <1>2 DEF Structural
  <2>2. n \in NodeNames
    BY TextOfPath DEF NodeNames
  <2>3. p \in Users(c, n)
    BY DEF Users
  <2> QED BY <2>1, <2>2, <2>3 DEF Edge, HasNode
<1>3. ASSUME NEW t \in Imports(c, p)
      PROVE  /\ PathOf(c, t) \in Present(c)
             /\ t \in NodeNames /\ Users(c, t) # {}
  <2>1. t \in Targets(c, p) /\ t \in Module
    BY DEF Imports
  <2>2. t \notin Path
    BY <2>1, SnapshotAssumption DEF Name
  <2> QED BY <2>1, <2>2, TargetsExist, FileOfTarget, FilesOfName DEF NodeNames
<1>4. ASSUME ImportsFile(c, p, e) PROVE HasNode(c, e.src) /\ HasNode(c, e.dst)
  BY <1>3, <1>4 DEF Edge, ImportsFile, HasNode
<1>5. ASSUME ImportsModule(c, p, e) PROVE HasNode(c, e.src) /\ HasNode(c, e.dst)
  <2>1. PICK m \in Body(c, p).defines \cap Module, t \in Imports(c, p) :
          e = Edge(Shared(m), Shared(t), p, FALSE)
    BY <1>5 DEF ImportsModule
  <2>2. m \in NodeNames /\ p \in Users(c, m)
    BY DEF NodeNames, Users
  <2> QED BY <1>3, <2>1, <2>2 DEF Edge, HasNode
<1>6. ASSUME RefersTo(c, p, e) PROVE HasNode(c, e.src) /\ HasNode(c, e.dst)
  <2>1. PICK t \in Targets(c, p) \ Module :
          e = Edge(Own(p), IF t \in Route THEN Shared(t) ELSE Own(PathOf(c, t)), p, FALSE)
    BY <1>6 DEF RefersTo
  <2>2. PathOf(c, t) \in Present(c)
    BY TargetsExist, FileOfTarget
  <2>3. t \in Route => t \in NodeNames /\ Users(c, t) # {}
    BY TargetsExist, FileOfTarget, FilesOfName, SnapshotAssumption DEF NodeNames, Name
  <2> QED BY <2>1, <2>2, <2>3 DEF Edge, HasNode
<1> QED BY <1>1, <1>2, <1>4, <1>5, <1>6, KindsOfEdges

-----------------------------------------------------------------------------
(* Which edges of a file stay when other files change.  Two indexes a and b    *)
(* agree on all paths but those of D; p is none of D.                          *)

Agree(a, b, D) == \A q \in Path \ D : a[q] = b[q]

\* The nodes of some paths, and the shared nodes that these paths define or use.
Reach(c, D) ==
  {Own(q) : q \in D} \cup {Shared(n) : n \in {m \in NodeNames : Users(c, m) \cap D # {}}}

\* An edge of p, and no guess, ends at one of them.
LeadsInto(c, p, D) == \E e \in BuildEdges(c) : e.path = p /\ ~e.guess /\ e.dst \in Reach(c, D)

\* What is indexed of p, and what it defines, is the same.
LEMMA SameFile ==
  ASSUME NEW a, NEW b, NEW D, Agree(a, b, D), NEW p \in Path \ D
  PROVE  /\ p \in Present(a) <=> p \in Present(b)
         /\ Body(a, p) = Body(b, p)
         /\ \A n : p \in Definers(a, n) <=> p \in Definers(b, n)
         /\ \A n : p \in Users(a, n) <=> p \in Users(b, n)
<1>1. a[p] = b[p]
  BY DEF Agree
<1> QED BY <1>1 DEF Present, Body, Definers, Users

\* A target whose file is not of D exists in both.
LEMMA TargetStays ==
  ASSUME NEW a \in Indexed, NEW b \in Indexed, NEW D, Agree(a, b, D),
         NEW t, Exists(a, t), PathOf(a, t) \notin D
  PROVE  /\ Exists(b, t)
         /\ t \notin Path => PathOf(a, t) \in Definers(b, t)
<1>1. PathOf(a, t) \in Present(a) /\ PathOf(a, t) \in Path \ D
  BY FileOfTarget, TextOfPath
<1>2. CASE t \in Path
  BY <1>1, <1>2, FileOfTarget, SameFile DEF Exists, Present
<1>3. CASE t \notin Path
  BY <1>1, <1>3, FileOfTarget, SameFile DEF Exists
<1> QED BY <1>2, <1>3

\* An edge of p to a target whose file is of D.
LEMMA TargetLeadsInto ==
  ASSUME NEW b \in Indexed, NEW D, NEW p \in Present(b), p \notin D,
         NEW t \in Targets(b, p), PathOf(b, t) \in D,
         t \in Module => t \notin Body(b, p).defines
  PROVE  LeadsInto(b, p, D)
<1> DEFINE y == PathOf(b, t)
<1>1. Exists(b, t) /\ y \in D /\ y # p
  BY TargetsExist
<1>2. CASE t \in Module
  <2>1. t \in Imports(b, p)
    BY <1>1, <1>2 DEF Imports
  <2> DEFINE e == Edge(Own(p), Own(y), p, FALSE)
  <2>2. e \in FoundEdges(b, p)
    <3>1. ImportsFile(b, p, e)
      BY <2>1 DEF ImportsFile
    <3> QED BY <3>1, KindsOfEdges
  <2>3. e.src = Own(p) /\ e.dst = Own(y) /\ e.path = p /\ ~e.guess
    BY DEF Edge
  <2>4. e.dst \in Reach(b, D)
    BY <1>1, <2>3 DEF Reach
  <2> HIDE DEF e
  <2> QED BY <2>2, <2>3, <2>4, OwnEdgesStay DEF LeadsInto
<1>3. CASE t \notin Module
  <2> DEFINE d == IF t \in Route THEN Shared(t) ELSE Own(y)
             e == Edge(Own(p), d, p, FALSE)
  <2>1. e \in FoundEdges(b, p)
    <3>1. RefersTo(b, p, e)
      BY <1>3 DEF RefersTo
    <3> QED BY <3>1, KindsOfEdges
  <2>2. e.src = Own(p) /\ e.dst = d /\ e.path = p /\ ~e.guess
    BY DEF Edge
  <2>3. d \in Reach(b, D)
    <3>1. CASE t \in Route
      <4>1. t \notin Path /\ t \in NodeNames
        BY <3>1, SnapshotAssumption DEF Name, NodeNames
      <4>2. y \in Users(b, t)
        BY <1>1, <4>1, FileOfTarget, FilesOfName
      <4> QED BY <1>1, <3>1, <4>1, <4>2 DEF Reach
    <3>2. CASE t \notin Route
      BY <1>1, <3>2 DEF Reach
    <3> QED BY <3>1, <3>2
  <2> HIDE DEF e, d
  <2> QED BY <2>1, <2>2, <2>3, OwnEdgesStay DEF LeadsInto
<1> QED BY <1>2, <1>3

\* Unless an edge of p in b leads into D, p has in b the targets it has in a.
LEMMA TargetCarriesOver ==
  ASSUME NEW a \in Indexed, NEW b \in Indexed, NEW D, Agree(a, b, D),
         NEW p \in Present(a), p \notin D, ~LeadsInto(b, p, D),
         NEW t \in Targets(a, p), PathOf(a, t) \notin D
  PROVE  t \in Targets(b, p)
<1>1. p \in Path \ D /\ p \in Present(b) /\ Agree(b, a, D)
  BY TextOfPath, SameFile DEF Agree
<1>2. PICK r \in Body(a, p).refs : t = Resolve(a, r) /\ t # None
  BY DEF Targets
<1>3. r \in Body(b, p).refs /\ r \in Seq(Path \cup Name)
  <2>1. Body(a, p) = Body(b, p)
    BY <1>1, SameFile
  <2>2. Body(a, p).refs \subseteq Seq(Path \cup Name)
    BY TextOfPath
  <2> QED BY <1>2, <2>1, <2>2
<1>4. PICK i \in DOMAIN r : /\ t = r[i] /\ Exists(a, t)
                            /\ \A j \in DOMAIN r : Exists(a, r[j]) => i <= j
  BY <1>2, <1>3, Resolution
<1>5. Exists(b, r[i])
  BY <1>4, TargetStays
<1> DEFINE u == Resolve(b, r)
<1>6. u # None
  BY <1>3, <1>5, SomeTarget
<1>7. PICK k \in DOMAIN r : /\ u = r[k] /\ Exists(b, u)
                            /\ \A j \in DOMAIN r : Exists(b, r[j]) => k <= j
  BY <1>3, <1>6, Resolution
<1>8. u \in Targets(b, p)
  BY <1>3, <1>6 DEF Targets
<1> HIDE DEF u
<1>9. ASSUME ~Exists(a, u) PROVE FALSE
  <2>1. PathOf(b, u) \in D
    BY <1>1, <1>7, <1>9, TargetStays
  <2>2. u \in Module => u \notin Body(b, p).defines
    <3>1. ASSUME u \in Module, u \in Body(b, p).defines PROVE Exists(a, u)
      <4>1. p \in Definers(b, u)
        BY <1>1, <3>1 DEF Definers
      <4>2. p \in Definers(a, u) /\ u \notin Path
        BY <1>1, <4>1, <3>1, SameFile, SnapshotAssumption DEF Name
      <4> QED BY <4>2 DEF Exists
    <3> QED BY <1>9, <3>1
  <2> QED BY <1>1, <1>8, <2>1, <2>2, TargetLeadsInto
<1>10. k <= i /\ i <= k
  BY <1>4, <1>5, <1>7, <1>9
<1>11. k = i
  <2>1. k \in Nat /\ i \in Nat
    BY <1>3
  <2> QED BY <1>10, <2>1
<1> QED BY <1>4, <1>7, <1>8, <1>11

\* And they have the same first files.
LEMMA FileCarriesOver ==
  ASSUME NEW a \in Indexed, NEW b \in Indexed, NEW D, Agree(a, b, D),
         NEW p \in Present(a), p \notin D, ~LeadsInto(b, p, D),
         NEW t \in Targets(b, p), t \in Module => t \notin Body(b, p).defines,
         Exists(a, t), PathOf(a, t) \notin D
  PROVE  PathOf(b, t) = PathOf(a, t)
<1>1. p \in Present(b) /\ Agree(b, a, D)
  BY TextOfPath, SameFile DEF Agree
<1>2. Exists(b, t)
  BY <1>1, TargetsExist
<1>3. PathOf(b, t) \notin D
  BY <1>1, TargetLeadsInto
<1>4. CASE t \in Path
  BY <1>2, <1>4, FileOfTarget
<1>5. CASE t \notin Path
  <2>1. PathOf(a, t) \in Definers(b, t) /\ PathOf(b, t) \in Definers(a, t)
    BY <1>1, <1>2, <1>3, <1>5, TargetStays
  <2> DEFINE x == PathOf(a, t)
             y == PathOf(b, t)
  <2>2. RankOf(a, t, x) <= RankOf(a, t, y) /\ RankOf(b, t, y) <= RankOf(b, t, x)
    BY <1>2, <1>5, <2>1, FileOfTarget
  <2>3. x \in Present(a) /\ y \in Present(a) /\ a[x] = b[x] /\ a[y] = b[y]
    BY <1>2, <1>3, <2>1, FileOfTarget, FilesOfName, TextOfPath DEF Agree
  <2>4. t \in Name
    BY <2>1, <2>3, TextOfPath DEF Definers, Name
  <2>5. <<x, a[x]>> \in DOMAIN Text /\ <<y, a[y]>> \in DOMAIN Text
    BY <2>3, TextOfPath
  <2> HIDE DEF x, y
  <2>6. RankOf(a, t, x) = RankOf(a, t, y)
    <3>1. RankOf(a, t, x) \in Nat /\ RankOf(a, t, y) \in Nat
      BY <2>4, <2>5, SnapshotAssumption DEF RankOf
    <3>2. RankOf(b, t, x) = RankOf(a, t, x) /\ RankOf(b, t, y) = RankOf(a, t, y)
      BY <2>3 DEF RankOf
    <3> QED BY <2>2, <3>1, <3>2
  <2>7. <<x, a[x]>>[1] = <<y, a[y]>>[1]
    BY <2>4, <2>5, <2>6, SnapshotAssumption DEF RankOf
  <2> QED BY <2>7 DEF x, y
<1> QED BY <1>4, <1>5

\* So p has in b every edge it has in a, except those into D and guesses.
LEMMA EdgeCarriesOver ==
  ASSUME NEW a \in Indexed, NEW b \in Indexed, NEW D, Agree(a, b, D),
         NEW p \in Present(a), p \notin D, ~LeadsInto(b, p, D),
         NEW e \in FoundEdges(a, p), ~e.guess, e.dst \notin Reach(a, D)
  PROVE  e \in FoundEdges(b, p)
<1>1. p \in Path \ D /\ p \in Present(b) /\ Body(a, p) = Body(b, p)
  <2>1. p \in Path \ D
    BY TextOfPath
  <2> QED BY <2>1, SameFile
<1>2. ASSUME NEW t \in Imports(a, p), PathOf(a, t) \notin D
      PROVE  t \in Imports(b, p) /\ PathOf(b, t) = PathOf(a, t)
  <2>1. /\ t \in Targets(a, p) /\ t \in Module /\ t \notin Body(a, p).defines
        /\ PathOf(a, t) # p
    BY DEF Imports
  <2>2. t \in Targets(b, p) /\ Exists(a, t)
    BY <1>2, <2>1, TargetCarriesOver, TargetsExist
  <2>3. PathOf(b, t) = PathOf(a, t)
    BY <1>1, <1>2, <2>1, <2>2, FileCarriesOver
  <2> QED BY <1>1, <2>1, <2>2, <2>3 DEF Imports
<1>3. ASSUME NEW t, t \in NodeNames, Exists(a, t), Shared(t) \notin Reach(a, D)
      PROVE  PathOf(a, t) \notin D
  <2>1. t \notin Path
    BY <1>3, SnapshotAssumption DEF NodeNames, Name
  <2>2. PathOf(a, t) \in Users(a, t)
    BY <1>3, <2>1, FileOfTarget, FilesOfName
  <2> QED BY <1>3, <2>2 DEF Reach
<1>4. ASSUME NEW q, Own(q) \notin Reach(a, D) PROVE q \notin D
  BY <1>4 DEF Reach
<1>5. CASE Structural(a, p, e)
  BY <1>1, <1>5, KindsOfEdges DEF Structural
<1>6. CASE ImportsFile(a, p, e)
  <2>1. PICK t \in Imports(a, p) : e = Edge(Own(p), Own(PathOf(a, t)), p, FALSE)
    BY <1>6 DEF ImportsFile
  <2>2. PathOf(a, t) \notin D
    BY <1>4, <2>1 DEF Edge
  <2>3. ImportsFile(b, p, e)
    BY <1>2, <2>1, <2>2 DEF ImportsFile
  <2> QED BY <2>3, KindsOfEdges
<1>7. CASE ImportsModule(a, p, e)
  <2>1. PICK m \in Body(a, p).defines \cap Module, t \in Imports(a, p) :
          e = Edge(Shared(m), Shared(t), p, FALSE)
    BY <1>7 DEF ImportsModule
  <2>2. t \in NodeNames /\ Exists(a, t)
    BY TargetsExist DEF Imports, NodeNames
  <2>3. PathOf(a, t) \notin D
    BY <1>3, <2>1, <2>2 DEF Edge
  <2>4. ImportsModule(b, p, e)
    BY <1>1, <1>2, <2>1, <2>3 DEF ImportsModule
  <2> QED BY <2>4, KindsOfEdges
<1>8. CASE RefersTo(a, p, e)
  <2>1. PICK t \in Targets(a, p) \ Module :
          e = Edge(Own(p), IF t \in Route THEN Shared(t) ELSE Own(PathOf(a, t)), p, FALSE)
    BY <1>8 DEF RefersTo
  <2>2. Exists(a, t) /\ (t \in Route => t \in NodeNames)
    BY TargetsExist DEF NodeNames
  <2>3. PathOf(a, t) \notin D
    BY <1>3, <1>4, <2>1, <2>2 DEF Edge
  <2>4. t \in Targets(b, p) \ Module
    BY <2>3, TargetCarriesOver
  <2>5. PathOf(b, t) = PathOf(a, t)
    BY <2>2, <2>3, <2>4, FileCarriesOver
  <2>6. RefersTo(b, p, e)
    BY <2>1, <2>4, <2>5 DEF RefersTo
  <2> QED BY <2>6, KindsOfEdges
<1> QED BY <1>5, <1>6, <1>7, <1>8, KindsOfEdges

-----------------------------------------------------------------------------
(* Rows of nodes and chunk links *)

\* The row of a path has the path and its chunks.
LEMMA NodeOfPath ==
  ASSUME NEW c, NEW p \in Path
  PROVE  Node(c, Own(p)) = [id |-> Own(p), path |-> p, chunk |-> <<p, c[p]>>]
<1>1. Own(p) \in OwnNodes /\ Own(p)[2] = p
  BY DEF OwnNodes, Own
<1>2. p # None
  BY SnapshotAssumption
<1> QED BY <1>1, <1>2 DEF Node

\* The row of a shared node has a chunk of the file that is said to define it.
LEMMA NodeOfName ==
  ASSUME NEW c \in Indexed, NEW n \in NodeNames, Users(c, n) # {}
  PROVE  LET row == Node(c, Shared(n))
         IN  /\ row.id = Shared(n)
             /\ \/ row.path = None /\ row.chunk = None
                \/ /\ row.path \in Users(c, n) /\ row.path \in Path
                   /\ row.chunk = <<row.path, c[row.path]>>
<1>1. Shared(n) \notin OwnNodes /\ Shared(n)[2] = n
  BY NamesOfNodes DEF Shared
<1>2. CASE n \in Env
  BY <1>1, <1>2 DEF Node
<1>3. CASE n \notin Env
  <2> DEFINE d == Last(Definers(c, n))
  <2>1. Definers(c, n) # {} /\ Definers(c, n) \in SUBSET Path
    BY <1>3, FilesOfName
  <2>2. d \in Users(c, n) /\ d \in Path /\ d # None
    BY <2>1, SomePath, FilesOfName, SnapshotAssumption
  <2>3. Node(c, Shared(n)) = [id |-> Shared(n), path |-> d, chunk |-> <<d, c[d]>>]
    BY <1>1, <1>3, <2>2 DEF Node
  <2> HIDE DEF d
  <2> QED BY <2>2, <2>3
<1> QED BY <1>2, <1>3

\* The row is the same while no file that defines or uses the name changes.
LEMMA NodeStays ==
  ASSUME NEW a \in Indexed, NEW b \in Indexed, NEW D, Agree(a, b, D),
         NEW n \in NodeNames, Users(a, n) \cap D = {}, Users(b, n) \cap D = {}, Users(b, n) # {}
  PROVE  Users(a, n) = Users(b, n) /\ Node(a, Shared(n)) = Node(b, Shared(n))
<1>1. \A p \in Path \ D : /\ p \in Users(a, n) <=> p \in Users(b, n)
                          /\ p \in Definers(a, n) <=> p \in Definers(b, n)
  BY SameFile
<1>2. /\ Users(a, n) \subseteq Path \ D /\ Users(b, n) \subseteq Path \ D
      /\ Definers(a, n) \subseteq Path \ D /\ Definers(b, n) \subseteq Path \ D
  BY FilesOfName
<1>3. Users(a, n) = Users(b, n) /\ Definers(a, n) = Definers(b, n)
  BY <1>1, <1>2
<1>4. Shared(n) \notin OwnNodes /\ Shared(n)[2] = n
  BY NamesOfNodes DEF Shared
<1>5. CASE n \in Env
  BY <1>3, <1>4, <1>5 DEF Node
<1>6. CASE n \notin Env
  <2> DEFINE d == Last(Definers(b, n))
  <2>1. Definers(b, n) # {} /\ Definers(b, n) \in SUBSET Path
    BY <1>6, FilesOfName
  <2>2. d \in Path \ D
    BY <1>2, <2>1, SomePath
  <2>3. a[d] = b[d]
    BY <2>2 DEF Agree
  <2> QED BY <1>3, <1>4, <1>6, <2>3 DEF Node
<1> QED BY <1>3, <1>5, <1>6

\* The rows of nodes are those of the files and of the names they use.
LEMMA RowsOfNodes ==
  ASSUME NEW c, NEW n
  PROVE  n \in BuildNodes(c) <=> \/ \E p \in Present(c) : n = Node(c, Own(p))
                                 \/ \E m \in NodeNames : Users(c, m) # {} /\ n = Node(c, Shared(m))
  BY NamesOfNodes DEF BuildNodes

\* And every file supports its own node and those of its names.
LEMMA RowsOfLinks ==
  ASSUME NEW c, NEW l
  PROVE  l \in BuildLinks(c) <=>
           \/ \E p \in Present(c) : l = <<Own(p), <<p, c[p]>>>>
           \/ \E n \in NodeNames : \E p \in Users(c, n) : l = <<Shared(n), <<p, c[p]>>>>
  BY NamesOfNodes DEF BuildLinks

\* Nodes are rows of nodes there are.
LEMMA IdsOfNodes ==
  ASSUME NEW c \in Indexed, NEW id
  PROVE  (\E n \in BuildNodes(c) : n.id = id) <=> HasNode(c, id)
<1>1. ASSUME NEW p \in Present(c) PROVE Node(c, Own(p)).id = Own(p)
  <2>1. p \in Path
    BY TextOfPath
  <2> QED BY <2>1, NodeOfPath
<1>2. \A m \in NodeNames : Users(c, m) # {} => Node(c, Shared(m)).id = Shared(m)
  BY NodeOfName
<1> QED BY <1>1, <1>2, RowsOfNodes DEF HasNode
=============================================================================
