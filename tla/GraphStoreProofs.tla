--------------------------- MODULE GraphStoreProofs ---------------------------
(***************************************************************************)
(* Proofs about GraphStore, for any paths, texts, requests and bounds: the *)
(* status "ready", which is given without a look at the chunks; that what  *)
(* updates leave is what their metadata says; and what they lose.          *)
(***************************************************************************)
EXTENDS GraphStore, GraphSnapshotProofs

-----------------------------------------------------------------------------
(* The inductive invariant of the status *)

\* An artifact with its rows, or a file without metadata, or none.
Whole(g) ==
  /\ g = [at |-> "built", rows |-> g.rows, source |-> g.source, revision |-> g.revision,
          contract |-> g.contract, extractors |-> g.extractors]
  /\ g.revision \in BOOLEAN /\ g.contract \in BOOLEAN /\ g.extractors \in BOOLEAN

GraphOK == graph = Missing \/ graph = Hollow \/ Whole(graph)

\* An update is under way on an artifact, which nothing takes away meanwhile.
UpdatesHaveArtifact == job.at \in {"discovering", "planning"} => Built

\* As long as no index operation has written the registry row since, the artifact
\* is one of the chunks, also when it is outdated in other ways.
RevisionIsCurrent == Built /\ graph.revision /\ settled => graph.source = chunks

ReadyInv == GraphOK /\ UpdatesHaveArtifact /\ RevisionIsCurrent

-----------------------------------------------------------------------------

\* One flag of an artifact is written and the rest of it stays.
LEMMA FlagWritten ==
  ASSUME NEW g, NEW h, NEW b \in BOOLEAN, Whole(g)
  PROVE  /\ h = [g EXCEPT !.revision = b] =>
              Whole(h) /\ h.at = "built" /\ h.rows = g.rows /\ h.source = g.source /\ h.revision = b
         /\ h = [g EXCEPT !.contract = b] =>
              Whole(h) /\ h.at = "built" /\ h.rows = g.rows /\ h.source = g.source /\ h.revision = g.revision
         /\ h = [g EXCEPT !.extractors = b] =>
              Whole(h) /\ h.at = "built" /\ h.rows = g.rows /\ h.source = g.source /\ h.revision = g.revision
  BY DEF Whole

\* The states of the status in terms of the artifact.
LEMMA StateOfArtifact ==
  ASSUME GraphOK
  PROVE  /\ GraphState(FALSE) \in {"ready", "stale"} => Built
         /\ GraphState(FALSE) = "ready" => graph.revision
<1>1. CASE graph = Missing
  BY <1>1 DEF GraphState
<1>2. CASE graph = Hollow
  <2>1. graph # Missing /\ ~Built
    BY <1>2 DEF Missing, Hollow, Built
  <2> QED BY <1>2, <2>1 DEF GraphState
<1>3. CASE Whole(graph)
  <2>1. graph.at = "built"
    BY <1>3 DEF Whole
  <2>2. Built /\ graph # Missing /\ graph # Hollow
    BY <2>1 DEF Missing, Hollow, Built
  <2>3. ~graph.revision => Mismatches(FALSE) # {}
    BY DEF Mismatches
  <2> QED BY <2>2, <2>3 DEF GraphState
<1> QED BY <1>1, <1>2, <1>3 DEF GraphOK

\* What Outdated does to an artifact, for each of the flags there are.
LEMMA OutdatedArtifact ==
  ASSUME GraphOK, NEW field \in {"revision", "contract", "extractors"},
         graph' = Outdated(graph, field)
  PROVE  /\ GraphOK'
         /\ Built' <=> Built
         /\ Built => /\ graph'.rows = graph.rows /\ graph'.source = graph.source
                     /\ graph'.revision => graph.revision
                     /\ field = "revision" => ~graph'.revision
<1>1. CASE graph = Missing
  BY <1>1 DEF Missing, Hollow, Outdated, GraphOK, Built
<1>2. CASE graph = Hollow
  BY <1>2 DEF Missing, Hollow, Outdated, GraphOK, Built
<1>3. CASE Whole(graph)
  <2>1. Built
    BY <1>3 DEF Whole, Built
  <2>2. graph' = [graph EXCEPT ![field] = FALSE]
    BY <2>1 DEF Outdated, Built
  <2>3. /\ Whole(graph')
        /\ graph'.at = "built" /\ graph'.rows = graph.rows /\ graph'.source = graph.source
        /\ graph'.revision => graph.revision
        /\ field = "revision" => ~graph'.revision
    <3>1. CASE field = "revision"
      <4>1. graph' = [graph EXCEPT !.revision = FALSE]
        BY <2>2, <3>1
      <4> QED BY <4>1, <3>1, <1>3, FlagWritten
    <3>2. CASE field = "contract"
      <4>1. graph' = [graph EXCEPT !.contract = FALSE]
        BY <2>2, <3>2
      <4> QED BY <4>1, <3>2, <1>3, FlagWritten
    <3>3. CASE field = "extractors"
      <4>1. graph' = [graph EXCEPT !.extractors = FALSE]
        BY <2>2, <3>3
      <4> QED BY <4>1, <3>3, <1>3, FlagWritten
    <3> QED BY <3>1, <3>2, <3>3
  <2> QED BY <2>1, <2>3 DEF GraphOK, Built
<1> QED BY <1>1, <1>2, <1>3 DEF GraphOK

\* The transactions that write an artifact write it for the chunks of now.
LEMMA WrittenArtifact ==
  ASSUME NEW rows, graph' = Artifact(rows, chunks), job' = Idle, UNCHANGED chunks
  PROVE  ReadyInv'
<1>1. graph' = [at |-> "built", rows |-> rows, source |-> chunks, revision |-> TRUE,
                contract |-> TRUE, extractors |-> TRUE]
  BY DEF Artifact
<1>2. GraphOK' BY <1>1 DEF GraphOK, Whole
<1>3. UpdatesHaveArtifact' /\ RevisionIsCurrent'
  BY <1>1 DEF UpdatesHaveArtifact, RevisionIsCurrent, Built
<1> QED BY <1>2, <1>3 DEF ReadyInv

\* It holds of a missing artifact and of an old one, which is outdated.
LEMMA ReadyInit == Init => ReadyInv
<1> SUFFICES ASSUME Init PROVE ReadyInv
  OBVIOUS
<1>1. CASE graph = Missing
  BY <1>1 DEF Init, ReadyInv, GraphOK, UpdatesHaveArtifact, RevisionIsCurrent, Missing, Built, Idle
<1>2. ASSUME NEW rows, NEW source, graph = [Artifact(rows, source) EXCEPT !.revision = FALSE]
      PROVE  ReadyInv
  <2>1. graph = [at |-> "built", rows |-> rows, source |-> source, revision |-> FALSE,
                 contract |-> TRUE, extractors |-> TRUE]
    BY <1>2 DEF Artifact
  <2>2. GraphOK BY <2>1 DEF GraphOK, Whole
  <2> QED BY <2>1, <2>2 DEF Init, ReadyInv, UpdatesHaveArtifact, RevisionIsCurrent, Built, Idle
<1> QED BY <1>1, <1>2 DEF Init

\* And every step keeps it.
LEMMA ReadyStep == ReadyInv /\ [Next]_vars => ReadyInv'
<1> SUFFICES ASSUME ReadyInv, [Next]_vars PROVE ReadyInv'
  OBVIOUS
<1>1. ASSUME NEW p \in Path, NEW v, IndexPath(p, v) PROVE ReadyInv'
  BY <1>1 DEF IndexPath, ReadyInv, GraphOK, UpdatesHaveArtifact, RevisionIsCurrent, Built
<1>2. CASE RecordRevision
  <2>1. graph' = Outdated(graph, "revision") /\ job = Idle /\ job' = job
    BY <1>2 DEF RecordRevision
  <2> QED BY <2>1, OutdatedArtifact
          DEF ReadyInv, UpdatesHaveArtifact, RevisionIsCurrent, Idle
<1>3. CASE ChangeContract
  <2>1. /\ graph' = Outdated(graph, "contract") /\ job = Idle /\ job' = job
        /\ chunks' = chunks /\ settled' = settled
    BY <1>3 DEF ChangeContract
  <2> QED BY <2>1, OutdatedArtifact
          DEF ReadyInv, UpdatesHaveArtifact, RevisionIsCurrent, Idle
<1>4. ASSUME NEW upgraded \in BOOLEAN, Restart(upgraded) PROVE ReadyInv'
  <2>1. job' = Idle /\ chunks' = chunks /\ settled' = settled
    BY <1>4 DEF Restart
  <2>2. CASE graph' = Outdated(graph, "extractors")
    BY <2>1, <2>2, OutdatedArtifact
    DEF ReadyInv, UpdatesHaveArtifact, RevisionIsCurrent, Idle
  <2>3. CASE graph' = graph
    BY <2>1, <2>3 DEF ReadyInv, GraphOK, UpdatesHaveArtifact, RevisionIsCurrent, Built, Idle
  <2> QED BY <1>4, <2>2, <2>3 DEF Restart
<1>5. ASSUME NEW rebuild \in BOOLEAN, BuildBegins(rebuild) PROVE ReadyInv'
  BY <1>5 DEF BuildBegins, ReadyInv, GraphOK, UpdatesHaveArtifact, RevisionIsCurrent, Built, Missing
<1>6. CASE BuildOpens
  BY <1>6 DEF BuildOpens, ReadyInv, GraphOK, UpdatesHaveArtifact, RevisionIsCurrent, Built, Hollow
<1>7. CASE BuildReplaces
  BY <1>7, WrittenArtifact DEF BuildReplaces
<1>8. CASE UpdateRefused
  BY <1>8 DEF UpdateRefused, ReadyInv, GraphOK, UpdatesHaveArtifact, RevisionIsCurrent, Built
<1>9. ASSUME NEW request \in Requests, UpdateBegins(request) PROVE ReadyInv'
  <2>1. Built
    BY <1>9, StateOfArtifact DEF UpdateBegins, ReadyInv
  <2> QED BY <1>9, <2>1 DEF UpdateBegins, ReadyInv, GraphOK, UpdatesHaveArtifact, RevisionIsCurrent, Built
<1>10. CASE UpdateSigns
  <2>1. Built
    BY <1>10 DEF UpdateSigns, ReadyInv, UpdatesHaveArtifact
  <2>2. Whole(graph)
    BY <2>1 DEF ReadyInv, GraphOK, Built, Missing, Hollow
  <2> DEFINE signed == Signed(graph.rows)
  <2>3. /\ graph' = [graph EXCEPT !.rows = signed]
        /\ chunks' = chunks /\ settled' = settled
    BY <1>10 DEF UpdateSigns
  <2> HIDE DEF signed
  <2>4. /\ Whole(graph')
        /\ graph'.at = "built" /\ graph'.source = graph.source
        /\ graph'.revision = graph.revision
    BY <2>2, <2>3 DEF Whole
  <2> QED BY <2>3, <2>4 DEF ReadyInv, GraphOK, UpdatesHaveArtifact, RevisionIsCurrent, Built
<1>11. ASSUME job' = Idle, UNCHANGED <<chunks, settled, graph>> PROVE ReadyInv'
  BY <1>11 DEF ReadyInv, GraphOK, UpdatesHaveArtifact, RevisionIsCurrent, Built, Idle
<1>12. CASE UpdateStops \/ UpdateNotRequired \/ UpdateRecalls
  BY <1>11, <1>12 DEF UpdateStops, UpdateNotRequired, UpdateRecalls, Finish
<1>13. CASE UpdateCommits
  BY <1>13, WrittenArtifact DEF UpdateCommits, Finish
<1>14. CASE UNCHANGED vars
  BY <1>14 DEF vars, ReadyInv, GraphOK, UpdatesHaveArtifact, RevisionIsCurrent, Built
<1> QED
  BY <1>1, <1>2, <1>3, <1>4, <1>5, <1>6, <1>7, <1>8, <1>9, <1>10, <1>12, <1>13, <1>14 DEF Next

-----------------------------------------------------------------------------
(* Rows that are those of a build *)

\* Edges whose presence needs more than one file hold between files.
GuessesStand(rows, source) ==
  \A e \in rows.edges :
    e.guess => /\ e.path \in Present(source) /\ e.src = Own(e.path)
               /\ \E q \in Present(source) : e.dst = Own(q)

\* Every other edge is one that its file gives.
EdgesAreFound(rows, source) ==
  \A e \in rows.edges : ~e.guess => e.path \in Present(source) /\ e \in FoundEdges(source, e.path)

\* That is, one of those that the extractors find.
LEMMA FoundIsExtracted ==
  ASSUME NEW rows, NEW source \in Indexed
  PROVE  EdgesAreFound(rows, source) <=> Firm(rows.edges) \subseteq Extracted(source)
<1>1. ASSUME NEW e \in Extracted(source) PROVE e.path \in Present(source) /\ e \in FoundEdges(source, e.path)
  BY EdgeOfFile DEF Extracted
<1>2. ASSUME NEW e, e.path \in Present(source), e \in FoundEdges(source, e.path) PROVE e \in Extracted(source)
  BY <1>2 DEF Extracted
<1> QED BY <1>1, <1>2 DEF EdgesAreFound, Firm

\* The chunks of some paths, by the rows of their nodes.
LEMMA ChunksOfPaths ==
  ASSUME NEW rows, NEW c \in Indexed, rows.nodes = BuildNodes(c), NEW P \in SUBSET Path
  PROVE  /\ \A p \in P \cap Present(c) : <<p, c[p]>> \in ChunksOf(rows, P)
         /\ \A p, v : <<p, v>> \in ChunksOf(rows, P) => p \in P
<1>1. ASSUME NEW p \in P \cap Present(c) PROVE <<p, c[p]>> \in ChunksOf(rows, P)
  <2> DEFINE n == Node(c, Own(p))
  <2>1. n \in rows.nodes
    BY RowsOfNodes
  <2>2. n.path = p /\ n.chunk = <<p, c[p]>>
    BY NodeOfPath
  <2> HIDE DEF n
  <2> QED BY <2>1, <2>2 DEF ChunksOf
<1>2. ASSUME NEW p, NEW v, <<p, v>> \in ChunksOf(rows, P) PROVE p \in P
  <2>1. PICK n \in BuildNodes(c) : n.path \in P /\ n.chunk = <<p, v>>
    BY <1>2 DEF ChunksOf
  <2>2. n.path # None
    <3>1. None \notin Path
      BY SnapshotAssumption
    <3> QED BY <2>1, <3>1
  <2>3. CASE \E q \in Present(c) : n = Node(c, Own(q))
    <3>1. PICK q \in Present(c) : n = Node(c, Own(q))
      BY <2>3
    <3>2. q \in Path
      BY TextOfPath
    <3>3. n.path = q /\ n.chunk = <<q, c[q]>>
      BY <3>1, <3>2, NodeOfPath
    <3> QED BY <2>1, <3>3
  <2>4. CASE \E m \in NodeNames : Users(c, m) # {} /\ n = Node(c, Shared(m))
    <3>1. PICK m \in NodeNames : Users(c, m) # {} /\ n = Node(c, Shared(m))
      BY <2>4
    <3>2. n.chunk = <<n.path, c[n.path]>>
      BY <2>2, <3>1, NodeOfName
    <3> QED BY <2>1, <3>2
  <2> QED BY <2>3, <2>4, RowsOfNodes
<1> QED BY <1>1, <1>2

\* What some paths define or use is found by their chunks.
LEMMA SharedOfPaths ==
  ASSUME NEW rows, NEW c \in Indexed, rows.nodes = BuildNodes(c), rows.links = BuildLinks(c),
         NEW P \in SUBSET Path
  PROVE  Reach(c, P) \subseteq OwnOf(P) \cup SharedBy(rows, P)
<1>1. ASSUME NEW n \in NodeNames, NEW p \in Users(c, n) \cap P PROVE Shared(n) \in SharedBy(rows, P)
  <2>1. p \in Present(c)
    BY FilesOfName
  <2> DEFINE l == <<Shared(n), <<p, c[p]>>>>
  <2>2. l \in rows.links
    BY RowsOfLinks
  <2>3. l[1] = Shared(n) /\ l[2] \in ChunksOf(rows, P)
    BY <2>1, ChunksOfPaths
  <2>4. Shared(n) \in SharedNodes
    BY NamesOfNodes
  <2> HIDE DEF l
  <2> QED BY <2>2, <2>3, <2>4 DEF SharedBy
<1> QED BY <1>1 DEF Reach, OwnOf
-----------------------------------------------------------------------------
(* What update_paths leaves: the rows of some paths P are replaced by those    *)
(* of a build from now, and P holds all paths whose chunks have changed.       *)

\* The rows that are written.
Fresh(now, P) == {e \in BuildEdges(now) : e.path \in P}
Needed(rows, now, P) ==
  Endpoints(Fresh(now, P))
    \cup {n.id : n \in {m \in BuildNodes(now) : m.path \in P}}
    \cup {l[1] : l \in {k \in BuildLinks(now) : k[2] \in ChunksOf(rows, P)}}
    \cup (SharedBy(rows, P) \cap {n.id : n \in BuildNodes(now)})
Written(rows, now, P) == {n \in BuildNodes(now) : n.id \in Needed(rows, now, P)}

\* The rows that are left: those that are not touched, and those that are written; a
\* shared node without a link and without an edge is pruned.
LeftFiles(rows, now, P) == [p \in Path |-> IF p \in P THEN BuildFiles(now)[p] ELSE rows.files[p]]
LeftLinks(rows, now, P) ==
  {l \in rows.links : l[1] \notin OwnOf(P) \cup Needed(rows, now, P) /\ l[2] \notin ChunksOf(rows, P)}
    \cup {l \in BuildLinks(now) : l[1] \in Needed(rows, now, P)}
LeftEdges(rows, now, P) ==
  {e \in rows.edges : e.path \notin P /\ ~Touches(e, OwnOf(P)) /\ \A f \in Fresh(now, P) : ~SameId(e, f)}
    \cup Fresh(now, P)
LeftNodes(rows, now, P) ==
  {n \in {m \in rows.nodes : m.id \notin OwnOf(P) \cup {k.id : k \in Written(rows, now, P)}} \cup Written(rows, now, P) :
     n.id \in SharedNodes =>
       (\E l \in LeftLinks(rows, now, P) : l[1] = n.id) \/ n.id \in Endpoints(LeftEdges(rows, now, P))}

\* The four tables.
IsRows(rows) ==
  rows = [files |-> rows.files, nodes |-> rows.nodes, links |-> rows.links, edges |-> rows.edges]

\* What update_paths leaves, part by part.
LEMMA ReplacedParts ==
  ASSUME NEW rows, NEW now, NEW P
  PROVE  LET r == Replaced(rows, Snapshot(now), P)
         IN  /\ r.files = LeftFiles(rows, now, P)
             /\ r.nodes = LeftNodes(rows, now, P)
             /\ r.links = LeftLinks(rows, now, P)
             /\ r.edges = LeftEdges(rows, now, P)
             /\ IsRows(r)
<1> DEFINE r == Replaced(rows, Snapshot(now), P)
           files == LeftFiles(rows, now, P)
           links == LeftLinks(rows, now, P)
           edges == LeftEdges(rows, now, P)
           nodes == {m \in rows.nodes : m.id \notin OwnOf(P) \cup {k.id : k \in Written(rows, now, P)}}
                      \cup Written(rows, now, P)
<1>1. r = Pruned([files |-> files, nodes |-> nodes, links |-> links, edges |-> edges])
  BY Zenon DEF Replaced, Snapshot, Fresh, Needed, Written, LeftFiles, LeftLinks, LeftEdges
<1>2. LeftNodes(rows, now, P) =
        {n \in nodes : n.id \in SharedNodes => (\E l \in links : l[1] = n.id) \/ n.id \in Endpoints(edges)}
  BY Zenon DEF LeftNodes
<1> HIDE DEF r, files, nodes, links, edges
<1>3. r.files = files /\ r.links = links /\ r.edges = edges /\ r.nodes = LeftNodes(rows, now, P)
  BY <1>1, <1>2 DEF Pruned
<1>4. IsRows(r)
  BY <1>1 DEF Pruned, IsRows
<1> QED BY <1>3, <1>4 DEF r, files, links, edges

\* All nodes of P now, and all shared nodes that P defines or uses now or did before,
\* are written.
LEMMA NodesOfPathsAreWritten ==
  ASSUME NEW rows, NEW source \in Indexed, NEW now \in Indexed, NEW P \in SUBSET Path,
         rows.nodes = BuildNodes(source), rows.links = BuildLinks(source)
  PROVE  /\ \A p \in P \cap Present(now) : Own(p) \in Needed(rows, now, P)
         /\ \A n \in NodeNames :
              \/ Users(now, n) \cap P # {}
              \/ Users(source, n) \cap P # {} /\ Users(now, n) # {}
              => Shared(n) \in Needed(rows, now, P)
<1>1. ASSUME NEW p \in P \cap Present(now) PROVE Own(p) \in Needed(rows, now, P)
  <2> DEFINE n == Node(now, Own(p))
  <2>1. n \in BuildNodes(now)
    BY RowsOfNodes
  <2>2. n.path = p /\ n.id = Own(p)
    BY NodeOfPath
  <2> HIDE DEF n
  <2> QED BY <2>1, <2>2 DEF Needed
<1>2. ASSUME NEW n \in NodeNames, NEW p \in Users(now, n) \cap P PROVE Shared(n) \in Needed(rows, now, P)
  <2>1. p \in Present(now)
    BY FilesOfName
  <2> DEFINE e == Edge(Own(p), Shared(n), p, FALSE)
  <2>2. e \in FoundEdges(now, p)
    <3>1. n \in (Body(now, p).defines \ Symbol) \cup Body(now, p).env
      BY SnapshotAssumption DEF Users, NodeNames
    <3>2. Structural(now, p, e)
      BY <3>1 DEF Structural
    <3> QED BY <3>2, KindsOfEdges
  <2>3. e.src = Own(p) /\ e.dst = Shared(n) /\ e.path = p
    BY DEF Edge
  <2> HIDE DEF e
  <2>4. e \in Fresh(now, P)
    BY <2>1, <2>2, <2>3, OwnEdgesStay DEF Fresh
  <2>5. Shared(n) \in Endpoints(Fresh(now, P))
    BY <2>3, <2>4 DEF Endpoints
  <2> QED BY <2>5 DEF Needed
<1>3. ASSUME NEW n \in NodeNames, Users(source, n) \cap P # {}, Users(now, n) # {}
      PROVE  Shared(n) \in Needed(rows, now, P)
  <2>1. Shared(n) \in Reach(source, P)
    BY <1>3 DEF Reach
  <2>2. Shared(n) \notin OwnOf(P)
    BY NodesApart DEF OwnOf
  <2>3. Shared(n) \in SharedBy(rows, P)
    BY <2>1, <2>2, SharedOfPaths
  <2>4. \E m \in BuildNodes(now) : m.id = Shared(n)
    BY <1>3, IdsOfNodes DEF HasNode
  <2> QED BY <2>3, <2>4 DEF Needed
<1> QED BY <1>1, <1>2, <1>3

\* The links left are those of a build.
LEMMA ReplacedLinks ==
  ASSUME NEW rows, NEW source \in Indexed, NEW now \in Indexed, NEW P \in SUBSET Path,
         Agree(source, now, P), rows.nodes = BuildNodes(source), rows.links = BuildLinks(source)
  PROVE  Replaced(rows, Snapshot(now), P).links = BuildLinks(now)
<1> DEFINE ids == Needed(rows, now, P)
           links == Replaced(rows, Snapshot(now), P).links
<1>0. links = LeftLinks(rows, now, P)
  BY ReplacedParts
<1>1. links = {l \in rows.links : l[1] \notin OwnOf(P) \cup ids /\ l[2] \notin ChunksOf(rows, P)}
                \cup {l \in BuildLinks(now) : l[1] \in ids}
  BY <1>0 DEF LeftLinks
<1>2. /\ \A p \in P \cap Present(now) : Own(p) \in ids
      /\ \A n \in NodeNames : Users(now, n) \cap P # {} => Shared(n) \in ids
  BY NodesOfPathsAreWritten
<1>3. /\ \A p \in P \cap Present(source) : <<p, source[p]>> \in ChunksOf(rows, P)
      /\ \A p, v : <<p, v>> \in ChunksOf(rows, P) => p \in P
  BY ChunksOfPaths
<1>4. Present(source) \subseteq Path /\ Present(now) \subseteq Path
  BY DEF Present
<1>5. \A p \in Path \ P : /\ source[p] = now[p] /\ (p \in Present(source) <=> p \in Present(now))
                          /\ \A n : p \in Users(source, n) <=> p \in Users(now, n)
  BY SameFile DEF Agree
<1>6. \A n : Shared(n) \notin OwnOf(P)
  BY NodesApart DEF OwnOf
<1>7. \A p : Own(p) \in OwnOf(P) => p \in P
  BY NodesApart DEF OwnOf
<1>8. \A p \in P : Own(p) \in OwnOf(P)
  BY DEF OwnOf
<1> HIDE DEF ids, links
<1>9. ASSUME NEW l \in BuildLinks(now) PROVE l \in links
  <2>1. ASSUME NEW p \in Present(now), l = <<Own(p), <<p, now[p]>>>>, l[1] \notin ids PROVE l \in links
    <3>1. p \in Path \ P
      BY <1>2, <1>4, <2>1
    <3>2. l \in rows.links
      BY <1>5, <2>1, <3>1, RowsOfLinks
    <3>3. l[1] \notin OwnOf(P) /\ l[2] \notin ChunksOf(rows, P)
      BY <1>3, <1>7, <2>1, <3>1
    <3> QED BY <1>1, <2>1, <3>2, <3>3
  <2>2. ASSUME NEW n \in NodeNames, NEW p \in Users(now, n), l = <<Shared(n), <<p, now[p]>>>>, l[1] \notin ids
        PROVE  l \in links
    <3>1. p \in Path \ P
      BY <1>2, <1>4, <2>2, FilesOfName
    <3>2. l \in rows.links
      BY <1>5, <2>2, <3>1, RowsOfLinks
    <3>3. l[1] \notin OwnOf(P) /\ l[2] \notin ChunksOf(rows, P)
      BY <1>3, <1>6, <2>2, <3>1
    <3> QED BY <1>1, <2>2, <3>2, <3>3
  <2> QED BY <1>1, <2>1, <2>2, RowsOfLinks
<1>10. ASSUME NEW l \in links PROVE l \in BuildLinks(now)
  <2>1. CASE l \in BuildLinks(now)
    BY <2>1
  <2>2. CASE l \in BuildLinks(source) /\ l[1] \notin OwnOf(P) \cup ids /\ l[2] \notin ChunksOf(rows, P)
    <3>1. ASSUME NEW p \in Present(source), l = <<Own(p), <<p, source[p]>>>> PROVE l \in BuildLinks(now)
      <4>1. p \in Path \ P
        BY <1>4, <1>8, <2>2, <3>1
      <4> QED BY <1>5, <3>1, <4>1, RowsOfLinks
    <3>2. ASSUME NEW n \in NodeNames, NEW p \in Users(source, n), l = <<Shared(n), <<p, source[p]>>>>
          PROVE  l \in BuildLinks(now)
      <4>1. p \in Present(source)
        BY FilesOfName
      <4>2. p \in Path \ P
        BY <1>3, <1>4, <2>2, <3>2, <4>1
      <4> QED BY <1>5, <3>2, <4>2, RowsOfLinks
    <3> QED BY <2>2, <3>1, <3>2, RowsOfLinks
  <2> QED BY <1>1, <2>1, <2>2
<1> QED BY <1>9, <1>10 DEF links

\* The edges left are edges that their files give now, if those that are kept are.
LEMMA ReplacedEdges ==
  ASSUME NEW rows, NEW source \in Indexed, NEW now \in Indexed, NEW P \in SUBSET Path,
         Agree(source, now, P), GuessesStand(rows, source),
         \A e \in rows.edges :
           ~e.guess /\ e.path \notin P => e.path \in Present(now) /\ e \in FoundEdges(now, e.path)
  PROVE  LET r == Replaced(rows, Snapshot(now), P)
         IN  GuessesStand(r, now) /\ EdgesAreFound(r, now)
<1> DEFINE r == Replaced(rows, Snapshot(now), P)
<1>0. r.edges = LeftEdges(rows, now, P)
  BY ReplacedParts
<1> HIDE DEF r
<1>1. r.edges = {e \in rows.edges : /\ e.path \notin P
                                    /\ ~Touches(e, OwnOf(P))
                                    /\ \A f \in Fresh(now, P) : ~SameId(e, f)} \cup Fresh(now, P)
  BY <1>0 DEF LeftEdges
<1>2. ASSUME NEW e \in Fresh(now, P) PROVE e.path \in Present(now) /\ e \in FoundEdges(now, e.path)
  <2>1. PICK p \in Present(now) : e \in FoundEdges(now, p)
    BY DEF Fresh, BuildEdges, Extracted
  <2> QED BY <2>1, EdgeOfFile
<1>3. ASSUME NEW e \in rows.edges, e.path \notin P, ~Touches(e, OwnOf(P)), e.guess
      PROVE  /\ e.path \in Present(now) /\ e.src = Own(e.path)
             /\ \E q \in Present(now) : e.dst = Own(q)
  <2>1. e.path \in Present(source) /\ e.src = Own(e.path)
    BY <1>3 DEF GuessesStand
  <2>2. PICK q \in Present(source) : e.dst = Own(q)
    BY <1>3 DEF GuessesStand
  <2>3. e.path \in Path \ P /\ q \in Path \ P
    BY <1>3, <2>1, <2>2 DEF Touches, OwnOf, Present
  <2>4. e.path \in Present(now) /\ q \in Present(now)
    BY <2>1, <2>2, <2>3, SameFile
  <2> QED BY <2>1, <2>2, <2>4
<1>4. ASSUME NEW e \in Fresh(now, P), e.guess
      PROVE  /\ e.path \in Present(now) /\ e.src = Own(e.path)
             /\ \E q \in Present(now) : e.dst = Own(q)
  <2>1. PICK q \in Present(now) : e = Edge(Own(e.path), Own(q), e.path, TRUE)
    BY <1>2, <1>4, KindsOfEdges DEF Guesses
  <2>2. e.src = Own(e.path) /\ e.dst = Own(q)
    BY <2>1 DEF Edge
  <2> QED BY <1>2, <2>2
<1>5. GuessesStand(r, now)
  BY <1>1, <1>3, <1>4 DEF GuessesStand
<1>6. EdgesAreFound(r, now)
  BY <1>1, <1>2 DEF EdgesAreFound
<1> QED BY <1>5, <1>6 DEF r

\* The nodes left are those of a build: a shared node that no file has any more lost
\* its links and edges and is pruned.
LEMMA ReplacedNodes ==
  ASSUME NEW rows, NEW source \in Indexed, NEW now \in Indexed, NEW P \in SUBSET Path,
         Agree(source, now, P), rows.nodes = BuildNodes(source), rows.links = BuildLinks(source),
         LET r == Replaced(rows, Snapshot(now), P)
         IN  r.links = BuildLinks(now) /\ GuessesStand(r, now) /\ EdgesAreFound(r, now)
  PROVE  Replaced(rows, Snapshot(now), P).nodes = BuildNodes(now)
<1> DEFINE r == Replaced(rows, Snapshot(now), P)
           ids == Needed(rows, now, P)
           written == Written(rows, now, P)
<1>0. r.nodes = LeftNodes(rows, now, P) /\ r.links = LeftLinks(rows, now, P) /\ r.edges = LeftEdges(rows, now, P)
  BY ReplacedParts
<1>2. /\ \A p \in P \cap Present(now) : Own(p) \in ids
      /\ \A n \in NodeNames :
           \/ Users(now, n) \cap P # {}
           \/ Users(source, n) \cap P # {} /\ Users(now, n) # {}
           => Shared(n) \in ids
  BY NodesOfPathsAreWritten
<1>3. written = {n \in BuildNodes(now) : n.id \in ids}
  BY DEF Written
<1>4. r.links = BuildLinks(now) /\ GuessesStand(r, now) /\ EdgesAreFound(r, now)
  OBVIOUS
<1>5. \A p : Own(p) \in OwnOf(P) <=> p \in P
  BY NodesApart DEF OwnOf
<1>6. \A n : Shared(n) \notin OwnOf(P)
  BY NodesApart DEF OwnOf
<1>7. \A p \in Path \ P : /\ p \in Present(source) <=> p \in Present(now)
                          /\ Node(source, Own(p)) = Node(now, Own(p))
  BY SameFile, NodeOfPath DEF Agree
<1>8. \A c : Present(c) \subseteq Path
  BY DEF Present
<1>9. \A c, p : p \in Present(c) => Node(c, Own(p)).id = Own(p)
  BY <1>8, NodeOfPath
<1>10. \A c \in Indexed : \A m \in NodeNames : Users(c, m) # {} => Node(c, Shared(m)).id = Shared(m)
  BY NodeOfName
<1> HIDE DEF r, ids
<1>1. r.nodes = {n \in {m \in rows.nodes : m.id \notin OwnOf(P) \cup {k.id : k \in written}} \cup written :
                   n.id \in SharedNodes => (\E l \in r.links : l[1] = n.id) \/ n.id \in Endpoints(r.edges)}
  BY <1>0 DEF LeftNodes
<1> HIDE DEF written
<1>11. ASSUME NEW n \in BuildNodes(now) PROVE n \in r.nodes
  <2>1. ASSUME NEW p \in Present(now), n = Node(now, Own(p)) PROVE n \in r.nodes
    <3>1. n.id = Own(p) /\ n.id \notin SharedNodes
      BY <1>9, <2>1, NamesOfNodes
    <3>2. CASE n.id \in ids
      BY <1>1, <1>3, <3>1, <3>2
    <3>3. CASE n.id \notin ids
      <4>1. p \in Path \ P
        BY <1>2, <1>8, <3>1, <3>3
      <4>2. n \in rows.nodes
        BY <1>7, <2>1, <4>1, RowsOfNodes
      <4>3. n.id \notin OwnOf(P) \cup {k.id : k \in written}
        BY <1>3, <1>5, <3>1, <3>3, <4>1
      <4> QED BY <1>1, <3>1, <4>2, <4>3
    <3> QED BY <3>2, <3>3
  <2>2. ASSUME NEW m \in NodeNames, Users(now, m) # {}, n = Node(now, Shared(m)) PROVE n \in r.nodes
    <3>1. n.id = Shared(m)
      BY <1>10, <2>2
    <3>2. PICK p \in Users(now, m) : TRUE
      BY <2>2
    <3>3. \E l \in r.links : l[1] = n.id
      <4> DEFINE l == <<Shared(m), <<p, now[p]>>>>
      <4>1. l \in BuildLinks(now) /\ l[1] = Shared(m)
        BY <3>2, RowsOfLinks
      <4> HIDE DEF l
      <4> QED BY <1>4, <3>1, <4>1
    <3>4. CASE n.id \in ids
      BY <1>1, <1>3, <3>3, <3>4
    <3>5. CASE n.id \notin ids
      <4>1. Users(now, m) \cap P = {} /\ Users(source, m) \cap P = {}
        BY <1>2, <2>2, <3>1, <3>5
      <4>2. Users(source, m) = Users(now, m) /\ Node(source, Shared(m)) = Node(now, Shared(m))
        BY <2>2, <4>1, NodeStays
      <4>3. n \in rows.nodes
        BY <2>2, <4>2, RowsOfNodes
      <4>4. n.id \notin OwnOf(P) \cup {k.id : k \in written}
        BY <1>3, <1>6, <3>1, <3>5
      <4> QED BY <1>1, <3>3, <4>3, <4>4
    <3> QED BY <3>4, <3>5
  <2> QED BY <2>1, <2>2, RowsOfNodes
<1>12. ASSUME NEW n \in r.nodes PROVE n \in BuildNodes(now)
  <2>1. CASE n \in written
    BY <1>3, <2>1
  <2>2. ASSUME NEW p \in Present(source), n = Node(source, Own(p)), n.id \notin OwnOf(P)
        PROVE  n \in BuildNodes(now)
    <3>1. p \in Path \ P
      BY <1>5, <1>8, <1>9, <2>2
    <3> QED BY <1>7, <2>2, <3>1, RowsOfNodes
  <2>3. ASSUME NEW m \in NodeNames, Users(source, m) # {}, n = Node(source, Shared(m)),
               n.id \notin {k.id : k \in written}
        PROVE  n \in BuildNodes(now)
    <3>1. n.id = Shared(m) /\ n.id \in SharedNodes
      BY <1>10, <2>3, NamesOfNodes
    <3>2. HasNode(now, Shared(m))
      <4>1. ASSUME NEW l \in BuildLinks(now), l[1] = Shared(m) PROVE HasNode(now, Shared(m))
        <5>1. PICK k \in NodeNames : \E p \in Users(now, k) : l = <<Shared(k), <<p, now[p]>>>>
          BY <4>1, RowsOfLinks, NodesApart
        <5>2. k = m
          BY <4>1, <5>1, NodesApart
        <5> QED BY <5>1, <5>2 DEF HasNode
      <4>2. ASSUME NEW e \in r.edges, e.src = Shared(m) \/ e.dst = Shared(m) PROVE HasNode(now, Shared(m))
        <5>1. ~e.guess
          BY <1>4, <4>2, NodesApart DEF GuessesStand
        <5>2. e.path \in Present(now) /\ e \in FoundEdges(now, e.path)
          BY <1>4, <5>1 DEF EdgesAreFound
        <5> QED BY <4>2, <5>2, EdgeHasNodes
      <4>3. (\E l \in BuildLinks(now) : l[1] = Shared(m)) \/ Shared(m) \in Endpoints(r.edges)
        BY <1>1, <1>4, <3>1
      <4> QED BY <4>1, <4>2, <4>3 DEF Endpoints
    <3>3. Users(now, m) # {}
      <4>1. PICK k \in NodeNames : Shared(m) = Shared(k) /\ Users(now, k) # {}
        BY <3>2, NodesApart DEF HasNode
      <4> QED BY <4>1, NodesApart
    <3>4. Shared(m) \notin ids
      <4>1. PICK k \in BuildNodes(now) : k.id = Shared(m)
        BY <3>2, IdsOfNodes
      <4> QED BY <1>3, <2>3, <3>1, <4>1
    <3>5. Users(now, m) \cap P = {} /\ Users(source, m) \cap P = {}
      BY <1>2, <3>3, <3>4
    <3>6. Node(source, Shared(m)) = Node(now, Shared(m))
      BY <3>3, <3>5, NodeStays
    <3> QED BY <2>3, <3>3, <3>6, RowsOfNodes
  <2> QED BY <1>1, <2>1, <2>2, <2>3, RowsOfNodes
<1> QED BY <1>11, <1>12 DEF r

-----------------------------------------------------------------------------
(* Which paths are written *)

\* A row of graph_files is no missing row, and its signature is what is indexed.
LEMMA RowOfFile ==
  ASSUME NEW c \in Indexed, NEW p \in Path
  PROVE  /\ c[p] = None => BuildFiles(c)[p] = None
         /\ c[p] # None =>
              /\ BuildFiles(c)[p] = [hash |-> Digest[<<p, c[p]>>], input |-> c[p]]
              /\ BuildFiles(c)[p] # None
              /\ [BuildFiles(c)[p] EXCEPT !.input = None] = [hash |-> Digest[<<p, c[p]>>], input |-> None]
              /\ [BuildFiles(c)[p] EXCEPT !.input = None] # None
<1>1. CASE c[p] = None
  BY <1>1 DEF BuildFiles
<1>2. CASE c[p] # None
  <2>1. BuildFiles(c)[p] = [hash |-> Digest[<<p, c[p]>>], input |-> c[p]]
    BY <1>2 DEF BuildFiles
  <2>2. p \in Present(c)
    BY <1>2 DEF Present
  <2>3. <<p, c[p]>> \in DOMAIN Text /\ c[p] \in Version \cup {None}
    BY <2>2, TextOfPath
  <2>4. \A i \in Version \cup {None} : None # [hash |-> Digest[<<p, c[p]>>], input |-> i]
    BY <2>3, SnapshotAssumption
  <2> QED BY <1>2, <2>1, <2>3, <2>4
<1> QED BY <1>1, <1>2

\* A path that needs no update has the text and the row it had.
LEMMA NotRequired ==
  ASSUME NEW rows, NEW source \in Indexed, chunks \in Indexed, SaysFiles(rows, source),
         NEW p \in Path, p \notin Required(rows)
  PROVE  source[p] = chunks[p] /\ rows.files[p] = BuildFiles(chunks)[p]
<1>1. \/ rows.files[p] = BuildFiles(source)[p]
      \/ source[p] # None /\ rows.files[p] = [BuildFiles(source)[p] EXCEPT !.input = None]
  BY DEF SaysFiles
<1>2. CASE chunks[p] = None
  <2>1. rows.files[p] = None
    BY <1>2 DEF Required, Present
  <2>2. source[p] = None
    BY <1>1, <2>1, RowOfFile
  <2> QED BY <1>2, <2>1, <2>2, RowOfFile
<1>3. CASE chunks[p] # None
  <2>1. rows.files[p] # None /\ rows.files[p].input = chunks[p]
    BY <1>3 DEF Required, Present
  <2>2. source[p] # None
    BY <1>1, <2>1, RowOfFile
  <2> DEFINE unsigned == [BuildFiles(source)[p] EXCEPT !.input = None]
  <2>3. rows.files[p] = BuildFiles(source)[p]
    <3>1. unsigned.input = None
      <4>1. unsigned = [hash |-> Digest[<<p, source[p]>>], input |-> None]
        BY <2>2, RowOfFile
      <4> HIDE DEF unsigned
      <4> QED BY <4>1
    <3>2. rows.files[p] = BuildFiles(source)[p] \/ rows.files[p] = unsigned
      BY <1>1
    <3> HIDE DEF unsigned
    <3> QED BY <1>3, <2>1, <3>1, <3>2
  <2>4. source[p] = chunks[p]
    <3>1. rows.files[p] = [hash |-> Digest[<<p, source[p]>>], input |-> source[p]]
      BY <2>2, <2>3, RowOfFile
    <3>2. rows.files[p].input = source[p]
      BY <3>1
    <3> QED BY <2>1, <3>2
  <2>5. BuildFiles(source)[p] = BuildFiles(chunks)[p]
    BY <1>3, <2>2, <2>4, RowOfFile
  <2> QED BY <2>3, <2>4, <2>5
<1> QED BY <1>2, <1>3

\* So the chunks are those of the artifact where no path needs one.
LEMMA NothingRequired ==
  ASSUME NEW rows, NEW source \in Indexed, chunks \in Indexed, SaysFiles(rows, source),
         Required(rows) = {}
  PROVE  source = chunks /\ \A p \in Path : rows.files[p] = BuildFiles(chunks)[p]
<1>1. \A p \in Path : source[p] = chunks[p] /\ rows.files[p] = BuildFiles(chunks)[p]
  BY NotRequired
<1>2. source \in [Path -> Version \cup {None}] /\ chunks \in [Path -> Version \cup {None}]
  BY DEF Indexed
<1> QED BY <1>1, <1>2

\* Rows that get a signature are those of the chunks of now: the fingerprint holds
\* the chunk of the path's node.
LEMMA SignableIsCurrent ==
  ASSUME NEW rows, NEW source \in Indexed, chunks \in Indexed, rows.nodes = BuildNodes(source),
         NEW p \in Signable(rows)
  PROVE  p \in Path /\ source[p] = chunks[p] /\ chunks[p] # None
<1>1. p \in Present(chunks) /\ p \in Path
  BY DEF Signable, Unsigned, Present
<1> DEFINE n == Node(chunks, Own(p))
<1>2. n \in BuildNodes(chunks)
  BY <1>1, RowsOfNodes
<1>3. n.id = Own(p) /\ n.path = p /\ n.chunk = <<p, chunks[p]>>
  BY <1>1, NodeOfPath
<1> HIDE DEF n
<1>4. {m \in BuildNodes(chunks) : m.path = p} = {m \in rows.nodes : m.path = p}
  <2>1. Fingerprint(Snapshot(chunks), p) = Fingerprint(rows, p)
    BY DEF Signable
  <2>2. Fingerprint(Snapshot(chunks), p)[2] = {m \in BuildNodes(chunks) : m.path = p}
    BY DEF Fingerprint, Snapshot
  <2>3. Fingerprint(rows, p)[2] = {m \in rows.nodes : m.path = p}
    BY DEF Fingerprint
  <2> QED BY <2>1, <2>2, <2>3
<1>5. n \in BuildNodes(source)
  BY <1>2, <1>3, <1>4
<1>6. ASSUME NEW q \in Present(source), n = Node(source, Own(q)) PROVE source[p] = chunks[p]
  <2>1. q \in Path
    BY DEF Present
  <2>2. n.id = Own(q) /\ n.chunk = <<q, source[q]>>
    BY <1>6, <2>1, NodeOfPath
  <2> QED BY <1>3, <2>2, NodesApart
<1>7. ASSUME NEW m \in NodeNames, Users(source, m) # {}, n = Node(source, Shared(m)) PROVE FALSE
  BY <1>3, <1>7, NodeOfName, NodesApart
<1> QED BY <1>1, <1>5, <1>6, <1>7, RowsOfNodes DEF Present

\* Signatures that are filled in leave the rows what they are.
LEMMA SignedRows ==
  ASSUME NEW rows, NEW source \in Indexed, chunks \in Indexed, IsRows(rows), SaysFiles(rows, source),
         rows.nodes = BuildNodes(source)
  PROVE  /\ IsRows(Signed(rows)) /\ SaysFiles(Signed(rows), source)
         /\ Signed(rows).nodes = rows.nodes /\ Signed(rows).links = rows.links
         /\ Signed(rows).edges = rows.edges
<1> DEFINE files == [p \in Path |-> IF p \in Signable(rows) THEN [rows.files[p] EXCEPT !.input = chunks[p]]
                                    ELSE rows.files[p]]
<1>1. Signed(rows) = [rows EXCEPT !.files = files]
  BY Zenon DEF Signed
<1>2. ASSUME NEW p \in Path
      PROVE  \/ files[p] = BuildFiles(source)[p]
             \/ source[p] # None /\ files[p] = [BuildFiles(source)[p] EXCEPT !.input = None]
  <2>1. \/ rows.files[p] = BuildFiles(source)[p]
        \/ source[p] # None /\ rows.files[p] = [BuildFiles(source)[p] EXCEPT !.input = None]
    BY DEF SaysFiles
  <2>2. CASE p \notin Signable(rows)
    BY <2>1, <2>2
  <2>3. CASE p \in Signable(rows)
    <3>1. source[p] = chunks[p] /\ source[p] # None
      BY <2>3, SignableIsCurrent
    <3>2. \E i : rows.files[p] = [hash |-> Digest[<<p, source[p]>>], input |-> i]
      BY <2>1, <3>1, RowOfFile
    <3>3. files[p] = [rows.files[p] EXCEPT !.input = source[p]]
      BY <2>3, <3>1
    <3>4. files[p] = [hash |-> Digest[<<p, source[p]>>], input |-> source[p]]
      <4> HIDE DEF files
      <4> QED BY <3>2, <3>3
    <3>5. files[p] = BuildFiles(source)[p]
      BY <3>1, <3>4, RowOfFile
    <3> QED BY <3>5
  <2> QED BY <2>2, <2>3
<1> HIDE DEF files
<1>3. Signed(rows) = [files |-> files, nodes |-> rows.nodes, links |-> rows.links, edges |-> rows.edges]
  BY <1>1 DEF IsRows
<1>4. /\ Signed(rows).files = files
      /\ Signed(rows).nodes = rows.nodes /\ Signed(rows).links = rows.links
      /\ Signed(rows).edges = rows.edges
  BY <1>3
<1>5. IsRows(Signed(rows))
  BY <1>3 DEF IsRows
<1>6. SaysFiles(Signed(rows), source)
  BY <1>2, <1>4 DEF SaysFiles
<1> QED BY <1>4, <1>5, <1>6

-----------------------------------------------------------------------------
(* What a commit leaves *)

\* Rows that are the truth about what was indexed.
Sound(rows, source) ==
  /\ source \in Indexed /\ IsRows(rows)
  /\ Says(rows, source)
  /\ EdgesAreFound(rows, source) /\ GuessesStand(rows, source)

\* The firm edges of a build are all there, but for those of some paths.
Kept(rows, source, lost) ==
  \A e \in Firm(BuildEdges(source)) : e \in rows.edges \/ e.path \in lost

\* The rows of a build are.
LEMMA SnapshotIsSound ==
  ASSUME NEW c \in Indexed
  PROVE  Sound(Snapshot(c), c) /\ \A lost : Kept(Snapshot(c), c, lost)
<1> DEFINE rows == Snapshot(c)
<1>1. rows = [files |-> BuildFiles(c), nodes |-> BuildNodes(c), links |-> BuildLinks(c), edges |-> BuildEdges(c)]
  BY DEF Snapshot
<1> HIDE DEF rows
<1>2. /\ IsRows(rows) /\ rows.files = BuildFiles(c) /\ rows.nodes = BuildNodes(c)
      /\ rows.links = BuildLinks(c) /\ rows.edges = BuildEdges(c)
  BY <1>1 DEF IsRows
<1>3. Says(rows, c)
  BY <1>2 DEF Says, SaysFiles
<1>4. ASSUME NEW e \in BuildEdges(c) PROVE e.path \in Present(c) /\ e \in FoundEdges(c, e.path)
  <2>1. PICK p \in Present(c) : e \in FoundEdges(c, p)
    BY DEF BuildEdges, Extracted
  <2> QED BY <2>1, EdgeOfFile
<1>5. ASSUME NEW e \in BuildEdges(c), e.guess PROVE e.src = Own(e.path) /\ \E q \in Present(c) : e.dst = Own(q)
  <2>1. PICK q \in Present(c) : e = Edge(Own(e.path), Own(q), e.path, TRUE)
    BY <1>4, <1>5, KindsOfEdges DEF Guesses
  <2>2. e.src = Own(e.path) /\ e.dst = Own(q)
    BY <2>1 DEF Edge
  <2> QED BY <2>2
<1>6. EdgesAreFound(rows, c) /\ GuessesStand(rows, c)
  BY <1>2, <1>4, <1>5 DEF EdgesAreFound, GuessesStand
<1>7. \A lost : Kept(rows, c, lost)
  BY <1>2 DEF Kept, Firm
<1> QED BY <1>2, <1>3, <1>6, <1>7 DEF Sound, rows

\* What an update is about are paths, and all that have changed are among them.
LEMMA AffectedPaths ==
  ASSUME chunks \in Indexed, Sound(graph.rows, graph.source), job.call \in Requests
  PROVE  /\ Discovered \subseteq Affected /\ Affected \subseteq Path
         /\ Agree(graph.source, chunks, Discovered) /\ Agree(graph.source, chunks, Affected)
         /\ \A p \in Path \ Affected : graph.rows.files[p] = BuildFiles(chunks)[p]
<1>1. Discovered \subseteq Path
  <2>1. job.call.asked \subseteq Path
    BY StoreAssumption
  <2>2. Required(graph.rows) \subseteq Path
    BY DEF Required, Present
  <2> QED BY <2>1, <2>2 DEF Discovered
<1>2. ReversePaths \subseteq Path
  <2>1. \A e \in graph.rows.edges : e.path \in Present(graph.source)
    BY DEF Sound, EdgesAreFound, GuessesStand
  <2> QED BY <2>1 DEF ReversePaths, Dependents, Present
<1>3. NewReversePaths \subseteq Path
  <2>1. Sound(Snapshot(chunks), chunks)
    BY SnapshotIsSound
  <2>2. \A e \in Snapshot(chunks).edges : e.path \in Present(chunks)
    BY <2>1 DEF Sound, EdgesAreFound, GuessesStand
  <2> QED BY <2>2 DEF NewReversePaths, Dependents, Present
<1>4. Discovered \subseteq Affected /\ Affected \subseteq Path
  BY <1>1, <1>2, <1>3 DEF Affected
<1>5. ASSUME NEW p \in Path \ Discovered
      PROVE  graph.source[p] = chunks[p] /\ graph.rows.files[p] = BuildFiles(chunks)[p]
  <2>1. p \notin Required(graph.rows)
    BY <1>5 DEF Discovered
  <2>2. graph.source \in Indexed /\ SaysFiles(graph.rows, graph.source)
    BY DEF Sound, Says
  <2> QED BY <2>1, <2>2, NotRequired
<1> QED BY <1>4, <1>5 DEF Agree

\* An edge of another path leads neither before nor now to what the update is about.
LEMMA UnaffectedEdges ==
  ASSUME chunks \in Indexed, Sound(graph.rows, graph.source), job.call \in Requests
  PROVE  /\ \A e \in graph.rows.edges : e.path \notin Affected => e.dst \notin Reach(graph.source, Discovered)
         /\ \A e \in BuildEdges(chunks) :
              e.path \notin Affected => /\ e.dst \notin Reach(chunks, Discovered)
                                        /\ ~Touches(e, OwnOf(Discovered \cup ReversePaths))
<1>1. Discovered \in SUBSET Path /\ Discovered \cup ReversePaths \in SUBSET Path
  BY AffectedPaths DEF Affected
<1>2. Reach(graph.source, Discovered) \subseteq OwnOf(Discovered) \cup SharedBy(graph.rows, Discovered)
  BY <1>1, SharedOfPaths DEF Sound, Says
<1>3. ASSUME NEW e \in graph.rows.edges, e.path \notin Affected, e.dst \in Reach(graph.source, Discovered)
      PROVE  FALSE
  <2>1. Touches(e, OwnOf(Discovered) \cup SharedBy(graph.rows, Discovered))
    BY <1>2, <1>3 DEF Touches
  <2>2. e.path \in ReversePaths \cup Discovered
    BY <2>1 DEF ReversePaths, Dependents
  <2> QED BY <1>3, <2>2 DEF Affected
<1> DEFINE new == Snapshot(chunks)
           about == Discovered \cup ReversePaths
<1>4. new.nodes = BuildNodes(chunks) /\ new.links = BuildLinks(chunks) /\ new.edges = BuildEdges(chunks)
  BY DEF Snapshot
<1>5. NewReversePaths = Dependents(new, about)
  BY DEF NewReversePaths
<1> HIDE DEF new
<1>6. Reach(chunks, about) \subseteq OwnOf(about) \cup SharedBy(new, about)
  BY <1>1, <1>4, SharedOfPaths
<1>7. Reach(chunks, Discovered) \subseteq Reach(chunks, about)
  BY DEF Reach
<1>8. ASSUME NEW e \in BuildEdges(chunks), e.path \notin Affected PROVE ~Touches(e, OwnOf(about) \cup SharedBy(new, about))
  <2>1. e.path \notin Dependents(new, about) \cup about
    BY <1>5, <1>8 DEF Affected
  <2> QED BY <1>4, <2>1 DEF Dependents
<1>9. ASSUME NEW e \in BuildEdges(chunks), e.path \notin Affected
      PROVE  e.dst \notin Reach(chunks, Discovered) /\ ~Touches(e, OwnOf(about))
  <2>1. ~Touches(e, OwnOf(about) \cup SharedBy(new, about))
    BY <1>8, <1>9
  <2> HIDE DEF about
  <2> QED BY <1>6, <1>7, <2>1 DEF Touches
<1> QED BY <1>3, <1>9

\* So what a commit leaves is the truth about the chunks of now.
LEMMA CommitIsSound ==
  ASSUME chunks \in Indexed, Sound(graph.rows, graph.source), job.call \in Requests
  PROVE  LET rows == Replaced(graph.rows, Snapshot(chunks), Affected)
         IN  /\ Sound(rows, chunks)
             /\ \A p \in Path : rows.files[p] = BuildFiles(chunks)[p]
<1> DEFINE rows == Replaced(graph.rows, Snapshot(chunks), Affected)
<1>1. /\ graph.source \in Indexed /\ graph.rows.nodes = BuildNodes(graph.source)
      /\ graph.rows.links = BuildLinks(graph.source)
      /\ EdgesAreFound(graph.rows, graph.source) /\ GuessesStand(graph.rows, graph.source)
  BY DEF Sound, Says
<1>2. /\ Affected \in SUBSET Path /\ Discovered \subseteq Affected
      /\ Agree(graph.source, chunks, Affected) /\ Agree(graph.source, chunks, Discovered)
  BY AffectedPaths
<1>3. ASSUME NEW e \in graph.rows.edges, ~e.guess, e.path \notin Affected
      PROVE  e.path \in Present(chunks) /\ e \in FoundEdges(chunks, e.path)
  <2>1. e.path \in Present(graph.source) /\ e \in FoundEdges(graph.source, e.path)
    BY <1>1, <1>3 DEF EdgesAreFound
  <2>2. e.path \in Path \ Discovered
    BY <1>2, <1>3, <2>1 DEF Present
  <2>3. e.dst \notin Reach(graph.source, Discovered)
    BY <1>3, UnaffectedEdges
  <2>4. ~LeadsInto(chunks, e.path, Discovered)
    BY <1>3, UnaffectedEdges DEF LeadsInto
  <2>5. e.path \in Present(chunks)
    BY <1>2, <2>1, <2>2, SameFile
  <2> QED BY <1>1, <1>2, <1>3, <2>1, <2>2, <2>3, <2>4, <2>5, EdgeCarriesOver
<1>4. GuessesStand(rows, chunks) /\ EdgesAreFound(rows, chunks)
  BY <1>1, <1>2, <1>3, ReplacedEdges
<1>5. rows.links = BuildLinks(chunks)
  BY <1>1, <1>2, ReplacedLinks
<1>6. rows.nodes = BuildNodes(chunks)
  BY <1>1, <1>2, <1>4, <1>5, ReplacedNodes
<1>7. ASSUME NEW p \in Path PROVE rows.files[p] = BuildFiles(chunks)[p]
  <2>1. rows.files = LeftFiles(graph.rows, chunks, Affected)
    BY ReplacedParts
  <2> HIDE DEF rows
  <2>2. rows.files[p] = IF p \in Affected THEN BuildFiles(chunks)[p] ELSE graph.rows.files[p]
    BY <2>1 DEF LeftFiles
  <2> QED BY <2>2, AffectedPaths
<1>8. IsRows(rows)
  BY ReplacedParts
<1> HIDE DEF rows
<1>9. Says(rows, chunks)
  BY <1>5, <1>6, <1>7 DEF Says, SaysFiles
<1> QED BY <1>4, <1>7, <1>8, <1>9 DEF Sound, rows

\* And what is lost is what the observer says.
LEMMA CommitKeeps ==
  ASSUME chunks \in Indexed, Sound(graph.rows, graph.source), job.call \in Requests,
         Kept(graph.rows, graph.source, lossy)
  PROVE  Kept(Replaced(graph.rows, Snapshot(chunks), Affected), chunks,
              (lossy \ Affected)
                \cup {e.path : e \in Orphaned(Snapshot(chunks)) \cup Uncovered(Snapshot(chunks))})
<1> DEFINE rows == Replaced(graph.rows, Snapshot(chunks), Affected)
           lost == (lossy \ Affected)
                     \cup {e.path : e \in Orphaned(Snapshot(chunks)) \cup Uncovered(Snapshot(chunks))}
<1>1. rows.edges = LeftEdges(graph.rows, chunks, Affected)
  BY ReplacedParts
<1>2. Snapshot(chunks).edges = BuildEdges(chunks)
  BY DEF Snapshot
<1> SUFFICES ASSUME NEW e \in Firm(BuildEdges(chunks)), e.path \notin lost PROVE e \in rows.edges
  BY DEF Kept
<1>3. e \in BuildEdges(chunks) /\ ~e.guess
  BY DEF Firm
<1>4. e.path \in Present(chunks) /\ e \in FoundEdges(chunks, e.path)
  <2>1. PICK p \in Present(chunks) : e \in FoundEdges(chunks, p)
    BY <1>3 DEF BuildEdges, Extracted
  <2> QED BY <2>1, EdgeOfFile
<1>5. e \notin Orphaned(Snapshot(chunks)) /\ e \notin Uncovered(Snapshot(chunks))
  OBVIOUS
<1>6. e.path \notin lossy \ Affected
  OBVIOUS
<1> HIDE DEF rows, lost
<1>7. CASE e.path \in Affected
  BY <1>1, <1>3, <1>7 DEF LeftEdges, Fresh
<1>8. CASE e.path \notin Affected
  <2>1. /\ Discovered \subseteq Affected /\ graph.source \in Indexed
        /\ Agree(chunks, graph.source, Discovered)
    BY AffectedPaths DEF Agree, Sound
  <2>2. e.path \in Path \ Discovered /\ e.path \notin lossy
    BY <1>4, <1>6, <1>8, <2>1 DEF Present
  <2>3. e.dst \notin Reach(chunks, Discovered) /\ ~Touches(e, OwnOf(Discovered \cup ReversePaths))
    BY <1>3, <1>8, UnaffectedEdges
  <2>4. ~LeadsInto(graph.source, e.path, Discovered)
    <3>1. ASSUME NEW f \in BuildEdges(graph.source), f.path = e.path, ~f.guess,
                 f.dst \in Reach(graph.source, Discovered)
          PROVE  FALSE
      <4>1. f \in graph.rows.edges
        BY <2>2, <3>1 DEF Kept, Firm
      <4> QED BY <1>8, <3>1, <4>1, UnaffectedEdges
    <3> QED BY <3>1 DEF LeadsInto
  <2>5. e \in FoundEdges(graph.source, e.path)
    BY <1>3, <1>4, <2>1, <2>2, <2>3, <2>4, EdgeCarriesOver
  <2>6. e \in BuildEdges(graph.source)
    <3>1. e.path \in Present(graph.source)
      BY <1>4, <2>1, <2>2, SameFile
    <3>2. e \in Extracted(graph.source)
      BY <2>5, <3>1 DEF Extracted
    <3> QED BY <1>2, <1>3, <1>5, <1>8, <3>2 DEF Uncovered
  <2>7. e \in graph.rows.edges
    BY <1>3, <2>2, <2>6 DEF Kept, Firm
  <2>8. ~Touches(e, OwnOf(Affected))
    <3>1. ~Touches(e, OwnOf(NewReversePaths))
      BY <1>2, <1>3, <1>5, <1>8 DEF Orphaned
    <3> QED BY <2>3, <3>1 DEF Touches, OwnOf, Affected
  <2>9. ASSUME NEW f \in Fresh(chunks, Affected), SameId(e, f) PROVE FALSE
    <3>1. f \in BuildEdges(chunks) /\ f.path \in Affected
      BY DEF Fresh
    <3>2. f.path <= e.path /\ e.path <= f.path
      BY <1>3, <2>9, <3>1 DEF BuildEdges, SameId
    <3>3. e.path \in Nat /\ f.path \in Nat
      BY <2>2, <3>1, AffectedPaths, SnapshotAssumption
    <3> QED BY <1>8, <3>1, <3>2, <3>3
  <2> QED BY <1>1, <1>8, <2>7, <2>8, <2>9 DEF LeftEdges
<1> QED BY <1>7, <1>8

-----------------------------------------------------------------------------
(* The inductive invariant of the rest *)

Values ==
  /\ chunks \in Indexed
  /\ settled \in BOOLEAN
  /\ memo # None => memo.source \in Indexed
  /\ answer \in Answers

\* The operations there are; an update knows its request.
JobOK ==
  \/ job = Idle
  \/ job = [at |-> "building"]
  \/ \E at \in {"discovering", "planning"}, request \in Requests : job = [at |-> at, call |-> request]

\* Nothing is answered before the operation ends.
NoAnswerYet == job # Idle => answer = "none"

\* The artifact is the truth about what it names, whether it is current or not.
ArtifactIsSound == Built => Sound(graph.rows, graph.source) /\ Kept(graph.rows, graph.source, lossy)

GraphInv == ReadyInv /\ Values /\ JobOK /\ NoAnswerYet /\ ArtifactIsSound /\ AnswersAreTrue

\* What operations there are, by their state.
LEMMA JobFacts ==
  ASSUME JobOK
  PROVE  /\ job.at \in {"idle", "building", "discovering", "planning"}
         /\ job.at = "building" => job # Idle
         /\ job.at \in {"discovering", "planning"} => job # Idle /\ job.call \in Requests
         /\ job.at = "discovering" =>
              \E request \in Requests : [job EXCEPT !.at = "planning"] = [at |-> "planning", call |-> request]
  BY DEF JobOK, Idle

\* Whatever leaves rows and source alone leaves them sound.
LEMMA SoundStays ==
  ASSUME ArtifactIsSound, lossy' = lossy,
         Built' => Built /\ graph'.rows = graph.rows /\ graph'.source = graph.source
  PROVE  ArtifactIsSound'
  BY DEF ArtifactIsSound

\* Where nothing is answered, no answer is wrong.
LEMMA NoAnswerIsWrong ==
  ASSUME answer' \in {"none", "blocked", "bounds"}
  PROVE  AnswersAreTrue'
  BY DEF AnswersAreTrue

\* An artifact that is written has the rows and the source that are written.
LEMMA ArtifactFields ==
  ASSUME NEW rows, NEW source
  PROVE  LET a == Artifact(rows, source)
         IN  a.at = "built" /\ a.rows = rows /\ a.source = source
  BY DEF Artifact

\* The invariant holds of a missing artifact and of one from before there were signatures.
LEMMA GraphInit == Init => GraphInv
<1> SUFFICES ASSUME Init PROVE GraphInv
  OBVIOUS
<1>1. ReadyInv
  BY ReadyInit
<1>2. Values
  <2>1. [p \in Path |-> None] \in Indexed
    BY DEF Indexed
  <2> QED BY <2>1, StoreAssumption DEF Init, Values, Answers
<1>3. JobOK /\ NoAnswerYet /\ AnswersAreTrue
  BY DEF Init, JobOK, NoAnswerYet, AnswersAreTrue
<1>4. ArtifactIsSound
  <2>1. CASE graph = Missing
    BY <2>1 DEF Missing, ArtifactIsSound, Built
  <2>2. ASSUME NEW old \in Legacy,
               graph = [Artifact([Snapshot(old) EXCEPT !.files =
                                    [p \in Path |-> IF @[p] = None THEN None ELSE [@[p] EXCEPT !.input = None]]],
                                  old) EXCEPT !.revision = FALSE]
        PROVE  ArtifactIsSound
    <3> DEFINE new == Snapshot(old)
               files == [p \in Path |-> IF new.files[p] = None THEN None ELSE [new.files[p] EXCEPT !.input = None]]
               rows == [new EXCEPT !.files = files]
    <3>1. old \in Indexed
      BY StoreAssumption
    <3>2. graph = [Artifact(rows, old) EXCEPT !.revision = FALSE]
      BY <2>2, Zenon
    <3>3. new = [files |-> BuildFiles(old), nodes |-> BuildNodes(old), links |-> BuildLinks(old), edges |-> BuildEdges(old)]
      BY DEF Snapshot
    <3>4. Sound(new, old) /\ Kept(new, old, {})
      BY <3>1, SnapshotIsSound
    <3>5. ASSUME NEW p \in Path
          PROVE  \/ files[p] = BuildFiles(old)[p]
                 \/ old[p] # None /\ files[p] = [BuildFiles(old)[p] EXCEPT !.input = None]
      <4> HIDE DEF new
      <4>1. new.files = BuildFiles(old)
        BY <3>3
      <4> QED BY <3>1, <4>1, RowOfFile
    <3> HIDE DEF files, new
    <3>6. /\ rows = [files |-> files, nodes |-> new.nodes, links |-> new.links, edges |-> new.edges]
      BY <3>3
    <3> HIDE DEF rows
    <3>7. /\ rows.files = files /\ rows.nodes = new.nodes /\ rows.links = new.links /\ rows.edges = new.edges
          /\ IsRows(rows)
      BY <3>6 DEF IsRows
    <3>8. Sound(rows, old)
      BY <3>1, <3>4, <3>5, <3>7 DEF Sound, Says, SaysFiles, EdgesAreFound, GuessesStand
    <3>9. Kept(rows, old, {})
      BY <3>4, <3>7 DEF Kept
    <3>10. graph.rows = rows /\ graph.source = old
      BY <3>2 DEF Artifact
    <3>11. lossy = {}
      BY DEF Init
    <3> QED BY <3>8, <3>9, <3>10, <3>11 DEF ArtifactIsSound
  <2> QED BY <2>1, <2>2 DEF Init
<1> QED BY <1>1, <1>2, <1>3, <1>4 DEF GraphInv

\* And every step keeps it.
LEMMA GraphStep == GraphInv /\ [Next]_vars => GraphInv'
<1> SUFFICES ASSUME GraphInv, [Next]_vars PROVE GraphInv'
  OBVIOUS
<1> USE DEF GraphInv
<1>0. ReadyInv'
  BY ReadyStep
<1>1. GraphOK
  BY DEF ReadyInv
<1>2. ASSUME NEW p \in Path, NEW v \in VersionsOf(p) \cup {None}, IndexPath(p, v) PROVE GraphInv'
  <2>1. /\ chunks' = [chunks EXCEPT ![p] = v] /\ settled' = FALSE /\ answer' = "none"
        /\ UNCHANGED <<graph, job, memo, lossy>>
    BY <1>2 DEF IndexPath
  <2>2. chunks' \in Indexed
    <3>1. v \in Version \cup {None}
      BY DEF VersionsOf
    <3> QED BY <2>1, <3>1 DEF Values, Indexed
  <2>3. Values' /\ JobOK' /\ NoAnswerYet'
    BY <2>1, <2>2 DEF Values, JobOK, NoAnswerYet, Answers
  <2>4. ArtifactIsSound' /\ AnswersAreTrue'
    BY <2>1, SoundStays, NoAnswerIsWrong DEF Built
  <2> QED BY <1>0, <2>3, <2>4
<1>3. ASSUME NEW field \in {"revision", "contract", "extractors"}, graph' = Outdated(graph, field),
             job' = job \/ job' = Idle, answer' = "none", settled' \in BOOLEAN, memo' = None,
             UNCHANGED <<chunks, lossy>>
      PROVE  GraphInv'
  <2>1. Built' => Built /\ graph'.rows = graph.rows /\ graph'.source = graph.source
    BY <1>1, <1>3, OutdatedArtifact
  <2>2. ArtifactIsSound' /\ AnswersAreTrue'
    BY <1>3, <2>1, SoundStays, NoAnswerIsWrong
  <2>3. Values' /\ JobOK' /\ NoAnswerYet'
    BY <1>3 DEF Values, JobOK, NoAnswerYet, Answers
  <2> QED BY <1>0, <2>2, <2>3
<1>4. CASE RecordRevision
  BY <1>3, <1>4 DEF RecordRevision
<1>5. CASE ChangeContract
  <2>1. settled' \in BOOLEAN
    BY <1>5 DEF ChangeContract, Values
  <2> QED BY <1>3, <1>5, <2>1 DEF ChangeContract
<1>6. ASSUME NEW upgraded \in BOOLEAN, Restart(upgraded) PROVE GraphInv'
  <2>1. /\ job' = Idle /\ memo' = None /\ answer' = "none" /\ settled' = settled
        /\ UNCHANGED <<chunks, lossy>>
    BY <1>6 DEF Restart
  <2>2. CASE graph' = Outdated(graph, "extractors")
    BY <1>3, <2>1, <2>2 DEF Values
  <2>3. CASE graph' = graph
    <3>1. ArtifactIsSound' /\ AnswersAreTrue'
      BY <2>1, <2>3, SoundStays, NoAnswerIsWrong DEF Built
    <3>2. Values' /\ JobOK' /\ NoAnswerYet'
      BY <2>1 DEF Values, JobOK, NoAnswerYet, Answers
    <3> QED BY <1>0, <3>1, <3>2
  <2> QED BY <1>6, <2>2, <2>3 DEF Restart
<1>7. ASSUME NEW rebuild \in BOOLEAN, BuildBegins(rebuild) PROVE GraphInv'
  <2>1. /\ graph' = Missing \/ graph' = graph
        /\ job' = [at |-> "building"] /\ answer' = "none" /\ UNCHANGED <<chunks, settled, memo, lossy>>
    BY <1>7 DEF BuildBegins
  <2>2. Built' => Built /\ graph'.rows = graph.rows /\ graph'.source = graph.source
    BY <2>1 DEF Built, Missing
  <2>3. ArtifactIsSound' /\ AnswersAreTrue'
    BY <2>1, <2>2, SoundStays, NoAnswerIsWrong
  <2>4. Values' /\ JobOK' /\ NoAnswerYet'
    BY <2>1 DEF Values, JobOK, NoAnswerYet, Answers
  <2> QED BY <1>0, <2>3, <2>4
<1>8. CASE BuildOpens
  <2>1. graph' = Hollow /\ job.at = "building" /\ UNCHANGED <<chunks, settled, job, memo, answer, lossy>>
    BY <1>8 DEF BuildOpens
  <2>2. ~Built'
    BY <2>1 DEF Built, Hollow
  <2>3. answer' = "none"
    BY <2>1, JobFacts DEF NoAnswerYet
  <2>4. ArtifactIsSound' /\ AnswersAreTrue'
    BY <2>2, <2>3, NoAnswerIsWrong DEF ArtifactIsSound
  <2>5. Values' /\ JobOK' /\ NoAnswerYet'
    BY <2>1 DEF Values, JobOK, NoAnswerYet
  <2> QED BY <1>0, <2>4, <2>5
<1>9. CASE BuildReplaces
  <2>1. /\ graph' = Artifact(Snapshot(chunks), chunks)
        /\ job' = Idle /\ answer' = "built" /\ lossy' = {} /\ UNCHANGED <<chunks, settled, memo>>
    BY <1>9 DEF BuildReplaces
  <2>2. graph'.at = "built" /\ graph'.rows = Snapshot(chunks) /\ graph'.source = chunks
    BY <2>1, ArtifactFields
  <2>3. Sound(Snapshot(chunks), chunks) /\ Kept(Snapshot(chunks), chunks, {})
    BY SnapshotIsSound DEF Values
  <2>4. Snapshot(chunks).files = BuildFiles(chunks)
    BY DEF Snapshot
  <2>5. ArtifactIsSound'
    BY <2>1, <2>2, <2>3 DEF ArtifactIsSound
  <2>6. AnswersAreTrue'
    BY <2>1, <2>2, <2>3, <2>4 DEF AnswersAreTrue, Built, Sound
  <2>7. Values' /\ JobOK' /\ NoAnswerYet'
    BY <2>1 DEF Values, JobOK, NoAnswerYet, Answers
  <2> QED BY <1>0, <2>5, <2>6, <2>7
<1>10. CASE UpdateRefused
  <2>1. answer' = "blocked" /\ job = Idle /\ UNCHANGED <<chunks, settled, graph, job, memo, lossy>>
    BY <1>10 DEF UpdateRefused
  <2>2. ArtifactIsSound' /\ AnswersAreTrue'
    BY <2>1, SoundStays, NoAnswerIsWrong DEF Built
  <2>3. Values' /\ JobOK' /\ NoAnswerYet'
    BY <2>1 DEF Values, JobOK, NoAnswerYet, Answers
  <2> QED BY <1>0, <2>2, <2>3
<1>11. ASSUME NEW request \in Requests, UpdateBegins(request) PROVE GraphInv'
  <2>1. /\ job' = [at |-> "discovering", call |-> request] /\ answer' = "none"
        /\ UNCHANGED <<chunks, settled, graph, memo, lossy>>
    BY <1>11 DEF UpdateBegins
  <2>2. ArtifactIsSound' /\ AnswersAreTrue'
    BY <2>1, SoundStays, NoAnswerIsWrong DEF Built
  <2>3. Values' /\ JobOK' /\ NoAnswerYet'
    BY <2>1 DEF Values, JobOK, NoAnswerYet, Answers
  <2> QED BY <1>0, <2>2, <2>3
<1>12. CASE UpdateSigns
  <2>1. /\ graph' = [graph EXCEPT !.rows = Signed(graph.rows)]
        /\ job' = [job EXCEPT !.at = "planning"] /\ job.at = "discovering"
        /\ UNCHANGED <<chunks, settled, memo, answer, lossy>>
    BY <1>12 DEF UpdateSigns
  <2>2. Built /\ answer = "none"
    BY <2>1, JobFacts DEF ReadyInv, UpdatesHaveArtifact, NoAnswerYet
  <2>3. Whole(graph)
    BY <1>1, <2>2 DEF GraphOK, Built, Missing, Hollow
  <2>4. graph'.rows = Signed(graph.rows) /\ graph'.source = graph.source
    <3> DEFINE signed == Signed(graph.rows)
    <3> HIDE DEF signed
    <3>1. graph' = [graph EXCEPT !.rows = signed]
      BY <2>1 DEF signed
    <3>2. graph'.rows = signed /\ graph'.source = graph.source
      BY <2>3, <3>1 DEF Whole
    <3> QED BY <3>2 DEF signed
  <2>5. Sound(graph.rows, graph.source) /\ Kept(graph.rows, graph.source, lossy)
    BY <2>2 DEF ArtifactIsSound
  <2>6. /\ IsRows(graph'.rows) /\ SaysFiles(graph'.rows, graph.source)
        /\ graph'.rows.nodes = graph.rows.nodes /\ graph'.rows.links = graph.rows.links
        /\ graph'.rows.edges = graph.rows.edges
    BY <2>4, <2>5, SignedRows DEF Sound, Says, Values
  <2>7. Sound(graph'.rows, graph'.source)
    BY <2>4, <2>5, <2>6 DEF Sound, Says, EdgesAreFound, GuessesStand
  <2>8. Kept(graph'.rows, graph'.source, lossy')
    BY <2>1, <2>4, <2>5, <2>6 DEF Kept
  <2>9. ArtifactIsSound' /\ AnswersAreTrue'
    BY <2>1, <2>2, <2>7, <2>8, NoAnswerIsWrong DEF ArtifactIsSound
  <2>10. Values' /\ NoAnswerYet'
    BY <2>1, <2>2 DEF Values, NoAnswerYet
  <2>11. JobOK'
    BY <2>1, JobFacts DEF JobOK
  <2> QED BY <1>0, <2>9, <2>10, <2>11
<1>13. ASSUME NEW result, Finish(result), result \in Answers, UNCHANGED <<chunks, settled, graph, memo, lossy>>,
              AnswersAreTrue'
       PROVE  GraphInv'
  <2>1. ArtifactIsSound'
    BY <1>13, SoundStays DEF Built
  <2>2. Values' /\ JobOK' /\ NoAnswerYet'
    BY <1>13 DEF Values, JobOK, NoAnswerYet, Finish
  <2> QED BY <1>0, <1>13, <2>1, <2>2
<1>14. CASE UpdateStops
  <2>1. Finish("bounds") /\ UNCHANGED <<chunks, settled, graph, memo, lossy>>
    BY <1>14 DEF UpdateStops
  <2>2. AnswersAreTrue'
    BY <2>1, NoAnswerIsWrong DEF Finish
  <2> QED BY <1>13, <2>1, <2>2 DEF Answers
<1>15. ASSUME job.at = "planning", Required(graph.rows) = {}
       PROVE  /\ Built /\ graph.source = chunks /\ Says(graph.rows, chunks)
              /\ \A p \in Path : graph.rows.files[p] = BuildFiles(chunks)[p]
  <2>1. Built
    BY <1>15 DEF ReadyInv, UpdatesHaveArtifact
  <2>2. graph.source \in Indexed /\ Says(graph.rows, graph.source) /\ SaysFiles(graph.rows, graph.source)
    BY <2>1 DEF ArtifactIsSound, Sound, Says
  <2> QED BY <1>15, <2>1, <2>2, NothingRequired DEF Values
<1>16. CASE UpdateNotRequired
  <2>1. /\ job.at = "planning" /\ Required(graph.rows) = {}
        /\ Finish("not_required") /\ UNCHANGED <<chunks, settled, graph, memo, lossy>>
    BY <1>16 DEF UpdateNotRequired, Discovered
  <2>2. AnswersAreTrue'
    BY <1>15, <2>1 DEF Finish, AnswersAreTrue
  <2> QED BY <1>13, <2>1, <2>2 DEF Answers
<1>17. CASE UpdateRecalls
  <2>1. /\ job.at = "planning" /\ Required(graph.rows) = {}
        /\ Finish("recalled") /\ UNCHANGED <<chunks, settled, graph, memo, lossy>>
    BY <1>17 DEF UpdateRecalls, Remembered
  <2>2. AnswersAreTrue'
    BY <1>15, <2>1 DEF Finish, AnswersAreTrue, Built
  <2> QED BY <1>13, <2>1, <2>2 DEF Answers
<1>18. CASE UpdateCommits
  <2> DEFINE rows == Replaced(graph.rows, Snapshot(chunks), Affected)
             lost == (lossy \ Affected)
                       \cup {e.path : e \in Orphaned(Snapshot(chunks)) \cup Uncovered(Snapshot(chunks))}
  <2>1. /\ graph' = Artifact(rows, chunks) /\ lossy' = lost
        /\ memo' = IF job.call.keyed THEN [source |-> chunks, call |-> job.call] ELSE memo
        /\ job' = Idle /\ answer' = "updated" /\ UNCHANGED <<chunks, settled>> /\ job.at = "planning"
    BY <1>18 DEF UpdateCommits, Finish
  <2>2. chunks \in Indexed /\ job.call \in Requests
    BY <2>1, JobFacts DEF Values
  <2>3. Sound(graph.rows, graph.source) /\ Kept(graph.rows, graph.source, lossy)
    BY <2>1 DEF ReadyInv, UpdatesHaveArtifact, ArtifactIsSound
  <2>4. Sound(rows, chunks) /\ \A p \in Path : rows.files[p] = BuildFiles(chunks)[p]
    BY <2>2, <2>3, CommitIsSound
  <2>5. Kept(rows, chunks, lost)
    BY <2>2, <2>3, CommitKeeps
  <2> HIDE DEF rows, lost
  <2>6. graph'.at = "built" /\ graph'.rows = rows /\ graph'.source = chunks
    BY <2>1, ArtifactFields
  <2>7. ArtifactIsSound'
    BY <2>1, <2>4, <2>5, <2>6 DEF ArtifactIsSound
  <2>8. AnswersAreTrue'
    BY <2>1, <2>4, <2>6 DEF AnswersAreTrue, Built, Sound
  <2>9. Values' /\ JobOK' /\ NoAnswerYet'
    BY <2>1, <2>2 DEF Values, JobOK, NoAnswerYet, Answers
  <2> QED BY <1>0, <2>7, <2>8, <2>9
<1>19. CASE UNCHANGED vars
  <2>1. UNCHANGED <<chunks, settled, graph, job, memo, answer, lossy>>
    BY <1>19 DEF vars
  <2>2. ArtifactIsSound'
    BY <2>1, SoundStays DEF Built
  <2>3. Values' /\ JobOK' /\ NoAnswerYet' /\ AnswersAreTrue'
    BY <2>1 DEF Values, JobOK, NoAnswerYet, AnswersAreTrue, Built
  <2> QED BY <1>0, <2>2, <2>3
<1> QED
  BY <1>2, <1>4, <1>5, <1>6, <1>7, <1>8, <1>9, <1>10, <1>11, <1>12, <1>14, <1>16, <1>17, <1>18, <1>19
  DEF Next

-----------------------------------------------------------------------------

\* Chunks, artifact, operation and answer are always of the kinds the code has
\* (graph/store.py, graph/service.py).
THEOREM TypeCorrect == Spec => []TypeOK
<1>1. GraphInv => TypeOK
  <2> SUFFICES ASSUME GraphInv PROVE TypeOK
    OBVIOUS
  <2>1. graph.at \in {"missing", "hollow", "built"}
    BY DEF GraphInv, ReadyInv, GraphOK, Missing, Hollow, Whole
  <2>2. ASSUME Built
        PROVE  /\ graph.source \in Indexed
               /\ {n.id : n \in graph.rows.nodes} \subseteq OwnNodes \cup SharedNodes
               /\ \A l \in graph.rows.links : l[1] \in {n.id : n \in graph.rows.nodes}
               /\ Endpoints(graph.rows.edges) \subseteq {n.id : n \in graph.rows.nodes}
    <3> DEFINE c == graph.source
    <3>1. /\ c \in Indexed /\ graph.rows.nodes = BuildNodes(c) /\ graph.rows.links = BuildLinks(c)
          /\ EdgesAreFound(graph.rows, c) /\ GuessesStand(graph.rows, c)
      BY <2>2 DEF GraphInv, ArtifactIsSound, Sound, Says
    <3> HIDE DEF c
    <3>2. \A id : id \in {n.id : n \in graph.rows.nodes} <=> HasNode(c, id)
      BY <3>1, IdsOfNodes
    <3>3. \A id : HasNode(c, id) => id \in OwnNodes \cup SharedNodes
      BY NamesOfNodes DEF HasNode, OwnNodes, Present
    <3>4. ASSUME NEW l \in graph.rows.links PROVE HasNode(c, l[1])
      <4>1. ASSUME NEW p \in Present(c), l = <<Own(p), <<p, c[p]>>>> PROVE HasNode(c, l[1])
        BY <4>1 DEF HasNode
      <4>2. ASSUME NEW n \in NodeNames, NEW p \in Users(c, n), l = <<Shared(n), <<p, c[p]>>>> PROVE HasNode(c, l[1])
        BY <4>2 DEF HasNode
      <4> QED BY <3>1, <4>1, <4>2, RowsOfLinks
    <3>5. ASSUME NEW e \in graph.rows.edges PROVE HasNode(c, e.src) /\ HasNode(c, e.dst)
      <4>1. CASE e.guess
        BY <3>1, <4>1 DEF GuessesStand, HasNode
      <4>2. CASE ~e.guess
        <5>1. e.path \in Present(c) /\ e \in FoundEdges(c, e.path)
          BY <3>1, <4>2 DEF EdgesAreFound
        <5> QED BY <3>1, <5>1, EdgeHasNodes
      <4> QED BY <4>1, <4>2
    <3>6. Endpoints(graph.rows.edges) \subseteq {n.id : n \in graph.rows.nodes}
      BY <3>2, <3>5 DEF Endpoints
    <3>7. graph.source \in Indexed
      BY <3>1 DEF c
    <3> QED BY <3>2, <3>3, <3>4, <3>6, <3>7
  <2>3. GraphState(FALSE) \in States
    BY DEF GraphState, States
  <2>4. job.at \in {"idle", "building", "discovering", "planning"}
    BY JobFacts DEF GraphInv
  <2> QED BY <2>1, <2>2, <2>3, <2>4 DEF GraphInv, Values, ReadyInv, UpdatesHaveArtifact, TypeOK
<1> QED
  BY <1>1, GraphInit, GraphStep, PTL DEF Spec

\* Files, nodes and chunk links of an artifact are those of a build from the chunks it
\* names, and its firm edges are edges their files give among these chunks (update_paths).
\* Of the naming guesses of tests, which may be stale, it says nothing.
THEOREM MetadataTellsTheTruthHolds == Spec => []MetadataTellsTheTruth
<1>1. GraphInv => MetadataTellsTheTruth
  BY FoundIsExtracted DEF GraphInv, ArtifactIsSound, Sound, MetadataTellsTheTruth
<1> QED
  BY <1>1, GraphInit, GraphStep, PTL DEF Spec

\* Updates lose firm edges in no other way than the two the observer records
\* (graph/service.py, graph/store.py).
THEOREM LostOnlyByWideningHolds == Spec => []LostOnlyByWidening
<1>1. GraphInv => LostOnlyByWidening
  BY DEF GraphInv, ArtifactIsSound, Kept, LostOnlyByWidening
<1> QED
  BY <1>1, GraphInit, GraphStep, PTL DEF Spec

\* What a build or an update answers is so until anything moves on
\* (graph/service.py, update_graph).
THEOREM AnswersAreTrueHolds == Spec => []AnswersAreTrue
<1>1. GraphInv => AnswersAreTrue
  BY DEF GraphInv
<1> QED
  BY <1>1, GraphInit, GraphStep, PTL DEF Spec

\* An artifact that the status calls ready by its revision alone is one of the
\* indexed chunks, unless the registry row is still to be written (graph/service.py).
THEOREM ReadyIsCurrentHolds == Spec => []ReadyIsCurrent
<1>1. ReadyInv => ReadyIsCurrent
  BY StateOfArtifact DEF ReadyInv, RevisionIsCurrent, ReadyIsCurrent
<1> QED
  BY <1>1, ReadyInit, ReadyStep, PTL DEF Spec
=============================================================================
