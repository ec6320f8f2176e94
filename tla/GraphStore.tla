----------------------------- MODULE GraphStore -----------------------------
(***************************************************************************)
(* The graph artifact and what keeps it up to date: builds, rebuilds and   *)
(* incremental updates (graph/store.py, graph/service.py), while indexing  *)
(* changes the chunks below it, operations end at their bounds and the     *)
(* process dies.                                                           *)
(*                                                                         *)
(* Index operations, builds and updates hold the same lease, so they do    *)
(* not overlap; an index operation may end badly after any of its writes,  *)
(* which is why chunks and registry row change in steps of their own.      *)
(* Graph rows outside the transactions shown do not change.                *)
(***************************************************************************)
EXTENDS GraphSnapshot

CONSTANTS
  MaxPaths,    \* SEMANTIC_MCP_GRAPH_UPDATE_MAX_PATHS
  MaxReverse,  \* ..._MAX_REVERSE_DEPENDENT_PATHS
  MaxLarge,    \* ..._DISCOVERY_MAX_PATHS, for allow_large_update
  Requests,    \* what update_graph is called with: paths, allow_large_update, a key
  Legacy       \* what may be indexed under an artifact without signatures

ASSUME StoreAssumption ==
  /\ {MaxPaths, MaxReverse, MaxLarge} \subseteq Nat
  /\ Requests \subseteq [asked : SUBSET Path, large : BOOLEAN, keyed : BOOLEAN]
  /\ Legacy \subseteq Indexed

VARIABLES
  chunks,   \* the indexed chunks, read from Qdrant
  settled,  \* the registry row was written after the last change of them
  graph,    \* the artifact
  job,      \* the operation that holds the lease
  memo,     \* the update remembered under an idempotency key and this contract
  answer    \* what the last operation returned, until anything moves on

\* Observer: the paths of which an update may have taken edges away, or kept one from
\* coming back, and which have not been extracted again since.
VARIABLE lossy

vars == <<chunks, settled, graph, job, memo, answer, lossy>>

\* No file, and a file with tables but without metadata.
Missing == [at |-> "missing"]
Hollow == [at |-> "hollow"]

\* The rows and the source contract.  revision, contract and extractors say
\* whether the stored value is still that of the registry row, of the collections
\* and profile, and of the code.
Artifact(rows, source) ==
  [at |-> "built", rows |-> rows, source |-> source,
   revision |-> TRUE, contract |-> TRUE, extractors |-> TRUE]

Built == graph.at = "built"

Idle == [at |-> "idle"]

Init ==
  /\ chunks \in {[p \in Path |-> None]} \cup Legacy
  /\ settled = TRUE
  /\ graph \in
       {Missing}
         \cup {[Artifact([Snapshot(old) EXCEPT !.files =
                            [p \in Path |-> IF @[p] = None THEN None ELSE [@[p] EXCEPT !.input = None]]],
                          old) EXCEPT !.revision = FALSE] : old \in Legacy}
  /\ job = Idle
  /\ memo = None
  /\ answer = "none"
  /\ lossy = {}

-----------------------------------------------------------------------------
(* Status *)

\* _source_contract_mismatch_codes; the chunks themselves are only compared when
\* the source revision is verified.
Mismatches(verify) ==
  (IF graph.contract THEN {} ELSE {"hard"})
    \cup (IF graph.revision THEN {} ELSE {"revision"})
    \cup (IF verify /\ graph.source # chunks THEN {"source"} ELSE {})

GraphState(verify) ==
  CASE graph = Missing -> "missing"
    [] graph = Hollow -> "error"
    [] Built /\ ~graph.extractors -> "incompatible"
    [] Built /\ graph.extractors /\ Mismatches(verify) # {} -> "stale"
    [] OTHER -> "ready"

\* _status_update_fields: update_required, and no update_blocked_reason.
UpdateRequired(verify) ==
  /\ GraphState(verify) = "stale"
  /\ "hard" \notin Mismatches(verify)

-----------------------------------------------------------------------------
(* The index below, and restarts *)

\* A reindex or a rebuild replaces the chunks of a path.
IndexPath(p, v) ==
  /\ job = Idle
  /\ chunks[p] # v
  /\ chunks' = [chunks EXCEPT ![p] = v]
  /\ settled' = FALSE
  /\ answer' = "none"
  /\ UNCHANGED <<graph, job, memo, lossy>>

Outdated(g, field) == IF g.at = "built" THEN [g EXCEPT ![field] = FALSE] ELSE g

\* Wrong variant of RecordRevision: sync_registry_state without record_index_revision.
KeepRevision ==
  /\ job = Idle
  /\ settled' = TRUE
  /\ answer' = "none"
  /\ UNCHANGED <<chunks, graph, job, memo, lossy>>

\* sync_registry_state(record_index_revision=True): timestamps, commit and counts.
RecordRevision ==
  /\ job = Idle
  /\ settled' = TRUE
  /\ graph' = Outdated(graph, "revision")
  /\ memo' = None
  /\ answer' = "none"
  /\ UNCHANGED <<chunks, job, lossy>>

\* A collection appears or goes, or schema or profile change.
ChangeContract ==
  /\ job = Idle
  /\ Built /\ graph.contract
  /\ graph' = Outdated(graph, "contract")
  /\ memo' = None
  /\ answer' = "none"
  /\ UNCHANGED <<chunks, settled, job, lossy>>

\* The process ends, in the middle of an operation or not, and perhaps comes back
\* with other extractors.
Restart(upgraded) ==
  /\ job # Idle \/ upgraded \/ memo # None
  /\ upgraded => Built /\ graph.extractors
  /\ graph' = IF upgraded THEN Outdated(graph, "extractors") ELSE graph
  /\ job' = Idle
  /\ memo' = None
  /\ answer' = "none"
  /\ UNCHANGED <<chunks, settled, lossy>>

-----------------------------------------------------------------------------
(* Full builds *)

\* build_graph reads the chunks; a rebuild removes the file first.
BuildBegins(rebuild) ==
  /\ job = Idle
  /\ Present(chunks) # {}
  /\ graph' = IF rebuild THEN Missing ELSE graph
  /\ job' = [at |-> "building"]
  /\ answer' = "none"
  /\ UNCHANGED <<chunks, settled, memo, lossy>>

\* ensure_graph_schema commits the tables of a new file by itself.
BuildOpens ==
  /\ job.at = "building" /\ graph = Missing
  /\ graph' = Hollow
  /\ UNCHANGED <<chunks, settled, job, memo, answer, lossy>>

\* replace_graph: one transaction.
BuildReplaces ==
  /\ job.at = "building" /\ graph # Missing
  /\ graph' = Artifact(Snapshot(chunks), chunks)
  /\ job' = Idle
  /\ answer' = "built"
  /\ lossy' = {}
  /\ UNCHANGED <<chunks, settled, memo>>
-----------------------------------------------------------------------------
(* The plan of an update *)

Paths(large) == IF large /\ MaxLarge > MaxPaths THEN MaxLarge ELSE MaxPaths
Reverse(large) == IF large /\ MaxLarge > MaxReverse THEN MaxLarge ELSE MaxReverse

\* _snapshot_path_fingerprint, _stored_path_fingerprint.
Fingerprint(rows, p) ==
  LET nodes == {n \in rows.nodes : n.path = p}
  IN  <<IF rows.files[p] = None THEN None ELSE rows.files[p].hash, nodes,
        {l \in rows.links : l[1] \in {n.id : n \in nodes}}, {e \in rows.edges : e.path = p}>>

\* Rows from before there were signatures, with the hash of the chunks of now.
Unsigned(rows) ==
  {p \in Present(chunks) : /\ rows.files[p] # None
                           /\ rows.files[p].input = None
                           /\ rows.files[p].hash = Digest[<<p, chunks[p]>>]}

\* Wrong variant of Signable: the hash of the chunks is taken for enough.
SignableByHash(rows) == Unsigned(rows)

\* safe_legacy_signature_backfill_paths: those whose rows are the rows of now.
Signable(rows) ==
  {p \in Unsigned(rows) : Fingerprint(Snapshot(chunks), p) = Fingerprint(rows, p)}

\* backfill_graph_input_signatures.
Signed(rows) ==
  [rows EXCEPT !.files = [p \in Path |-> IF p \in Signable(rows) THEN [@[p] EXCEPT !.input = chunks[p]]
                                         ELSE @[p]]]

\* _discover_update_paths: paths that are new, changed, gone or not signed.
Required(rows) ==
  {p \in Present(chunks) : rows.files[p] = None \/ rows.files[p].input # chunks[p]}
    \cup {p \in Path \ Present(chunks) : rows.files[p] # None}

Endpoints(edges) == {e.src : e \in edges} \cup {e.dst : e \in edges}
Touches(e, ids) == {e.src, e.dst} \cap ids # {}
OwnOf(P) == {Own(p) : p \in P}

\* _select_chunk_ids_for_paths, _select_shared_candidate_node_ids: the shared nodes
\* that the rows of some paths support or reach.
ChunksOf(rows, P) == {n.chunk : n \in {m \in rows.nodes : m.path \in P}}
SharedBy(rows, P) ==
  LET theirs == ChunksOf(rows, P)
  IN  ({l[1] : l \in {k \in rows.links : k[2] \in theirs}}
         \cup Endpoints({e \in rows.edges : e.path \in P})) \cap SharedNodes

\* Wrong variant of Dependents: only shared nodes are followed.
DependentsOfShared(rows, P) == {e.path : e \in {f \in rows.edges : Touches(f, SharedBy(rows, P))}} \ P

\* reverse_dependent_paths on the stored rows, _new_reverse_dependent_paths on the
\* new ones: the other paths whose edges touch what belongs to the given ones.
Dependents(rows, P) ==
  LET theirs == OwnOf(P) \cup SharedBy(rows, P)
  IN  {e.path : e \in {f \in rows.edges : Touches(f, theirs)}} \ P

-----------------------------------------------------------------------------
(* Updates *)

\* update_graph refuses an artifact it cannot repair.
UpdateRefused ==
  /\ job = Idle
  /\ GraphState(FALSE) \in {"missing", "error", "incompatible"}
  /\ answer' = "blocked"
  /\ UNCHANGED <<chunks, settled, graph, job, memo, lossy>>

\* Wrong variant of UpdateBegins: the state of the artifact is not looked at.
UpdateBeginsUnchecked(request) ==
  /\ job = Idle
  /\ job' = [at |-> "discovering", call |-> request]
  /\ answer' = "none"
  /\ UNCHANGED <<chunks, settled, graph, memo, lossy>>

UpdateBegins(request) ==
  /\ job = Idle
  /\ GraphState(FALSE) \in {"ready", "stale"}
  /\ job' = [at |-> "discovering", call |-> request]
  /\ answer' = "none"
  /\ UNCHANGED <<chunks, settled, graph, memo, lossy>>

\* Signatures are filled in by a transaction of their own, before the bounds that
\* may still stop the update.
UpdateSigns ==
  /\ job.at = "discovering"
  /\ graph' = [graph EXCEPT !.rows = Signed(@)]
  /\ job' = [job EXCEPT !.at = "planning"]
  /\ UNCHANGED <<chunks, settled, memo, answer, lossy>>

\* What the update is about, and what it draws in.
Discovered == job.call.asked \cup Required(graph.rows)
MetadataOnly == Discovered = {} /\ UpdateRequired(FALSE)
ReversePaths == Dependents(graph.rows, Discovered)
NewReversePaths == Dependents(Snapshot(chunks), Discovered \cup ReversePaths)
Affected == Discovered \cup ReversePaths \cup NewReversePaths

WithinBounds ==
  /\ Cardinality(Discovered) <= Paths(job.call.large)
  /\ Cardinality(ReversePaths) <= Reverse(job.call.large)
  /\ Cardinality(NewReversePaths) <= Reverse(job.call.large)
  /\ Cardinality(Affected) <= Paths(job.call.large)

Finish(result) == job' = Idle /\ answer' = result

\* A bound on chunks, rows or time ends an update anywhere before its commit.
UpdateStops ==
  /\ job.at \in {"discovering", "planning"}
  /\ Finish("bounds")
  /\ UNCHANGED <<chunks, settled, graph, memo, lossy>>

UpdateNotRequired ==
  /\ job.at = "planning"
  /\ Discovered = {} /\ ~MetadataOnly
  /\ Finish("not_required")
  /\ UNCHANGED <<chunks, settled, graph, memo, lossy>>

\* Wrong variant of Remembered: the chunks are not compared.
RememberedByRevision ==
  /\ job.call.keyed /\ memo # None
  /\ memo.call = job.call

\* The idempotency key is known, under this contract and for this request.
Remembered ==
  /\ job.call.keyed /\ memo # None
  /\ memo.source = chunks
  /\ memo.call = job.call
  /\ Required(graph.rows) = {}

UpdateRecalls ==
  /\ job.at = "planning"
  /\ Discovered # {} \/ MetadataOnly
  /\ WithinBounds
  /\ Remembered
  /\ Finish("recalled")
  /\ UNCHANGED <<chunks, settled, graph, memo, lossy>>

\* _prune_orphan_shared_nodes.
Pruned(rows) ==
  [rows EXCEPT !.nodes =
     {n \in @ : n.id \in SharedNodes =>
                  \/ \E l \in rows.links : l[1] = n.id
                  \/ n.id \in Endpoints(rows.edges)}]

\* update_paths: the rows of the affected paths are deleted, with all that touches
\* their nodes, and written again from the new rows.
Replaced(rows, new, P) ==
  LET edges == {e \in new.edges : e.path \in P}
      ids == Endpoints(edges)
               \cup {n.id : n \in {m \in new.nodes : m.path \in P}}
               \cup {l[1] : l \in {k \in new.links : k[2] \in ChunksOf(rows, P)}}
               \cup (SharedBy(rows, P) \cap {n.id : n \in new.nodes})
      written == {n \in new.nodes : n.id \in ids}
  IN  Pruned(
        [files |-> [p \in Path |-> IF p \in P THEN new.files[p] ELSE rows.files[p]],
         nodes |-> {n \in rows.nodes : n.id \notin OwnOf(P) \cup {m.id : m \in written}} \cup written,
         links |-> {l \in rows.links : l[1] \notin OwnOf(P) \cup ids /\ l[2] \notin ChunksOf(rows, P)}
                     \cup {l \in new.links : l[1] \in ids},
         edges |-> {e \in rows.edges : /\ e.path \notin P
                                       /\ ~Touches(e, OwnOf(P))
                                       /\ \A f \in edges : ~SameId(e, f)} \cup edges])

\* The observer: edges of other paths into those that only the second search for
\* dependents has drawn in, and edges that stood behind one with the same id of another
\* file, which the update may take away.
Orphaned(new) ==
  LET P == Affected
      drawn == OwnOf(NewReversePaths)
  IN  {e \in new.edges : e.path \notin P /\ Touches(e, drawn)}
Uncovered(new) ==
  LET P == Affected
      hidden == Extracted(graph.source) \ BuildEdges(graph.source)
  IN  {e \in new.edges : e.path \notin P /\ e \in hidden}

\* One transaction, and the source contract with it.
UpdateCommits ==
  /\ job.at = "planning"
  /\ Discovered # {} \/ MetadataOnly
  /\ WithinBounds
  /\ ~Remembered
  /\ graph' = Artifact(Replaced(graph.rows, Snapshot(chunks), Affected), chunks)
  /\ memo' = IF job.call.keyed
             THEN [source |-> chunks, call |-> job.call]
             ELSE memo
  /\ lossy' = (lossy \ Affected)
                \cup {e.path : e \in Orphaned(Snapshot(chunks)) \cup Uncovered(Snapshot(chunks))}
  /\ Finish("updated")
  /\ UNCHANGED <<chunks, settled>>

Next ==
  \/ \E p \in Path : \E v \in VersionsOf(p) \cup {None} : IndexPath(p, v)
  \/ RecordRevision
  \/ ChangeContract
  \/ \E upgraded \in BOOLEAN : Restart(upgraded)
  \/ \E rebuild \in BOOLEAN : BuildBegins(rebuild)
  \/ BuildOpens
  \/ BuildReplaces
  \/ UpdateRefused
  \/ \E request \in Requests : UpdateBegins(request)
  \/ UpdateSigns
  \/ UpdateStops
  \/ UpdateNotRequired
  \/ UpdateRecalls
  \/ UpdateCommits

Spec == Init /\ [][Next]_vars

-----------------------------------------------------------------------------
(* Correctness *)

States == {"missing", "error", "incompatible", "stale", "ready"}
Answers == {"none", "built", "blocked", "bounds", "not_required", "recalled", "updated"}

\* The type invariant: chunks, artifact, operation and answer are of the kinds the
\* code has, and an update is only under way where there is an artifact.
TypeOK ==
  /\ chunks \in Indexed
  /\ settled \in BOOLEAN
  /\ graph.at \in {"missing", "hollow", "built"}
  /\ Built => /\ graph.source \in Indexed
              /\ {n.id : n \in graph.rows.nodes} \subseteq OwnNodes \cup SharedNodes
              /\ \A l \in graph.rows.links : l[1] \in {n.id : n \in graph.rows.nodes}
              /\ Endpoints(graph.rows.edges) \subseteq {n.id : n \in graph.rows.nodes}
  /\ job.at \in {"idle", "building", "discovering", "planning"}
  /\ job.at \in {"discovering", "planning"} => Built
  /\ memo # None => memo.source \in Indexed
  /\ answer \in Answers
  /\ GraphState(FALSE) \in States

\* All edges but the guesses of a test's target by its name: whether there is one depends
\* on every path (test_targets.py:205), and no update follows that.
Firm(edges) == {e \in edges : ~e.guess}

\* Does the artifact say of every path what a build from these chunks would say,
\* signatures apart that are not filled in yet?
SaysFiles(rows, source) ==
  \A p \in Path :
    \/ rows.files[p] = BuildFiles(source)[p]
    \/ source[p] # None /\ rows.files[p] = [BuildFiles(source)[p] EXCEPT !.input = None]
Says(rows, source) ==
  /\ SaysFiles(rows, source)
  /\ rows.nodes = BuildNodes(source)
  /\ rows.links = BuildLinks(source)

\* The source contract an artifact carries is the truth about its rows: whatever
\* updates, refusals and restarts led to it, files, nodes and chunk links are
\* those of a build from the chunks it names, and every firm edge is one that its file
\* gives among these chunks (update_paths rewrites rows of some paths and then the
\* contract of all).  The naming guesses of tests are excepted: a stale one stays in the
\* artifact under current metadata, which P6.B:474-477 forbids, when a file is added or
\* removed that makes the guess ambiguous, or wrong.
MetadataTellsTheTruth ==
  Built =>
    /\ Says(graph.rows, graph.source)
    /\ Firm(graph.rows.edges) \subseteq Extracted(graph.source)

\* The two ways in which updates lose edges of a file: it imports or mentions a file
\* that the second search for dependents added to the update, or an edge of it stood
\* behind one with the same id of another file of the same module.  Until then, and
\* again from the next update or build that extracts it, all its firm edges are there;
\* the naming guesses are excepted here too.
LostOnlyByWidening ==
  Built => \A e \in Firm(BuildEdges(graph.source)) : e \in graph.rows.edges \/ e.path \in lossy

\* An artifact called ready without a look at the chunks is one of these chunks,
\* unless an index operation changed them and has not written the registry row.
ReadyIsCurrent ==
  GraphState(FALSE) = "ready" /\ settled => graph.source = chunks

\* What an operation answers is so: after "updated", "built" and a remembered
\* answer the artifact is one of the indexed chunks, and after "not required" its
\* rows are, whatever was retried, restarted or reindexed in between.
AnswersAreTrue ==
  /\ answer \in {"built", "updated", "recalled"} => Built /\ graph.source = chunks
  /\ answer \in {"built", "updated", "recalled", "not_required"} =>
       Says(graph.rows, chunks) /\ \A p \in Path : graph.rows.files[p] = BuildFiles(chunks)[p]

\* docs/specifications P6.B asks that an update leaves no stale edges under current
\* metadata and deletes no edges of unaffected paths: all edges of a build are there.
UpdateKeepsEveryEdge ==
  Built => Firm(BuildEdges(graph.source)) \subseteq graph.rows.edges
=============================================================================
