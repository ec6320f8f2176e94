---------------------------- MODULE StatusPolicy ----------------------------
(***************************************************************************)
(* What index_status says and when search is let through, as operators on  *)
(* what was read: the registry row, git, the paths, the collections, the   *)
(* graph, the watcher and the lease (status/*.py, git_status.py).          *)
(*                                                                         *)
(* A status is built from values read one after another, see SearchCaches. *)
(* Prose, previews, counts and hashes are left out; a list of codes is the *)
(* set of them, except where the first decides.                            *)
(***************************************************************************)
EXTENDS Integers, Sequences, FiniteSets

CONSTANT None  \* Python's None

\* The code of the first condition that holds.
FirstCode(cases) ==
  LET hits == SelectSeq(cases, LAMBDA c : c[1])
  IN  IF hits = <<>> THEN {} ELSE {hits[1][2]}

CodesOf(cases) == {c[2] : c \in {d \in cases : d[1]}}

-----------------------------------------------------------------------------
(* The embedding contract stored with the points of a collection: model,   *)
(* whether backend and model are those of the runtime; schema, how its     *)
(* version compares with the runtime's ("none", "older", "same", "odd",    *)
(* "newer"); and the hashes of two templates ("none", "same", "other").    *)

\* index_contract_issue: why search is refused, for one collection.
Refused(c) ==
  /\ c # None
  /\ ~c.model \/ c.schema = "newer" \/ c.template = "other" \/ c.prefix = "other"

IndexContractIssue(contracts) == \E s \in DOMAIN contracts : Refused(contracts[s])

\* collection_contract: what status reports of one collection.
HashMismatches(c) ==
  CodesOf({<<c.template = "other", "query_template_hash_mismatch">>,
           <<c.prefix = "other", "document_prefix_hash_mismatch">>})

ContractCodes(c) ==
  IF c = None THEN {"index_contract_missing"}
  ELSE IF ~c.model THEN {"embedding_contract_mismatch"}
  ELSE IF c.schema = "newer" THEN {"schema_version_mismatch"}
  ELSE IF c.schema \in {"older", "odd"} THEN {"legacy_dense_only_index"} \cup HashMismatches(c)
  ELSE IF "none" \in {c.template, c.prefix} THEN {"index_contract_hash_missing"}
  ELSE FirstCode(<< <<c.template = "other", "query_template_hash_mismatch">>,
                    <<c.prefix = "other", "document_prefix_hash_mismatch">> >>)

IncompatibilityCodes == {"embedding_contract_mismatch", "schema_version_mismatch",
                         "query_template_hash_mismatch", "document_prefix_hash_mismatch"}

CollectionContract(c, exists, points) ==
  LET codes == IF exists /\ points > 0 THEN ContractCodes(c) ELSE {}
      blocking == codes \cap IncompatibilityCodes # {}
  IN  [codes |-> codes, blocking |-> blocking,
       compatibility |-> IF blocking THEN "incompatible"
                         ELSE IF codes # {} \/ ~exists \/ points = 0 THEN "unknown"
                         ELSE "compatible"]

\* summarize_collection_contracts
ContractSummary(reports) ==
  [codes |-> UNION {r.codes : r \in reports},
   blocking |-> \E r \in reports : r.blocking,
   compatibility |-> IF \E r \in reports : r.blocking THEN "incompatible"
                     ELSE IF \E r \in reports : r.compatibility = "unknown" THEN "unknown"
                     ELSE "compatible"]

-----------------------------------------------------------------------------
(* When search is available (status/readiness.py).                         *)

SearchUnavailableCodes(row, otherBackend, active, issue) ==
  IF row = None THEN {"repo_not_registered"}
  ELSE FirstCode(<<
    <<otherBackend, "backend_switch_required">>,
    <<~active, "runtime_repo_not_active">>,
    <<row.status = "registered", "index_missing">>,
    <<row.status = "stale", "lifecycle_stale_blocking">>,
    <<row.status = "indexing", "indexing_in_progress">>,
    <<row.status = "error", "index_error">>,
    <<row.status = "disabled", "repo_disabled">>,
    <<issue, "embedding_contract_mismatch">>,
    <<row.points = 0, "index_empty">> >>)

\* status_action_for_code
StatusActionForCode(code) ==
  CASE code = "runtime_repo_not_active" -> "runtime_switch_required"
    [] code = "index_missing" -> "build_index_required"
    [] code \in {"lifecycle_stale_blocking", "embedding_contract_mismatch"} -> "explicit_rebuild_required"
    [] code = "indexing_in_progress" -> "wait_for_indexing"
    [] code = "index_error" -> "inspect_index_error"
    [] OTHER -> code

-----------------------------------------------------------------------------
(* Freshness (status/freshness.py).  git is what inspect_git_worktree      *)
(* reads: the head and the modification times of changed tracked and of    *)
(* untracked indexable files, None for a file that is gone.  paths is what *)
(* PathManifestStore.summarize finds, or None without a manifest.          *)

\* _changes_after_index
ChangesAfter(mtimes, indexedAt) ==
  mtimes # {} /\ (indexedAt = None \/ \E t \in mtimes : t = None \/ t > indexedAt)

StaleReasons(git, row, paths) ==
  LET indexedAt == IF row = None THEN None ELSE row.at
      commit == IF row = None THEN None ELSE row.commit
  IN  CodesOf({
        <<None \notin {commit, git.head} /\ commit # git.head, "index_built_for_different_head">>,
        <<ChangesAfter(git.tracked, indexedAt), "indexable_tracked_files_changed">>,
        <<ChangesAfter(git.untracked, indexedAt), "indexable_untracked_files_present">>,
        <<paths # None /\ paths.stale, "path_freshness_stale">>})

RevisionUnknown(git, row) == git.repo /\ (row = None \/ row.commit = None)

FreshnessUnknown(git, row, paths) ==
  RevisionUnknown(git, row) \/ (paths # None /\ ~paths.complete)

FreshnessStates(git, row, paths) ==
  LET reasons == StaleReasons(git, row, paths)
      stalePaths == reasons \ {"index_built_for_different_head"} # {}
      states == CodesOf({
        <<FreshnessUnknown(git, row, paths), "unknown">>,
        <<"index_built_for_different_head" \in reasons, "head_stale">>,
        <<stalePaths, "path_stale">>,
        <<paths # None /\ paths.complete /\ "index_built_for_different_head" \in reasons
            /\ ~stalePaths, "soft_stale">>})
  IN  IF states = {} THEN {"fresh"} ELSE states

FreshnessPrecedence == <<"unknown", "path_stale", "graph_degraded", "sparse_stats_stale",
                         "soft_stale", "head_stale", "fresh">>

\* _primary_state
PrimaryState(states) == SelectSeq(FreshnessPrecedence, LAMBDA s : s \in states)[1]

\* add_freshness_states
AddFreshnessStates(states, extra) ==
  IF extra = {} THEN states ELSE (states \ {"fresh"}) \cup extra

-----------------------------------------------------------------------------
(* Dense and sparse retrieval (status/retrieval_status.py), for a scope    *)
(* with its points, the collections that exist, the kind of its dense      *)
(* vectors, its sparse manifest and whether Qdrant has a sparse vector.    *)

\* _sparse_manifest_for_scope, _sparse_manifest_unavailable_codes
ManifestCodes(m) ==
  IF m = None THEN {"sparse_manifest_missing"}
  ELSE CodesOf({<<~m.schema \/ ~m.contract, "sparse_contract_mismatch">>,
                <<~m.analyzer, "sparse_analyzer_version_mismatch">>,
                <<~m.encoder, "sparse_encoder_kind_mismatch">>})

ScopeState(s) ==
  IF s.manifest # None /\ s.manifest.empty /\ s.points = 0 THEN "intentionally_empty"
  ELSE IF ~s.exists THEN "missing"
  ELSE IF ~s.current \/ ManifestCodes(s.manifest) # {} \/ ~s.vector THEN "legacy_dense_only"
  ELSE "ready"

ScopeCodes(s) ==
  CodesOf({
    <<ScopeState(s) = "missing", "collection_missing">>,
    <<(ScopeState(s) = "legacy_dense_only" /\ ~s.current) \/ s.kind = "unnamed_legacy",
      "legacy_dense_only_collection">>,
    <<ScopeState(s) = "legacy_dense_only" /\ s.current /\ ManifestCodes(s.manifest) = {},
      "sparse_vector_missing">>})
  \cup IF ScopeState(s) = "legacy_dense_only" /\ (s.current \/ s.manifest # None)
       THEN ManifestCodes(s.manifest) ELSE {}

ScopeStatus(s) ==
  [state |-> ScopeState(s),
   points |-> s.points,
   dense |-> s.exists /\ s.kind \in {"named", "unnamed_legacy", "unknown"},
   sparse |-> ScopeState(s) = "ready" /\ ~s.manifest.empty,
   stale |-> ManifestCodes(s.manifest) = {} /\ s.manifest.stale,
   codes |-> ScopeCodes(s)]

\* retrieval_status
RetrievalStatus(scopes) ==
  LET all == {ScopeStatus(s) : s \in scopes}
      filled == {s \in all : s.points > 0 /\ s.state # "intentionally_empty"}
  IN  [dense |-> \E s \in filled : s.dense,
       sparse |-> filled # {} /\ \A s \in filled : s.sparse,
       codes |-> UNION {s.codes : s \in filled} \ {"collection_missing"},
       stale |-> \E s \in all : s.stale]

\* retrieval_warnings_and_actions
RetrievalWarnings(r, points) ==
  FirstCode(<< <<r.codes # {} /\ points > 0, "sparse_branch_unavailable">>,
               <<r.stale, "sparse_stats_stale">> >>)

RetrievalActions(r, points) ==
  IF r.codes # {} /\ points > 0 THEN {"explicit_sparse_rebuild_recommended"} ELSE {}

-----------------------------------------------------------------------------
(* The graph, by its status summary: state, whether expansion is allowed,  *)
(* whether an update is required, and whether the invalidated paths are    *)
(* unknown.                                                                *)

GraphWarnings(g) == IF g = None \/ g.state = "ready" THEN {} ELSE {"graph_not_ready"}

GraphActions(g, lease) ==
  IF g = None \/ g.state = "ready" \/ lease # None THEN {}
  ELSE FirstCode(<<
    <<g.state = "missing", "build_graph">>,
    <<g.state = "stale" /\ g.allowed, "none">>,
    <<g.state = "stale" /\ g.required, "update_graph">>,
    <<g.state = "stale" /\ g.unknown, "none">>,
    <<g.state \in {"stale", "incompatible", "error"}, "rebuild_graph">> >>) \ {"none"}

-----------------------------------------------------------------------------
(* The watcher, enabled (or None), and whether its thread runs.            *)

WatcherBlocked(watcher, active, state, codes) ==
  IF watcher = None THEN "unavailable"
  ELSE IF watcher.running THEN None
  ELSE LET reason == FirstCode(<<
             <<~active, "runtime_repo_not_active">>,
             <<state # "indexed", "repo_not_indexed">>,
             <<codes # {}, "search_unavailable">> >>)
       IN  IF reason = {} THEN None ELSE CHOOSE r \in reason : TRUE

WatcherStartRequired(watcher, active, state, codes) ==
  /\ watcher # None
  /\ ~watcher.running
  /\ WatcherBlocked(watcher, active, state, codes) = None

-----------------------------------------------------------------------------
(* build_index_status, from everything the build has read.                 *)

IndexStatus(o) ==
  LET issue == IndexContractIssue(o.contracts)
      codes == SearchUnavailableCodes(o.row, o.otherBackend, o.active, issue)
      state == IF o.row = None THEN "registered" ELSE o.row.status
      stale == StaleReasons(o.git, o.row, o.paths) # {}
      required == WatcherStartRequired(o.watcher, o.active, state, codes)
      points == Cardinality({s \in o.scopes : s.points > 0})
      retrieval == RetrievalStatus(o.scopes)
      contract == ContractSummary(
        {CollectionContract(o.contracts[s.scope], s.exists, s.points) : s \in o.scopes})
      states == AddFreshnessStates(
        FreshnessStates(o.git, o.row, o.paths),
        CodesOf({<<retrieval.stale, "sparse_stats_stale">>,
                 <<o.graph # None /\ o.graph.state = "stale" /\ o.graph.allowed, "graph_degraded">>}))
  IN [state |-> state,
      activeRepo |-> o.activeRepo,
      search |-> codes = {},
      codes |-> codes,
      stale |-> stale,
      unknown |-> FreshnessUnknown(o.git, o.row, o.paths),
      primary |-> PrimaryState(states),
      watcher |-> [running |-> o.watcher # None /\ o.watcher.running,
                   required |-> required,
                   blocked |-> WatcherBlocked(o.watcher, o.active, state, codes)],
      retrieval |-> retrieval,
      contract |-> contract,
      graph |-> o.graph,
      inProgress |-> state = "indexing" \/ o.lease # None,
      actions |->
        {StatusActionForCode(c) : c \in codes}
          \cup CodesOf({<<stale, "use_exact_search_fallback">>, <<required, "start_watcher">>})
          \cup RetrievalActions(retrieval, points)
          \cup GraphActions(o.graph, o.lease),
      warnings |->
        CodesOf({<<stale, "freshness_stale">>,
                 <<FreshnessUnknown(o.git, o.row, o.paths), "freshness_unknown">>,
                 <<o.watcher # None /\ ~o.watcher.running /\ o.active /\ state = "indexed",
                   "watcher_enabled_but_not_running">>})
          \cup RetrievalWarnings(retrieval, points)
          \cup GraphWarnings(o.graph)
          \cup contract.codes]
=============================================================================
