------------------------------ MODULE Retrieval ------------------------------
(***************************************************************************)
(* One search over the collections of a repository: filters are pushed     *)
(* down to Qdrant where the payload has the field, a dense shortlist is    *)
(* widened while filters applied afterwards leave it short, the sparse     *)
(* branch is used when every collection asked has one and a local BM25     *)
(* otherwise, and the two rankings are fused (retrieval/*.py and the       *)
(* _*_execution methods of SemanticSearchService).                         *)
(*                                                                         *)
(* A chunk is its rank by dense score over all collections; it has a       *)
(* scope, a file and the filter families of the request it passes; it may  *)
(* have words of the query, and may be rated by the BM25: its normalised   *)
(* score among the chunks of its scope that pass the filters is above      *)
(* zero, which that of a common word is not.  Scores, snippets,            *)
(* explanations and counts are left out.  The query has words, nothing is  *)
(* indexed during a search, and the chunks the BM25 has cached are those   *)
(* indexed (SearchCaches has what becomes of that cache).                  *)
(***************************************************************************)
EXTENDS StatusPolicy, SequencesExt

CONSTANTS
  Cases,          \* the collections and requests looked at
  Factor, Floor, FilteredFloor, Cap,         \* 6, 30, 80, 320
  HybridFactor, HybridFloor,                 \* 8, 50
  SparseFactor, SparseFloor, SparseCap       \* 12, 100, 500

\* No shortlist is shorter than the results asked for.
LimitsAssumption ==
  /\ {Factor, Floor, FilteredFloor, Cap, HybridFactor, HybridFloor,
      SparseFactor, SparseFloor, SparseCap} \subseteq Nat \ {0}
  /\ \A c \in Cases : c.k \in 1..Min({Cap, SparseCap})
ASSUME LimitsAssumption

\* A rebuild saves the new sparse manifest, then embeds, then drops the old points.  One
\* that fails in between leaves points foreign to the manifest: another vocabulary has
\* numbered the words of their vectors.  A collection with sparse vectors and points under
\* a manifest that says it is meant to be empty is one of these.  One of an older schema
\* has no sparse vectors.
Possible(c) ==
  \A s \in DOMAIN c.collections :
    LET collection == c.collections[s]
        filled == \E i \in DOMAIN c.chunks : c.chunks[i].scope = s
    IN  /\ collection.vector => collection.current
        /\ collection.vector /\ collection.manifest # None /\ collection.manifest.empty /\ filled
             => collection.foreign

\* Chunks are numbered by their dense score, and what is asked is one kind of search over
\* collections that the repository can have.
ASSUME CasesAssumption ==
  \A c \in Cases :
    /\ Len(c.chunks) \in Nat /\ DOMAIN c.chunks = 1..Len(c.chunks)
    /\ DOMAIN c.collections = {"code", "docs"}
    /\ c.scope \in {"code", "docs", "all"}
    /\ c.mode \in {"semantic", "hybrid"}
    /\ Possible(c)

VARIABLES
  case,      \* chunks and collections, and what is asked of them; never changes
  pc,
  limit,     \* of the dense shortlist
  dense,     \* the dense candidates
  lexical,   \* those of the sparse branch, or of BM25, best first
  sparse,    \* what the sparse branch said of itself
  ranked,    \* the fused ranking
  hits, told

vars == <<case, pc, limit, dense, lexical, sparse, ranked, hits, told>>

-----------------------------------------------------------------------------
(* Filters.                                                                *)

\* The payload field that answers a filter family; globs have none.
FieldOf == [path_prefix |-> "path_prefixes", file_extensions |-> "file_extension",
            languages |-> "language", chunk_types |-> "chunk_type", domain_tags |-> "domain_tags"]

\* _payload_fields_for_scope
PayloadFields(s) ==
  LET c == case.collections[s]
  IN  CASE c.current -> {FieldOf[f] : f \in DOMAIN FieldOf}
        [] ~c.current /\ c.kind = "unnamed_legacy" -> {"language", "chunk_type", "domain_tags"}
        [] OTHER -> {}

\* A plausible slip: a family the payload cannot answer is forgotten.
GlobsPutOff(s) ==
  LET post == case.filters \ DOMAIN FieldOf
  IN  [pushed |-> {f \in case.filters \ post : FieldOf[f] \in PayloadFields(s)}, post |-> post]

\* filter_plan_for_scope
FilterPlan(s) ==
  LET pushed == {f \in case.filters \cap DOMAIN FieldOf : FieldOf[f] \in PayloadFields(s)}
  IN  [pushed |-> pushed, post |-> case.filters \ pushed]

\* matches_filters
Matches(i) == case.filters \subseteq case.chunks[i].passes

In(s) == {i \in DOMAIN case.chunks : case.chunks[i].scope = s}

\* _search_scopes: the collections asked, without the empty ones unless all are.
Requested == IF case.scope = "all" THEN {"code", "docs"} ELSE {case.scope}
SearchScopes ==
  LET filled == {s \in Requested : In(s) # {}} IN IF filled = {} THEN Requested ELSE filled

BestEffort == \E s \in SearchScopes : FilterPlan(s).post # {}

\* The points Qdrant answers from, given the condition pushed down.
Pushed(s) == {i \in In(s) : FilterPlan(s).pushed \subseteq case.chunks[i].passes}

-----------------------------------------------------------------------------
(* The dense branch.                                                       *)

\* S in the order of a relation: each element stands behind those that are before it.
Ordered(S, before) ==
  [n \in 1..Cardinality(S) |-> CHOOSE i \in S : Cardinality({j \in S : <<j, i>> \in before}) = n - 1]

Ascending(S) == Ordered(S, {p \in S \X S : p[1] < p[2]})

\* The n best of S by dense score.
Best(S, n) == {i \in S : Cardinality({j \in S : j < i}) < n}

\* apply_max_results_per_file
Diverse(ranking, k, cap) ==
  LET earlier(n) == {m \in 1..(n - 1) : case.chunks[ranking[m]].file = case.chunks[ranking[n]].file}
      kept == {n \in DOMAIN ranking : cap = None \/ Cardinality(earlier(n)) < cap}
      positions == Ascending(kept)
  IN  [n \in 1..Min({k, Len(positions)}) |-> ranking[positions[n]]]

Target == IF case.mode = "semantic" THEN case.k
          ELSE Min({Cap, Max({HybridFloor, case.k * HybridFactor})})
FileCap == IF case.mode = "semantic" THEN case.cap ELSE None

BaseLimit ==
  Min({Cap, Max({Target * Factor, Floor} \cup IF BestEffort THEN {FilteredFloor} ELSE {})})
MaxLimit == IF BestEffort THEN Cap ELSE BaseLimit

Shortlist == {i \in UNION {Best(Pushed(s), limit) : s \in SearchScopes} : Matches(i)}
Kept == Len(Diverse(Ascending(Shortlist), Target, FileCap))

Enough == ~BestEffort \/ Kept >= Target \/ limit >= MaxLimit

Widen ==
  /\ pc = "dense"
  /\ ~Enough
  /\ limit' = Min({limit * 2, MaxLimit})
  /\ UNCHANGED <<case, pc, dense, lexical, sparse, ranked, hits, told>>

\* merge_filter_plans and the warnings about filters
FilterWarnings ==
  LET plans == {FilterPlan(s) : s \in SearchScopes}
  IN  CodesOf({
        <<\E p \in plans : p.pushed # {}, "qdrant_filter_pushdown_used">>,
        <<\E p \in plans : p.post \cap DOMAIN FieldOf # {}, "qdrant_filter_pushdown_partial">>,
        <<BestEffort, "qdrant_filter_post_filter_best_effort">>,
        <<BestEffort /\ limit >= MaxLimit /\ Kept < Target, "filtered_dense_search_best_effort">>})

\* search_v2
EmptyWarning(results) == IF results = <<>> THEN {"empty_result_best_effort"} ELSE {}

\* dense_candidates returns; a semantic search is done.
DenseReturns ==
  /\ pc = "dense"
  /\ Enough
  /\ dense' = Shortlist
  /\ IF case.mode = "semantic"
     THEN /\ pc' = "done"
          /\ ranked' = Ascending(Shortlist)
          /\ hits' = Diverse(ranked', case.k, case.cap)
          /\ told' = FilterWarnings \cup EmptyWarning(hits')
     ELSE /\ pc' = "sparse"
          /\ told' = FilterWarnings
          /\ UNCHANGED <<ranked, hits>>
  /\ UNCHANGED <<case, limit, lexical, sparse>>

-----------------------------------------------------------------------------
(* The lexical branch.                                                     *)

Manifest(s) == case.collections[s].manifest
Usable(s) == Manifest(s) # None /\ ManifestCodes(Manifest(s)) = {}

\* Scopes the branch passes over: without a manifest, or meant to be empty.
PassedOver(s) ==
  \/ ~Usable(s)
  \/ Manifest(s).empty /\ In(s) = {}

Unavailable == {s \in SearchScopes : In(s) # {} /\ (~Usable(s) \/ ~case.collections[s].vector)}
Searched == {s \in SearchScopes : ~PassedOver(s) /\ case.collections[s].vector}

UnavailableCodes ==
  UNION {IF Usable(s) THEN {"sparse_vector_missing"} ELSE ManifestCodes(Manifest(s)) : s \in Unavailable}

\* A plausible slip: one collection with sparse vectors is enough.
AnyScopeServes == \E s \in Requested : In(s) # {} /\ s \notin Unavailable

BranchAvailable == (\E s \in Requested : In(s) # {}) /\ Unavailable = {}

SparseLimit == Min({SparseCap, Max({SparseFloor, case.k * SparseFactor})})

\* Sparse answers of one scope: the best of the points that match the words.  An empty
\* vocabulary has none of them, another one than the points' has them match anything.
SparseAnswers(s) ==
  LET found == {i \in Pushed(s) : case.chunks[i].words}
  IN  IF s \notin Searched \/ Manifest(s).empty THEN {{}}
      ELSE IF case.collections[s].foreign
           THEN {top \in SUBSET Pushed(s) : Cardinality(top) <= SparseLimit}
      ELSE {top \in SUBSET found : Cardinality(top) = Min({SparseLimit, Cardinality(found)})}

\* sparse_query_candidates
SparseSearch ==
  /\ pc = "sparse"
  /\ \E top \in [SearchScopes -> SUBSET DOMAIN case.chunks] :
       /\ \A s \in SearchScopes : top[s] \in SparseAnswers(s)
       /\ \E ranking \in SetToSeqs({i \in UNION {top[s] : s \in SearchScopes} : Matches(i)}) :
            lexical' = ranking
  /\ sparse' = [available |-> BranchAvailable,
                partial |-> Unavailable # {} /\ \E s \in Searched : In(s) # {},
                seen |-> \E s \in SearchScopes : Usable(s),
                stale |-> \E s \in SearchScopes : Usable(s) /\ Manifest(s).stale,
                codes |-> UnavailableCodes]
  /\ pc' = IF BranchAvailable THEN "fuse" ELSE "bm25"
  /\ UNCHANGED <<case, limit, dense, ranked, hits, told>>

\* legacy_bm25_candidates: those rated above zero, added to the sparse ones.
LegacyBm25 ==
  /\ pc = "bm25"
  /\ \E ranking \in SetToSeqs(ToSet(lexical) \cup
         {i \in UNION {In(s) : s \in SearchScopes} : Matches(i) /\ case.chunks[i].rated}) :
       lexical' = ranking
  /\ pc' = "fuse"
  /\ UNCHANGED <<case, limit, dense, sparse, ranked, hits, told>>

-----------------------------------------------------------------------------
(* Fusion.                                                                 *)

RRF_K == 60
Weights == IF case.heavy THEN <<8, 14>> ELSE <<10, 12>>  \* tenths: dense, sparse

\* Where a branch has a chunk, or 0.
RankIn(branch, i) == IF i \in ToSet(branch) THEN CHOOSE r \in DOMAIN branch : branch[r] = i ELSE 0

\* Fractions, with their numerator first.
Plus(x, y) == <<x[1] * y[2] + y[1] * x[2], x[2] * y[2]>>
Above(x, y) == x[1] * y[2] > y[1] * x[2]

\* What a branch adds to a score, weight / (rrf_k + rank).
Share(weight, rank) == <<IF rank = 0 THEN 0 ELSE weight, RRF_K + rank>>

\* A plausible slip: the branch that first has a chunk sets its score.
FirstBranchScore(ranks) ==
  IF ranks[1] # 0 THEN Share(Weights[1], ranks[1]) ELSE Share(Weights[2], ranks[2])

\* The score of a chunk with these ranks.
Score(ranks) == Plus(Share(Weights[1], ranks[1]), Share(Weights[2], ranks[2]))

BestRank(ranks) == Min({ranks[1], ranks[2]} \ {0})

\* Chunks enter the fusion branch by branch, in the order of the ranks.
Earlier(x, y) ==
  IF x[1] # 0 /\ y[1] # 0 THEN x[1] < y[1]
  ELSE x[1] # 0 \/ (y[1] = 0 /\ x[2] < y[2])

\* By score, then by the better rank; a stable sort leaves the others as they entered.
Ahead(x, y) ==
  \/ Above(Score(x), Score(y))
  \/ /\ ~Above(Score(y), Score(x))
     /\ BestRank(x) < BestRank(y) \/ (BestRank(x) = BestRank(y) /\ Earlier(x, y))

\* weighted_rrf
Fuse(first, second) ==
  LET all == ToSet(first) \cup ToSet(second)
      ranks(i) == <<RankIn(first, i), RankIn(second, i)>>
  IN  Ordered(all, {p \in all \X all : Ahead(ranks(p[1]), ranks(p[2]))})

\* _hybrid_warnings
SparseWarnings ==
  CodesOf({<<~sparse.available, "sparse_branch_unavailable">>,
           <<~sparse.available, "legacy_lexical_fallback_used">>,
           <<sparse.partial, "sparse_scope_partial_unavailable">>,
           <<sparse.stale, "sparse_stats_stale">>})
  \cup IF sparse.available THEN {} ELSE sparse.codes

\* build_hybrid_search_execution
HybridReturns ==
  /\ pc = "fuse"
  /\ ranked' = Fuse(Ascending(dense), lexical)
  /\ hits' = Diverse(ranked', case.k, case.cap)
  /\ told' = told \cup SparseWarnings \cup EmptyWarning(hits')
  /\ pc' = "done"
  /\ UNCHANGED <<case, limit, dense, lexical, sparse>>

-----------------------------------------------------------------------------
Init ==
  /\ case \in Cases
  /\ pc = "dense"
  /\ limit = BaseLimit
  /\ dense = {}
  /\ lexical = <<>>
  /\ sparse = None
  /\ ranked = <<>>
  /\ hits = <<>>
  /\ told = {}

\* A search ends; the end is not a deadlock.
Next == Widen \/ DenseReturns \/ SparseSearch \/ LegacyBm25 \/ HybridReturns

Spec == Init /\ [][Next]_vars

-----------------------------------------------------------------------------
Admissible == {i \in UNION {In(s) : s \in Requested} : Matches(i)}

\* A semantic search (dense_candidates) returns the best of all indexed
\* chunks that pass the filters, or warns that filters were applied to a
\* bounded shortlist; when it returns fewer than there are, it says the
\* shortlist was at its cap.  A cap per file is applied to the shortlist by
\* design, so it may leave out results where the shortlist was full.
ResultsAreExactOrTold ==
  (pc = "done" /\ case.mode = "semantic") =>
    LET exact == Diverse(Ascending(Admissible), case.k, case.cap)
        full == \E s \in SearchScopes : Cardinality(Pushed(s)) > limit
    IN  /\ \/ hits = exact
           \/ "qdrant_filter_post_filter_best_effort" \in told
           \/ case.cap # None /\ full
        /\ Len(hits) < Len(exact) =>
             \/ "filtered_dense_search_best_effort" \in told
             \/ case.cap # None /\ ~BestEffort /\ full

\* The fusion (weighted_rrf) keeps what both branches agree on: when a hit is
\* behind another candidate in every branch that returned it, that candidate
\* is a hit too, and ahead of it; and no chunk is a hit twice.
FusionKeepsDominance ==
  (pc = "done" /\ case.mode = "hybrid" /\ case.cap = None) =>
    LET branches == <<Ascending(dense), lexical>>
        dominates(i, j) ==
          \A b \in 1..2 : j \in ToSet(branches[b]) =>
            \E q, r \in DOMAIN branches[b] : q < r /\ branches[b][q] = i /\ branches[b][r] = j
    IN  /\ IsInjective(hits)
        /\ \A n \in DOMAIN hits : \A i \in dense \cup ToSet(lexical) :
             dominates(i, hits[n]) => \E m \in 1..(n - 1) : hits[m] = i

\* index_status reports the sparse branch ready (retrieval_status) exactly
\* when a search of the same collections would use it
\* (sparse_query_candidates): the two decide it separately, from the same
\* manifests and collections.  They differ over points whose manifest says
\* that there are none, which a rebuild leaves that fails after it saved the
\* manifest and before it drops the collection: there the status does not
\* trust the manifest (retrieval_status.py:63-68), the search does
\* (sparse_branch.py:71).
StatusAgreesWithSearch ==
  (sparse # None) =>
    LET scopes == {[scope |-> s, points |-> Cardinality(In(s)),
                    exists |-> case.collections[s].current \/ In(s) # {},
                    current |-> case.collections[s].current,
                    kind |-> case.collections[s].kind,
                    vector |-> case.collections[s].vector,
                    manifest |-> Manifest(s)] : s \in Requested}
        denied == \E s \in Requested : In(s) # {} /\ Usable(s) /\ Manifest(s).empty
    IN  RetrievalStatus(scopes).sparse = (sparse.available /\ ~denied)

\* No chunk that passes the filters is lost to the lexical branch because
\* its collection has no sparse vectors while another one has.  Where the
\* sparse branch is used, that is none of those with words of the query,
\* but where their collection has more of them than the limit, or points
\* foreign to its manifest (a rebuild failed after it saved the manifest,
\* indexer.py:233); where it is not, none of those the BM25 rates above zero.
NoLexicalMatchIsLost ==
  (pc = "done" /\ case.mode = "hybrid") =>
    \A i \in Admissible :
      LET s == case.chunks[i].scope
      IN  IF BranchAvailable
          THEN case.chunks[i].words =>
                 \/ i \in ToSet(lexical)
                 \/ Cardinality({j \in Pushed(s) : case.chunks[j].words}) > SparseLimit
                 \/ case.collections[s].foreign
          ELSE case.chunks[i].rated => i \in ToSet(lexical)
=============================================================================
