----------------------------- MODULE MCRetrieval -----------------------------
(***************************************************************************)
(* Searches for TLC: semantic ones over every arrangement of four chunks   *)
(* in two collections and two filter families, and hybrid ones over every  *)
(* state of the sparse branch of two collections, with a filter over four  *)
(* of these states.                                                        *)
(***************************************************************************)
EXTENDS Retrieval

Scopes == {"code", "docs"}

ManifestWith(compatible, empty) ==
  [schema |-> compatible, contract |-> compatible, analyzer |-> TRUE, encoder |-> TRUE,
   empty |-> empty, stale |-> FALSE]

Collection(current, kind, vector, manifest, foreign) ==
  [current |-> current, kind |-> kind, vector |-> vector, manifest |-> manifest, foreign |-> foreign]

\* What a read finds: a collection of this schema with and without sparse
\* vectors, one of an older schema, or none; with any manifest beside it,
\* and points of a manifest before that.
Current == Collection(TRUE, "named", TRUE, ManifestWith(TRUE, FALSE), FALSE)
Interrupted == Collection(TRUE, "named", TRUE, ManifestWith(TRUE, TRUE), TRUE)
Dense == Collection(TRUE, "named", FALSE, ManifestWith(TRUE, FALSE), FALSE)
Older == Collection(FALSE, "unnamed_legacy", FALSE, None, FALSE)
Stores == {<<TRUE, "named", TRUE>>, <<TRUE, "named", FALSE>>, <<FALSE, "unnamed_legacy", FALSE>>}
Manifests == {None, ManifestWith(FALSE, FALSE), ManifestWith(TRUE, FALSE), ManifestWith(TRUE, TRUE)}
Collections ==
  {Collection(s[1], s[2], s[3], m, FALSE) : s \in Stores, m \in Manifests}
  \cup {Collection(TRUE, "named", TRUE, ManifestWith(TRUE, empty), TRUE) : empty \in BOOLEAN}

Chunk(scope, file, passes, words, rated) ==
  [scope |-> scope, file |-> file, passes |-> passes, words |-> words, rated |-> rated]

\* Without words of the query, with common ones, and with one that BM25 counts.
Lexical == {<<FALSE, FALSE>>, <<TRUE, FALSE>>, <<TRUE, TRUE>>}

Filters == SUBSET {"path_prefix", "include_paths"}

SemanticCases ==
  UNION {
    [chunks: [1..4 -> {Chunk(s, f, p, FALSE, FALSE) : s \in Scopes, f \in {1}, p \in SUBSET filters}],
     collections: [Scopes -> {Current, Older}],
     mode: {"semantic"}, scope: {"all"}, filters: {filters}, k: {1, 2}, cap: {None}, heavy: {FALSE}]
    : filters \in Filters}

CappedCases ==
  UNION {
    [chunks: [1..4 -> {Chunk("code", f, p, FALSE, FALSE) : f \in {1, 2}, p \in SUBSET filters}],
     collections: {[s \in Scopes |-> Current]},
     mode: {"semantic"}, scope: {"code"}, filters: {filters}, k: {2}, cap: {1}, heavy: {FALSE}]
    : filters \in SUBSET {"include_paths"}}

HybridOver(filters, collections, heavy) ==
  {c \in [chunks: [1..3 -> {Chunk(s, 1, p, l[1], l[2]) : s \in Scopes, p \in SUBSET filters, l \in Lexical}],
          collections: [Scopes -> collections],
          mode: {"hybrid"}, scope: {"all"}, filters: {filters}, k: {2}, cap: {None}, heavy: heavy]
     : Possible(c)}

HybridCases ==
  HybridOver({}, Collections, BOOLEAN)
  \cup UNION {HybridOver({filter}, {Current, Interrupted, Dense, Older}, {FALSE})
              : filter \in {"include_paths", "path_prefix"}}

MCCases == SemanticCases \cup CappedCases \cup HybridCases
=============================================================================
