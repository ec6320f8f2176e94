--------------------------- MODULE MCRepoIndexer ---------------------------
(***************************************************************************)
(* A small instance of RepoIndexer: two files, a code file and a document, *)
(* with two contents of one size, of which one has no chunks and one has   *)
(* two.                                                                    *)
(***************************************************************************)
EXTENDS RepoIndexer, TLC

CONSTANTS blank, long

TwoFiles == <<"code", "docs">>
ChunkCounts == blank :> 0 @@ long :> 2
OneChunk == blank :> 0 @@ long :> 1
Sizes == blank :> 1 @@ long :> 1

\* The behaviours of a repository that was never indexed before: no collections of
\* an older schema, which an interrupted operation can hide or bring back.
NewSpec == Spec /\ collections = {}
=============================================================================
