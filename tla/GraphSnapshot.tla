--------------------------- MODULE GraphSnapshot ---------------------------
(***************************************************************************)
(* The rows build_graph_snapshot derives from the indexed chunks           *)
(* (graph/builder.py, graph/extractors/*.py), as operators on the chunks.  *)
(*                                                                         *)
(* A file is its path, and what is indexed of it is a version.  All nodes  *)
(* that belong to one path (the file, its chunks, symbols, sections, tests)*)
(* are one node here, and so are its chunks; a node that several paths may *)
(* share (module, route, environment variable) is a node of its own.  An   *)
(* edge has the path of the file it was extracted from; its id does not    *)
(* depend on that path.                                                    *)
(*                                                                         *)
(* What a text says is abstracted to the names it defines and uses and to  *)
(* its references.  A reference is the sequence of targets the extractor   *)
(* tries: the prefixes of an imported module, longest first, or the path,  *)
(* route and symbol readings of a word in a document.                      *)
(***************************************************************************)
EXTENDS Naturals, Sequences, FiniteSets

CONSTANTS
  Path,      \* the paths, numbered in their sorted order
  Version,   \* what may be indexed of a path
  Module, Route, Symbol, Env,  \* the names texts define and use
  Text,      \* what the versions of the paths say
  Rank,      \* of a name, which of the texts that define it comes before which: packages
             \* and then by path for a module, in scroll order for a symbol
  Digest,    \* the hashes of their chunks' texts; positions are not part of them
  None       \* nothing indexed

Name == Module \cup Route \cup Symbol \cup Env

ASSUME SnapshotAssumption ==
  /\ IsFiniteSet(Path) /\ Path \subseteq Nat
  /\ Path \cap Name = {} /\ Symbol \cap (Module \cup Route \cup Env) = {}
  /\ None \notin Path \cup Version \cup Name
  /\ DOMAIN Text \subseteq Path \X Version
  /\ \A x \in DOMAIN Text :
       /\ Text[x].defines \subseteq Module \cup Route \cup Symbol
       /\ Text[x].env \subseteq Env
       /\ Text[x].refs \subseteq Seq(Path \cup Name)
       /\ Text[x].guesses \subseteq Path \ {x[1]}
  /\ Rank \in [Name -> [DOMAIN Text -> Nat]]
  /\ \A n \in Name, x, y \in DOMAIN Text : Rank[n][x] = Rank[n][y] => x[1] = y[1]
  /\ DOMAIN Digest = DOMAIN Text
  /\ \A x \in DOMAIN Text : None \notin {[hash |-> Digest[x], input |-> i] : i \in Version \cup {None}}

VersionsOf(p) == {v \in Version : <<p, v>> \in DOMAIN Text}
Indexed == {c \in [Path -> Version \cup {None}] : \A p \in Path : c[p] \in VersionsOf(p) \cup {None}}

Present(chunks) == {p \in Path : chunks[p] # None}
Body(chunks, p) == Text[<<p, chunks[p]>>]
Definers(chunks, n) == {p \in Present(chunks) : n \in Body(chunks, p).defines}
Users(chunks, n) == {p \in Present(chunks) : n \in Body(chunks, p).defines \cup Body(chunks, p).env}

First(S) == CHOOSE x \in S : \A y \in S : x <= y
Last(S) == CHOOSE x \in S : \A y \in S : x >= y

-----------------------------------------------------------------------------
(* References *)

\* _resolve_module, _emit_reference: the first target there is.
Exists(chunks, t) == IF t \in Path THEN chunks[t] # None ELSE Definers(chunks, t) # {}
Resolve(chunks, ref) ==
  LET found == {i \in DOMAIN ref : Exists(chunks, ref[i])}
  IN  IF found = {} THEN None ELSE ref[First(found)]

\* path_by_module, known_symbols: the first file that defines a name.
RankOf(chunks, t, p) == Rank[t][<<p, chunks[p]>>]
Foremost(chunks, t) ==
  CHOOSE p \in Definers(chunks, t) :
    \A q \in Definers(chunks, t) : RankOf(chunks, t, p) <= RankOf(chunks, t, q)
PathOf(chunks, t) == IF t \in Path THEN t ELSE Foremost(chunks, t)

Targets(chunks, p) == {Resolve(chunks, r) : r \in Body(chunks, p).refs} \ {None}

\* The modules a file imports: neither its own nor one it stands for itself.
Imports(chunks, p) ==
  {t \in Targets(chunks, p) \cap Module :
     t \notin Body(chunks, p).defines /\ PathOf(chunks, t) # p}

-----------------------------------------------------------------------------
(* Nodes, links and edges *)

Own(p) == <<"own", p>>
Shared(n) == <<"shared", n>>
OwnNodes == {Own(p) : p \in Path}
SharedNodes == {Shared(n) : n \in Module \cup Route \cup Env}

Edge(src, dst, p, guess) == [src |-> src, dst |-> dst, path |-> p, guess |-> guess]
SameId(e, f) == e.src = f.src /\ e.dst = f.dst

\* The row of a shared node names the last file that defines it; an environment
\* variable has no such file.
Node(chunks, id) ==
  LET at == IF id \in OwnNodes THEN id[2]
            ELSE IF id[2] \in Env THEN None ELSE Last(Definers(chunks, id[2]))
  IN  [id |-> id, path |-> at, chunk |-> IF at = None THEN None ELSE <<at, chunks[at]>>]

BuildNodes(chunks) ==
  {Node(chunks, Own(p)) : p \in Present(chunks)}
    \cup {Node(chunks, Shared(n)) : n \in {m \in Name \ Symbol : Users(chunks, m) # {}}}

\* graph_node_chunks: the chunks that support a node.
BuildLinks(chunks) ==
  {<<Own(p), <<p, chunks[p]>>>> : p \in Present(chunks)}
    \cup UNION {{<<Shared(n), <<p, chunks[p]>>>> : p \in Users(chunks, n)} : n \in Name \ Symbol}

\* file_defines_module, route_defined_in_chunk, config_defines_env, code_reads_env.
StructureEdges(chunks, p) ==
  {Edge(Own(p), Shared(n), p, FALSE) :
     n \in (Body(chunks, p).defines \ Symbol) \cup Body(chunks, p).env}

\* module_imports_module, file_imports_file and the imports of a test.
ImportEdges(chunks, p) ==
  {Edge(Own(p), Own(PathOf(chunks, t)), p, FALSE) : t \in Imports(chunks, p)}
    \cup {Edge(Shared(m), Shared(t), p, FALSE) :
            m \in Body(chunks, p).defines \cap Module, t \in Imports(chunks, p)}

\* doc_references_path, doc_references_route, doc_references_symbol.
ReferenceEdges(chunks, p) ==
  {Edge(Own(p), IF t \in Route THEN Shared(t) ELSE Own(PathOf(chunks, t)), p, FALSE) :
     t \in Targets(chunks, p) \ Module}

\* A test without an imported target gets the one file its name asks for, if
\* there is exactly one (_naming_target).
GuessEdges(chunks, p) ==
  LET named == Body(chunks, p).guesses \cap Present(chunks)
  IN  IF Imports(chunks, p) # {} \/ Cardinality(named) # 1 THEN {}
      ELSE {Edge(Own(p), Own(q), p, TRUE) : q \in named}

\* What the extractors find in a file, and in all.
FoundEdges(chunks, p) ==
  StructureEdges(chunks, p) \cup ImportEdges(chunks, p)
    \cup ReferenceEdges(chunks, p) \cup GuessEdges(chunks, p)
Extracted(chunks) == UNION {FoundEdges(chunks, p) : p \in Present(chunks)}

\* edges_by_id: of two edges with one id the later file's stays.
BuildEdges(chunks) ==
  LET found == Extracted(chunks)
  IN  {e \in found : \A f \in found : SameId(e, f) => f.path <= e.path}

\* graph_files: content_hash, graph_input_signature.
BuildFiles(chunks) ==
  [p \in Path |-> IF chunks[p] = None THEN None ELSE [hash |-> Digest[<<p, chunks[p]>>], input |-> chunks[p]]]

Snapshot(chunks) ==
  [files |-> BuildFiles(chunks), nodes |-> BuildNodes(chunks),
   links |-> BuildLinks(chunks), edges |-> BuildEdges(chunks)]
=============================================================================
