-------------------------- MODULE MCRepoLifecycle --------------------------
(***************************************************************************)
(* RepoLifecycle for TLC: a process that makes every call, one of the same *)
(* repository that rebuilds it, and one of another repository, which       *)
(* registers theirs without its lease.                                     *)
(***************************************************************************)
EXTENDS RepoLifecycle, TLC

CONSTANTS rt1, rt2, rt3, r1, r2

Served == rt1 :> r1 @@ rt2 :> r1 @@ rt3 :> r2
Called == rt1 :> Tools @@ rt2 :> {"build"} @@ rt3 :> {"register"}
Registered == rt1 :> {r1} @@ rt2 :> {} @@ rt3 :> {r1}

\* Bound: the process that rebuilds has been there from the beginning.
StartedSpec == Starts({rt2}) /\ [][Next]_vars /\ Fairness

\* Bound: only rt1 dies and is started again.
OthersLive ==
  \A rt \in Runtime \ {rt1} : at[Main(rt)] # "down" => at'[Main(rt)] # "down"
=============================================================================
