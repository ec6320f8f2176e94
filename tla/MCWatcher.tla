------------------------------ MODULE MCWatcher ------------------------------
(***************************************************************************)
(* Watcher for TLC: one file, two polling threads, the tools and another   *)
(* process.                                                                *)
(***************************************************************************)
EXTENDS Watcher

CONSTANTS p1, l1, l2

OneScope == [p \in Path |-> "code"]
=============================================================================
