------------------------------ MODULE MCServing ------------------------------
(***************************************************************************)
(* The server, its caches and the readiness script, for TLC.               *)
(***************************************************************************)
EXTENDS EnsureReady

CONSTANTS p

GraphSummary(state, available, allowed, required, safe) ==
  [state |-> state, available |-> available, allowed |-> allowed,
   required |-> required, safe |-> safe, unknown |-> FALSE]

MCGraphs == {GraphSummary("ready", TRUE, TRUE, FALSE, FALSE),
             GraphSummary("stale", FALSE, FALSE, TRUE, TRUE)}

\* An agent's host that repairs what it may, and one that only looks and probes.
MCArguments == {
  [mode |-> "safe-recover", repo |-> "this", profile |-> TRUE,
   backend |-> TRUE, watcher |-> TRUE, graph |-> TRUE, probe |-> FALSE],
  [mode |-> "diagnose", repo |-> "this", profile |-> TRUE,
   backend |-> FALSE, watcher |-> FALSE, graph |-> FALSE, probe |-> TRUE]}
=============================================================================
