---------------------------- MODULE EnsureReady ----------------------------
(***************************************************************************)
(* repo_semantic_ensure_ready.py, the host's script that looks whether the *)
(* server of a repository is ready and, in safe-recover mode, repairs what *)
(* may be repaired without asking, while the server and everything around  *)
(* it go on (SearchCaches).                                                *)
(*                                                                         *)
(* Every request may time out, before or after the server has taken it; a  *)
(* call the script has given up on still runs to its end.                  *)
(***************************************************************************)
EXTENDS SearchCaches

CONSTANTS
  Arguments,  \* the command lines: mode, repo, profile, and the options
  MaxPolls    \* polls of the readiness endpoints before the deadline

ASSUME ScriptAssumption ==
  /\ Arguments \subseteq
       [mode : {"diagnose", "safe-recover", "permissioned-lifecycle"},
        repo : {"this", "other"}, profile : BOOLEAN,
        backend : BOOLEAN, watcher : BOOLEAN, graph : BOOLEAN, probe : BOOLEAN]
  /\ MaxPolls \in Nat

VARIABLES
  args,
  pc,       \* where the script is
  polls,
  known,    \* the status it goes by
  matches,  \* repo and profile matched in the first status
  did,      \* what came of start_watcher and of update_graph
  result

\* Observer: when the script began.
VARIABLE began

script == <<args, pc, polls, known, matches, did, result>>
allVars == <<vars, script, began>>

-----------------------------------------------------------------------------
(* Verdicts *)

RuntimeMatches(a) == a.repo = "this"
ActiveMatches(a, s) == s.activeRepo = a.repo
RepoMatches(a, s) == RuntimeMatches(a) /\ ActiveMatches(a, s)

Action(code, permission) == [code |-> code, permission |-> permission]

PermissionCodes == {"activate_repo", "active_repo_mismatch", "backend_switch_required",
  "build_graph", "build_index", "build_index_required", "embedding_contract_mismatch",
  "explicit_rebuild_required", "rebuild_graph", "rebuild_index", "runtime_repo_mismatch",
  "runtime_switch_required", "switch_backend", "switch_runtime"}

Verdict(readiness, actions) == [readiness |-> readiness, actions |-> actions]

GraphUsable(g) == g # None /\ g.available /\ g.allowed

\* The graph is required and cannot be used.
GraphVerdict(g) ==
  IF g.required
  THEN Verdict(IF g.safe THEN "usable_degraded" ELSE "needs_user_permission",
               {Action("update_graph", ~g.safe)})
  ELSE IF g.unknown
  THEN Verdict("usable_degraded", {Action("graph_invalidated_paths_unknown", FALSE)})
  ELSE Verdict("needs_user_permission", {Action("build_graph", TRUE)})

UsableVerdict(s) ==
  IF s.stale \/ s.warnings # {} THEN Verdict("usable_degraded", {})
  ELSE Verdict(IF GraphUsable(s.graph) THEN "ready" ELSE "search_only", {})

UnavailableVerdict(a, s) ==
  LET codes == s.actions \cup CodesOf({<<"backend_switch_required" \in s.codes, "backend_switch_required">>,
                                       <<s.activeRepo # "this", "runtime_switch_required">>})
      permission == codes \cap PermissionCodes # {}
  IN  Verdict(IF permission THEN "needs_user_permission" ELSE "blocked",
              {Action("search_unavailable", permission)})

\* A plausible slip: what the graph needs is looked at before whether search works.
ReadinessGraphFirst(a, s) ==
  IF ~RepoMatches(a, s)
  THEN Verdict("needs_user_permission", {Action("active_repo_mismatch", TRUE)})
  ELSE IF a.graph /\ ~GraphUsable(s.graph) THEN GraphVerdict(s.graph)
  ELSE IF ~s.search THEN UnavailableVerdict(a, s)
  ELSE UsableVerdict(s)

\* _readiness_from_status
ReadinessFromStatus(a, s) ==
  IF ~RepoMatches(a, s)
  THEN Verdict("needs_user_permission",
               {Action(IF RuntimeMatches(a) THEN "active_repo_mismatch" ELSE "runtime_repo_mismatch", TRUE)})
  ELSE IF ~a.profile THEN Verdict("needs_user_permission", {Action("profile_mismatch", TRUE)})
  ELSE IF ~s.search THEN UnavailableVerdict(a, s)
  ELSE IF a.graph /\ ~GraphUsable(s.graph) THEN GraphVerdict(s.graph)
  ELSE UsableVerdict(s)

\* What became of an attempt to update the graph changes the verdict.
AfterGraph(v) ==
  LET suppressed == {"build_graph", "rebuild_graph"}
                      \cup IF did.graph # "updated" THEN {"update_graph"} ELSE {}
      rest == {a \in v.actions : a.code \notin suppressed}
      Unasked(r) == IF v.readiness = "needs_user_permission" THEN r ELSE v.readiness
  IN  CASE did.graph = "no" -> v
        [] did.graph \in {"updated", "bounds"} -> Verdict(v.readiness, rest)
        [] did.graph = "busy" ->
             Verdict(Unasked("usable_degraded"), rest \cup {Action("lifecycle_operation_in_progress", FALSE)})
        [] did.graph = "transport" -> Verdict("blocked", rest \cup {Action("update_graph", FALSE)})
        [] OTHER -> Verdict(Unasked("blocked"), rest \cup {Action("update_graph", FALSE)})

\* So does what became of start_watcher, and an update stopped at its bounds.
AfterRepairs(v) ==
  LET asked == CodesOf({<<did.watcher = "failed", Action("start_watcher_failed", TRUE)>>,
                        <<did.watcher = "permission", Action("startup_reconcile_bounds_exceeded", TRUE)>>,
                        <<did.graph = "bounds", Action("update_graph", TRUE)>>})
  IN  IF asked # {} THEN Verdict("needs_user_permission", v.actions \cup asked)
      ELSE IF did.watcher = "in_progress" /\ v.readiness = "ready"
      THEN Verdict("usable_degraded", v.actions)
      ELSE v

ReadyStates == {"ready", "usable_degraded", "search_only"}

ExitCode(readiness) ==
  IF readiness \in ReadyStates THEN 0 ELSE IF readiness = "needs_user_permission" THEN 3 ELSE 1

Result(v) == [readiness |-> v.readiness, actions |-> v.actions, exit |-> ExitCode(v.readiness)]

-----------------------------------------------------------------------------
(* Requests *)

\* GET /healthz and /readyz: answered between two calls of the event loop, or not in
\* time.
Healthy(answered) == answered /\ server # "down" /\ call = None
Ready(answered) == Healthy(answered) /\ server = "ready"

\* The call reaches the server, or there is none, or it times out in the queue.
Submit(tool, then) ==
  /\ Receive(tool, "script")
  /\ UNCHANGED events
  /\ pc' = then

Quiet == UNCHANGED <<clock, world, store, server, caches, events>>
Take == reply' = None /\ UNCHANGED <<clock, world, store, server, call, seen, cache, lexical, events>>

\* The answer to the script's call.
Got(tool) == reply # None /\ reply.to = "script" /\ reply.tool = tool


-----------------------------------------------------------------------------
(* ensure_ready, step by step *)

\* healthz and readyz once; if only the second fails, they are polled.
Check ==
  /\ pc = "check"
  /\ Quiet
  /\ \E healthAnswered, readyAnswered \in BOOLEAN :
       pc' = IF ~Healthy(healthAnswered) THEN "backend"
             ELSE IF Ready(readyAnswered) THEN "ask" ELSE "wait"
  /\ UNCHANGED <<args, polls, known, matches, did, result>>

\* A plausible slip: the deadline of the polls is never looked at.
WaitOn ==
  /\ pc \in {"wait", "rewait"}
  /\ Quiet
  /\ polls < MaxPolls + 1
  /\ polls' = polls + 1
  /\ UNCHANGED <<args, pc, known, matches, did, result>>

\* _wait_for_http_readiness: until both are fine or the deadline has passed; Waited is
\* the last poll.  After a docker start the script goes on in the same way.
Wait ==
  /\ pc \in {"wait", "rewait"}
  /\ Quiet
  /\ polls < MaxPolls
  /\ polls' = polls + 1
  /\ UNCHANGED <<args, pc, known, matches, did, result>>

Waited ==
  /\ pc \in {"wait", "rewait"}
  /\ Quiet
  /\ \E answered \in BOOLEAN :
       /\ Ready(answered) \/ polls >= MaxPolls
       /\ pc' = IF Healthy(answered) \/ pc = "rewait" THEN "ask" ELSE "backend"
  /\ polls' = 0
  /\ UNCHANGED <<args, known, matches, did, result>>

\* docker start of an existing container; the server begins to bootstrap.
StartBackend ==
  /\ pc = "backend"
  /\ \/ /\ args.mode = "safe-recover" /\ args.backend
        /\ server' = IF server = "down" THEN "bootstrap" ELSE server
        /\ UNCHANGED <<clock, world, store, caches, events>>
        /\ pc' = "rewait"
     \/ Quiet /\ pc' = "ask"
  /\ UNCHANGED <<args, polls, known, matches, did, result>>

Ask ==
  /\ pc = "ask"
  /\ Submit("index_status", "asked")
  /\ UNCHANGED <<args, polls, known, matches, did, result>>

Finish(v) ==
  /\ result' = Result(v)
  /\ pc' = "done"

\* No status: nothing else is tried.
Unreachable ==
  /\ pc \in {"ask", "asked"}
  /\ Quiet
  /\ result' = [readiness |-> "blocked", actions |-> {Action("check_backend", TRUE)}, exit |-> 1]
  /\ pc' = "done"
  /\ UNCHANGED <<args, polls, known, matches, did>>

\* The watcher is started if the status wants it and nothing speaks against it.
WantsWatcher(s, m) ==
  args.mode = "safe-recover" /\ args.watcher /\ m /\ s.search /\ s.watcher.required

Learn ==
  /\ pc = "asked" /\ Got("index_status") /\ reply.ok
  /\ Take
  /\ known' = reply.status
  /\ matches' = (RepoMatches(args, known') /\ args.profile)
  /\ pc' = IF WantsWatcher(known', matches') THEN "start" ELSE "graph"
  /\ UNCHANGED <<args, polls, did, result>>

Start ==
  /\ pc = "start"
  /\ Submit("start_watcher", "started")
  /\ UNCHANGED <<args, polls, known, matches, did, result>>

\* What start_watcher answered; an embedded status replaces the first one.
Started ==
  /\ pc = "started" /\ Got("start_watcher") /\ reply.ok
  /\ Take
  /\ did' = [did EXCEPT !.watcher =
               IF reply.what \in {"started", "retry"} THEN "started" ELSE reply.what]
  /\ known' = IF reply.status = None THEN known ELSE reply.status
  /\ pc' = "graph"
  /\ UNCHANGED <<args, polls, matches, result>>

\* An error or no answer: healthz may still say that the watcher runs.
ConfirmAnyHealth(answered) == Healthy(answered)
Confirms(answered) == Healthy(answered) /\ watching

StartUnclear ==
  /\ \/ pc = "start"
     \/ pc = "started" /\ ~(Got("start_watcher") /\ reply.ok)
  /\ Quiet
  /\ \E answered \in BOOLEAN :
       did' = [did EXCEPT !.watcher = IF Confirms(answered) THEN "started" ELSE "failed"]
  /\ pc' = "graph"
  /\ UNCHANGED <<args, polls, known, matches, result>>

WantsGraph ==
  /\ args.mode = "safe-recover" /\ matches /\ known.search
  /\ known.graph # None /\ known.graph.required /\ known.graph.safe

AskGraph ==
  /\ pc = "graph" /\ WantsGraph
  /\ Submit("update_graph", "updating")
  /\ UNCHANGED <<args, polls, known, matches, did, result>>

\* The graph part of the status is replaced by the one update_graph answers with.
Updated ==
  /\ pc = "updating" /\ Got("update_graph") /\ reply.ok
  /\ Take
  /\ did' = [did EXCEPT !.graph = reply.what]
  /\ known' = [known EXCEPT !.graph = reply.graph]
  /\ pc' = "decide"
  /\ UNCHANGED <<args, polls, matches, result>>

UpdateUnclear ==
  /\ \/ pc = "graph" /\ WantsGraph
     \/ pc = "updating" /\ ~(Got("update_graph") /\ reply.ok)
  /\ Quiet
  /\ did' = [did EXCEPT !.graph = "transport"]
  /\ pc' = "decide"
  /\ UNCHANGED <<args, polls, known, matches, result>>

NoUpdate ==
  /\ pc = "graph" /\ ~WantsGraph
  /\ Quiet
  /\ pc' = "decide"
  /\ UNCHANGED <<args, polls, known, matches, did, result>>

FinalVerdict == AfterRepairs(AfterGraph(ReadinessFromStatus(args, known)))

Decide ==
  /\ pc = "decide"
  /\ IF args.probe /\ known.search
     THEN Submit("search", "probing") /\ UNCHANGED result
     ELSE Quiet /\ Finish(FinalVerdict)
  /\ UNCHANGED <<args, polls, known, matches, did>>

Probed ==
  /\ pc = "probing" /\ Got("search") /\ reply.ok
  /\ Take
  /\ Finish(FinalVerdict)
  /\ UNCHANGED <<args, polls, known, matches, did>>

\* A probe that fails takes back a verdict that was good.
ProbeFails ==
  /\ \/ pc = "decide" /\ args.probe /\ known.search
     \/ pc = "probing" /\ ~(Got("search") /\ reply.ok)
  /\ Quiet
  /\ LET v == FinalVerdict
     IN  Finish(Verdict(IF v.readiness \in ReadyStates THEN "blocked" ELSE v.readiness,
                        v.actions \cup {Action("repo_context_search_probe_failed", FALSE)}))
  /\ UNCHANGED <<args, polls, known, matches, did>>

Script ==
  \/ Check \/ Wait \/ Waited \/ StartBackend
  \/ Ask \/ Unreachable \/ Learn \/ Start \/ Started \/ StartUnclear
  \/ AskGraph \/ Updated \/ UpdateUnclear \/ NoUpdate
  \/ Decide \/ Probed \/ ProbeFails

-----------------------------------------------------------------------------

InitAll ==
  /\ Init
  /\ args \in Arguments
  /\ pc = "check" /\ polls = 0
  /\ known = None /\ matches = FALSE
  /\ did = [watcher |-> "no", graph |-> "no"]
  /\ result = None
  /\ began = 0

\* What the observers note.
Note ==
  /\ Observe
  /\ began' = IF pc = "check" THEN clock ELSE began

\* What happens after the script's end is not looked at.
Next ==
  \/ Script /\ Note
  \/ pc # "done" /\ (Around \/ Loop \/ AgentCalls) /\ UNCHANGED script /\ Note

Spec == InitAll /\ [][Next]_allVars

-----------------------------------------------------------------------------
(* Properties *)

\* The type invariant: the script polls within its deadline, goes by a status once it
\* has one, asks for repairs in safe-recover mode only, and its exit code is its verdict.
TypeOK ==
  /\ CachesTypeOK
  /\ polls \in 0..MaxPolls
  /\ pc \in {"check", "wait", "rewait", "backend", "ask", "asked", "start", "started",
            "graph", "updating", "decide", "probing", "done"}
  /\ pc \in {"check", "wait", "rewait", "backend", "ask", "asked"} => known = None
  /\ pc \in {"start", "started", "graph", "updating", "decide", "probing"} => "search" \in DOMAIN known
  /\ did.watcher \in {"no", "started", "in_progress", "permission", "failed", "switch"}
  /\ did.graph \in {"no", "updated", "bounds", "skipped", "unavailable", "busy", "transport"}
  /\ args.mode # "safe-recover" => did = [watcher |-> "no", graph |-> "no"]
  /\ pc # "done" => result = None
  /\ pc = "done" =>
       /\ result.exit = ExitCode(result.readiness)
       /\ (known = None /\ result.readiness = "blocked") \/ "search" \in DOMAIN known

\* A good verdict was earned: search was available at some moment since the script
\* began or shortly before, as long as a status may be cached.
VerdictIsEarned ==
  result # None /\ result.exit = 0 => lastSearchable >= began - TTL

\* If the script says that it started the watcher, the watcher has run.
StartIsReal == did.watcher = "started" => watching
=============================================================================
