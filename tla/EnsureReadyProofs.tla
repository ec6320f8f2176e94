-------------------------- MODULE EnsureReadyProofs --------------------------
(***************************************************************************)
(* Theorems about the server's answers (SearchCaches) and the readiness    *)
(* script (EnsureReady), for any paths, bounds, command lines, cache       *)
(* lifetime, and any interleaving of what goes on around the server.       *)
(*                                                                         *)
(* A status is built from readings at different moments, and cached.  The  *)
(* argument follows a fact from the moment of its reading to the answer:   *)
(* whatever the build or the cache holds was so at some moment since the   *)
(* time the build will be stamped with.                                    *)
(***************************************************************************)
EXTENDS EnsureReady, TLAPS

-----------------------------------------------------------------------------
(* The inductive invariant *)

\* The observers know of now.
Moments ==
  /\ clock \in Nat
  /\ lastSearchable \in Nat /\ lastSearchable <= clock
  /\ Gate = {} => lastSearchable = clock
  /\ \A p \in Path :
       /\ lastClean[p] \in Nat /\ lastClean[p] <= clock
       /\ Clean(p) => lastClean[p] = clock

Tools == {"index_status", "search", "update_graph", "reindex_paths", "start_watcher"}

\* A call has read the clock when it came, and perhaps again since then; an update of the
\* graph that has come through was let through by a status, start_watcher says that it
\* started the watcher only if it runs, and a tool that works on the index holds the lease.
CallOK ==
  call # None =>
    /\ call = [tool |-> call.tool, from |-> call.from, at |-> call.at,
               start |-> call.start, now |-> call.now, what |-> call.what]
    /\ call.tool \in Tools /\ call.from \in {"agent", "script"}
    /\ {call.start, call.now} \subseteq Nat
    /\ call.start <= call.now /\ call.now <= clock
    /\ call.at = "graph" => lastSearchable >= call.start - TTL
    /\ call.at = "status" /\ call.what \in {"started", "retry"} => watching
    /\ call.at \in {"work", "worked"} => op \in Operations /\ op.by = "tool"

SearchSeen ==
  SearchUnavailableCodes(seen.row, seen.otherBackend, seen.activeRepo = "this",
                         IndexContractIssue([code |-> Fitting])) = {}

CleanSince(p, time) == lastClean[p] >= time

\* The build of a status reads in three parts, and then what is read last.
First == {"row", "activeRepo", "otherBackend", "points"}
Second == First \cup {"git", "listed"}
Third == Second \cup {"rows", "complete", "left", "dirty"}

\* What it has read of the registry, ...
RegistrySeen == SearchSeen => lastSearchable >= call.now

\* ... of the paths there are (one that was not there and has a row was not clean, but
\* its row is still to be read), ...
ListSeen ==
  "git" \in DOMAIN seen =>
    \A p \in Path \ seen.listed : CleanSince(p, call.now) \/ manifest[p] # None

\* ... and of rows and files: a path that is still to be compared may be found clean later
\* than it was, but not when it was never clean, because a row changes to what the
\* file is.
FilesSeen ==
  "rows" \in DOMAIN seen =>
    /\ seen.complete \in BOOLEAN
    /\ seen.complete =>
         \A p \in Path :
           \/ CleanSince(p, call.now)
           \/ p \in seen.dirty
           \/ p \in seen.left /\ manifest[p] = seen.rows[p]

SeenOK ==
  seen # None => /\ call # None /\ call.at = "status"
                 /\ DOMAIN seen \in {First, Second, Third}
                 /\ RegistrySeen /\ ListSeen /\ FilesSeen

\* What a status says was so since a time.
SaysSearch(s, time) == s.search => lastSearchable >= time
SaysFresh(s, time) == ~s.unknown /\ ~s.stale => \A p \in Path : CleanSince(p, time)

CacheOK ==
  cache # None =>
    /\ cache.ts \in Nat
    /\ "search" \in DOMAIN cache.status
    /\ SaysSearch(cache.status, cache.ts) /\ SaysFresh(cache.status, cache.ts)

\* The holders of the lease have names, and a call notices when there is none.
HolderOK == head \in Nat /\ (op # None => op \in Operations)
CalmOK == call # None /\ op = None => calm

ServerInv == Moments /\ CallOK /\ SeenOK /\ CacheOK /\ HolderOK /\ CalmOK

Earned(s) == "search" \in DOMAIN s /\ SaysSearch(s, began - TTL)

\* What the script sends and gets.
ScriptCalls ==
  /\ began \in Nat /\ began <= clock
  /\ call # None /\ call.from = "script" => pc # "check" /\ call.start >= began
  /\ reply # None /\ reply.to = "script" =>
       /\ pc # "check"
       /\ reply.ok /\ (reply.tool = "index_status" \/ reply.status # None) => Earned(reply.status)
       /\ reply.tool = "start_watcher" /\ reply.what \in {"started", "retry"} => watching

\* What it knows and did: nothing was tried with the graph before the status that allowed it.
ScriptKnows ==
  /\ did = [watcher |-> did.watcher, graph |-> did.graph]
  /\ did.watcher = "started" => watching
  /\ pc \in {"start", "started", "graph", "updating", "decide", "probing"} => Earned(known)
  /\ pc \in {"updating"} => known.search
  /\ pc \in {"decide", "probing"} => did.graph = "no" \/ known.search
  /\ pc \notin {"decide", "probing", "done"} => did.graph = "no"
  /\ pc # "done" => result = None

ScriptInv == ScriptCalls /\ ScriptKnows /\ VerdictIsEarned

ServingInv == ServerInv /\ ScriptInv

-----------------------------------------------------------------------------
(* Time goes on *)

\* What the observers have noted is not taken back.
Later ==
  /\ clock' \in Nat /\ clock <= clock'
  /\ lastSearchable \in Nat /\ lastSearchable' \in Nat /\ lastSearchable <= lastSearchable'
  /\ \A p \in Path :
       /\ lastClean[p] \in Nat /\ lastClean'[p] \in Nat
       /\ lastClean[p] <= lastClean'[p]
       /\ file'[p] = manifest'[p] => lastClean'[p] = clock'

\* With every step that does not turn the clock back, the observers know of the new now.
LEMMA MomentsStep ==
  ASSUME Moments, Observe, clock' \in Nat, clock <= clock'
  PROVE  Moments' /\ Later
<1>1. /\ lastSearchable' \in Nat /\ lastSearchable <= lastSearchable' /\ lastSearchable' <= clock'
      /\ Gate' = {} => lastSearchable' = clock'
  BY DEF Moments, Observe
<1>2. ASSUME NEW p \in Path
      PROVE  /\ lastClean'[p] \in Nat /\ lastClean[p] <= lastClean'[p] /\ lastClean'[p] <= clock'
             /\ file'[p] = manifest'[p] => lastClean'[p] = clock'
  BY DEF Moments, Observe
<1> QED BY <1>1, <1>2 DEF Moments, Later, Clean

\* So what a status said stays said.
LEMMA SayingsStay ==
  ASSUME Later, NEW s, NEW time \in Int
  PROVE  /\ SaysSearch(s, time) => SaysSearch(s, time)'
         /\ SaysFresh(s, time) => SaysFresh(s, time)'
<1>1. SaysSearch(s, time) => SaysSearch(s, time)'
  BY DEF Later, SaysSearch
<1>2. ASSUME NEW p \in Path, CleanSince(p, time) PROVE CleanSince(p, time)'
  <2>1. lastClean[p] \in Nat /\ lastClean'[p] \in Nat /\ lastClean[p] <= lastClean'[p]
    BY DEF Later
  <2> QED BY <1>2, <2>1 DEF CleanSince
<1>3. SaysFresh(s, time) => SaysFresh(s, time)'
  BY <1>2 DEF SaysFresh
<1> QED BY <1>1, <1>3

\* And what the cache holds stays true.
LEMMA CacheStays ==
  ASSUME CacheOK, Later, cache' \in {cache, None}
  PROVE  CacheOK'
<1>1. CASE cache' = None
  BY <1>1 DEF CacheOK
<1>2. CASE cache' = cache /\ cache # None
  BY <1>2, SayingsStay DEF CacheOK, SaysSearch, SaysFresh, CleanSince, Later
<1> QED BY <1>1, <1>2

\* And a call notices.
LEMMA CalmStep ==
  ASSUME CalmOK, Observe
  PROVE  CalmOK'
BY DEF CalmOK, Observe

-----------------------------------------------------------------------------
(* What a status says of what was read *)

LEMMA CodeOfCase ==
  ASSUME NEW cases, NEW x \in cases, x[1]
  PROVE  x[2] \in CodesOf(cases)
BY DEF CodesOf

LEMMA StatusSays ==
  ASSUME NEW o
  PROVE  /\ "search" \in DOMAIN IndexStatus(o)
         /\ IndexStatus(o).search
              <=> SearchUnavailableCodes(o.row, o.otherBackend, o.active, IndexContractIssue(o.contracts)) = {}
         /\ ~IndexStatus(o).inProgress => o.lease = None
         /\ ~IndexStatus(o).unknown /\ ~IndexStatus(o).stale /\ o.paths # None
              => o.paths.complete /\ ~o.paths.stale
<1>1. /\ "search" \in DOMAIN IndexStatus(o)
      /\ IndexStatus(o).search
           <=> SearchUnavailableCodes(o.row, o.otherBackend, o.active, IndexContractIssue(o.contracts)) = {}
  BY DEF IndexStatus
<1>2. ~IndexStatus(o).inProgress => o.lease = None
  BY DEF IndexStatus
<1>3. /\ IndexStatus(o).unknown = FreshnessUnknown(o.git, o.row, o.paths)
      /\ IndexStatus(o).stale = (StaleReasons(o.git, o.row, o.paths) # {})
  BY DEF IndexStatus
<1>4. ASSUME o.paths # None, o.paths.stale PROVE StaleReasons(o.git, o.row, o.paths) # {}
  <2> DEFINE x == <<o.paths # None /\ o.paths.stale, "path_freshness_stale">>
  <2>1. x[1]
    BY <1>4
  <2>2. "path_freshness_stale" \in StaleReasons(o.git, o.row, o.paths)
    BY <2>1, CodeOfCase DEF StaleReasons
  <2> QED BY <2>2
<1>5. o.paths # None /\ ~o.paths.complete => FreshnessUnknown(o.git, o.row, o.paths)
  BY DEF FreshnessUnknown
<1> QED BY <1>1, <1>2, <1>3, <1>4, <1>5

-----------------------------------------------------------------------------
(* Steps of the server and around it *)

\* The lease is kept or given back, taken, or kept by an operation that goes on.
LEMMA HolderStays ==
  ASSUME HolderOK, op' = None \/ op' = op, head' = head
  PROVE  HolderOK'
BY DEF HolderOK

LEMMA HolderTakes ==
  ASSUME HolderOK, clock \in Nat, NEW by \in Holder, Begin(by), head' = head
  PROVE  HolderOK' /\ op' \in Operations /\ op'.by = by
BY DEF HolderOK, Begin, Operations

LEMMA HolderWrites ==
  ASSUME HolderOK, clock \in Nat, op \in Operations, head' = head,
         NEW at \in {"indexed", "invalidated", "synced"},
         op' = [op EXCEPT !.at = at, !.head = head, !.time = clock] \/ op' = [op EXCEPT !.at = at]
  PROVE  HolderOK' /\ op' \in Operations /\ op'.by = op.by
<1>1. CASE op' = [op EXCEPT !.at = at]
  BY <1>1 DEF HolderOK, Operations
<1>2. CASE op' = [op EXCEPT !.at = at, !.head = head, !.time = clock]
  BY <1>2 DEF HolderOK, Operations
<1> QED BY <1>1, <1>2

\* What goes on around the server leaves its call alone, and the lease that a tool of it
\* holds, and changes rows to what the files are.
LEMMA AroundSteps ==
  ASSUME Around, HolderOK, clock \in Nat
  PROVE  /\ clock' \in Nat /\ clock <= clock'
         /\ UNCHANGED <<call, seen, reply, watching>>
         /\ cache' \in {cache, None}
         /\ manifest' = manifest \/ manifest' = file'
         /\ HolderOK'
         /\ op \in Operations /\ op.by = "tool" => op' = op
<1> USE DEF world, store, caches
<1>1. ASSUME op = None PROVE op \notin Operations
  BY <1>1, CachesAssumption
<1>2. ASSUME UNCHANGED <<op, head>> PROVE HolderOK'
  BY <1>2, HolderStays
<1>3. CASE Tick
  BY <1>2, <1>3 DEF Tick
<1>4. ASSUME NEW p \in Path, Edit(p)
      PROVE  UNCHANGED <<clock, call, seen, reply, watching, cache, manifest, op, head>>
  BY <1>4, Zenon DEF Edit
<1>5. CASE \E p \in Path : Edit(p)
  BY <1>2, <1>4, <1>5
<1>6. CASE Commit
  BY <1>6 DEF Commit, HolderOK
<1>7. CASE Configure
  BY <1>2, <1>7 DEF Configure
<1>8. CASE WatcherBegins
  BY <1>1, <1>8, HolderTakes DEF WatcherBegins, Holder
<1>9. CASE WatcherReindexes \/ OtherRebuilds
  <2>1. /\ op \in Operations /\ op.by # "tool" /\ head' = head
        /\ op' = [op EXCEPT !.at = "indexed", !.head = head, !.time = clock]
        /\ UNCHANGED <<clock, call, seen, reply, watching, cache>>
        /\ manifest' = file'
    BY <1>9 DEF WatcherReindexes, OtherRebuilds, Reindexed, HolderOK
  <2> QED BY <2>1, HolderWrites
<1>10. CASE WatcherInvalidates
  <2>1. /\ op \in Operations /\ op.by # "tool" /\ head' = head
        /\ op' = [op EXCEPT !.at = "invalidated"]
        /\ UNCHANGED <<clock, call, seen, reply, watching, manifest>> /\ cache' = None
    BY <1>10 DEF WatcherInvalidates, Invalidated, HolderOK
  <2> QED BY <2>1, HolderWrites
<1>11. CASE WatcherSyncs
  <2>1. /\ op \in Operations /\ op.by # "tool" /\ head' = head
        /\ op' = [op EXCEPT !.at = "synced"]
        /\ UNCHANGED <<clock, call, seen, reply, watching, cache, manifest>>
    BY <1>11 DEF WatcherSyncs, HolderOK
  <2> QED BY <2>1, HolderWrites
<1>12. CASE WatcherEnds
  BY <1>12, HolderStays DEF WatcherEnds
<1>13. CASE OtherBegins
  BY <1>1, <1>13, HolderTakes DEF OtherBegins, Holder
<1>14. CASE OtherEnds
  BY <1>14, HolderStays DEF OtherEnds
<1>15. CASE Bootstrapped
  BY <1>2, <1>15 DEF Bootstrapped
<1>16. CASE AbandonedExpires
  BY <1>16, HolderStays DEF AbandonedExpires
<1> QED
  BY <1>3, <1>5, <1>6, <1>7, <1>8, <1>9, <1>10, <1>11, <1>12, <1>13, <1>14, <1>15, <1>16 DEF Around

\* Such a step, and one that takes nothing but the answer, keeps what the server knows.
LEMMA ServerStays ==
  ASSUME ServerInv, Moments', Later, CalmOK', HolderOK',
         UNCHANGED <<call, seen>>, cache' \in {cache, None}, watching => watching',
         manifest' = manifest \/ manifest' = file',
         op \in Operations /\ op.by = "tool" => op' = op
  PROVE  ServerInv'
<1>1. CacheOK'
  BY CacheStays DEF ServerInv
<1>2. CallOK'
  <2> SUFFICES ASSUME call' # None PROVE CallOK'
    BY DEF CallOK
  <2>1. /\ CallOK /\ call' = call /\ clock \in Nat
    BY DEF ServerInv, Moments
  <2>2. call.at = "graph" => lastSearchable' >= call.start - TTL
    BY <2>1, CachesAssumption DEF CallOK, Later
  <2>3. call.now <= clock'
    BY <2>1 DEF CallOK, Later
  <2> QED BY <2>1, <2>2, <2>3 DEF CallOK
<1>3. ASSUME seen # None PROVE SeenOK'
  <2>1. /\ call # None /\ call.at = "status" /\ DOMAIN seen \in {First, Second, Third}
        /\ call.now \in Nat /\ call.now <= clock
    BY <1>3 DEF ServerInv, SeenOK, CallOK
  <2>2. RegistrySeen'
    BY <1>3, <2>1 DEF ServerInv, SeenOK, RegistrySeen, SearchSeen, Later
  <2>3. ASSUME NEW p \in Path
        PROVE  /\ CleanSince(p, call.now) => CleanSince(p, call.now)'
               /\ manifest'[p] = manifest[p] \/ CleanSince(p, call.now)'
    <3>1. CleanSince(p, call.now) => CleanSince(p, call.now)'
      BY <2>1 DEF Later, CleanSince
    <3>2. ASSUME file'[p] = manifest'[p] PROVE CleanSince(p, call.now)'
      <4>1. lastClean'[p] = clock' /\ clock <= clock' /\ clock \in Nat /\ clock' \in Nat
        BY <3>2 DEF Later, ServerInv, Moments
      <4> QED BY <2>1, <4>1 DEF CleanSince
    <3> QED BY <3>1, <3>2
  <2>4. ListSeen'
    BY <1>3, <2>3 DEF ServerInv, SeenOK, ListSeen
  <2>5. FilesSeen'
    BY <1>3, <2>3 DEF ServerInv, SeenOK, FilesSeen
  <2> QED BY <2>1, <2>2, <2>4, <2>5 DEF SeenOK, First, Second, Third
<1>4. SeenOK'
  BY <1>3 DEF SeenOK
<1> QED BY <1>1, <1>2, <1>4 DEF ServerInv

\* A call that builds no status goes on, or ends.
LEMMA CallMoves ==
  ASSUME ServerInv, Moments', Later, CalmOK', HolderOK',
         seen' = None, cache' \in {cache, None}, CallOK'
  PROVE  ServerInv'
BY CacheStays DEF ServerInv, SeenOK

-----------------------------------------------------------------------------
(* Steps of the event loop *)

\* A status that an answer of the call may carry; unread, if its lease could not be read.
Told(s, unread) ==
  /\ "search" \in DOMAIN s
  /\ SaysSearch(s, call.start - TTL) /\ SaysFresh(s, call.start - TTL)
  /\ ~s.inProgress => calm \/ unread

\* The call ends with an answer for who called.
Answers ==
  /\ call' = None
  /\ reply'.to = call.from
  /\ reply'.status # None \/ (reply'.ok /\ reply'.tool = "index_status")
     => Told(reply'.status, reply'.unread)
  /\ reply'.tool = "start_watcher" /\ reply'.what \in {"started", "retry"} => watching'

\* Or goes on.
GoesOn ==
  /\ UNCHANGED reply
  /\ call'.from = call.from /\ call'.start = call.start

LEMMA CallAsks ==
  ASSUME CallOK, call # None, UNCHANGED clock, clock \in Nat, NEW what, AskStatus(what),
         what \in {"started", "retry"} => watching'
  PROVE  CallOK' /\ GoesOn
<1>1. call' = [call EXCEPT !.at = "status", !.now = clock, !.what = what] /\ UNCHANGED reply
  BY DEF AskStatus
<1>2. call' = [tool |-> call.tool, from |-> call.from, at |-> "status", start |-> call.start,
               now |-> clock, what |-> what]
  BY <1>1 DEF CallOK
<1>3. CallOK'
  BY <1>2 DEF CallOK
<1> QED BY <1>1, <1>2, <1>3 DEF GoesOn

LEMMA CallWorks ==
  ASSUME CallOK, Later, call # None, UNCHANGED clock, NEW at,
         at = "graph" => lastSearchable >= call.start - TTL,
         at # "status",
         at \in {"work", "worked"} => op' \in Operations /\ op'.by = "tool",
         call' = [call EXCEPT !.at = at], UNCHANGED reply
  PROVE  CallOK' /\ GoesOn
<1>1. call' = [tool |-> call.tool, from |-> call.from, at |-> at, start |-> call.start,
               now |-> call.now, what |-> call.what]
  BY DEF CallOK
<1>2. call.start \in Nat /\ (at = "graph" => lastSearchable' >= call.start - TTL)
  BY CachesAssumption DEF CallOK, Later
<1>3. CallOK'
  BY <1>1, <1>2 DEF CallOK
<1> QED BY <1>1, <1>3 DEF GoesOn

\* An answer without a status tells nothing.
LEMMA CallAnswers ==
  ASSUME NEW ok, NEW what, NEW g, Answer(ok, None, what, g),
         ~ok \/ call.tool # "index_status",
         what \in {"started", "retry"} => watching'
  PROVE  CallOK' /\ Answers /\ seen' = None
<1>1. /\ call' = None /\ seen' = None
      /\ reply' = [ok |-> ok, to |-> call.from, tool |-> call.tool,
                   status |-> None, graph |-> g, what |-> what, unread |-> FALSE]
  BY DEF Answer, Payload
<1> QED BY <1>1 DEF CallOK, Answers

\* A call that has the status it asked for.
LEMMA CallHas ==
  ASSUME ServerInv, Later, call # None, call.at = "status", UNCHANGED <<clock, head, watching>>,
         NEW s, NEW unread, Told(s, unread), Has(s, unread)
  PROVE  CallOK' /\ HolderOK' /\ seen' = None /\ (Answers \/ GoesOn)
<1>1. HolderOK'
  <2>1. op' = None \/ op' = op
    BY DEF Has
  <2> QED BY <2>1, HolderStays DEF ServerInv
<1>2. CASE call.tool # "update_graph"
  <2>1. /\ call' = None /\ seen' = None
        /\ reply' = [ok |-> TRUE, to |-> call.from, tool |-> call.tool,
                     status |-> s, graph |-> None, what |-> call.what, unread |-> unread]
    BY <1>2 DEF Has, Payload
  <2>2. Answers
    BY <2>1 DEF Answers, ServerInv, CallOK
  <2> QED BY <1>1, <2>1, <2>2 DEF CallOK
<1>3. CASE call.tool = "update_graph" /\ s.search
  <2>1. /\ call' = [call EXCEPT !.at = "graph"] /\ seen' = None /\ UNCHANGED reply
    BY <1>3 DEF Has
  <2>2. lastSearchable >= call.start - TTL
    BY <1>3 DEF Told, SaysSearch
  <2> QED BY <1>1, <2>1, <2>2, CallWorks DEF ServerInv
<1>4. CASE call.tool = "update_graph" /\ ~s.search
  <2>1. Answer(TRUE, None, "unavailable", graph)
    BY <1>4 DEF Has
  <2> QED BY <1>1, <1>4, <2>1, CallAnswers
<1> QED BY <1>2, <1>3, <1>4

-----------------------------------------------------------------------------
(* The build of a status *)

\* What was so since a time was so since an earlier one.
LEMMA SaysLess ==
  ASSUME Moments, NEW s, NEW t \in Int, NEW u \in Int, u <= t
  PROVE  /\ SaysSearch(s, t) => SaysSearch(s, u)
         /\ SaysFresh(s, t) => SaysFresh(s, u)
<1>1. SaysSearch(s, t) => SaysSearch(s, u)
  BY DEF SaysSearch, Moments
<1>2. ASSUME NEW p \in Path, CleanSince(p, t) PROVE CleanSince(p, u)
  BY <1>2 DEF CleanSince, Moments
<1>3. SaysFresh(s, t) => SaysFresh(s, u)
  BY <1>2 DEF SaysFresh
<1> QED BY <1>1, <1>3

\* A cached status that may be served is recent, and hides no operation.
LEMMA CachedIsTold ==
  ASSUME ServerInv, call # None, Servable
  PROVE  Told(cache.status, FALSE)
<1>1. /\ cache # None /\ call.now - cache.ts <= TTL /\ op = None
  BY DEF Servable, LifecycleMatches
<1>2. /\ cache.ts \in Nat /\ call.start \in Nat /\ call.now \in Nat /\ call.start <= call.now
      /\ call.start - TTL \in Int /\ call.start - TTL <= cache.ts
  BY <1>1, CachesAssumption DEF ServerInv, CallOK, CacheOK
<1>3. /\ "search" \in DOMAIN cache.status
      /\ SaysSearch(cache.status, cache.ts) /\ SaysFresh(cache.status, cache.ts)
  BY <1>1 DEF ServerInv, CacheOK
<1>4. SaysSearch(cache.status, call.start - TTL) /\ SaysFresh(cache.status, call.start - TTL)
  BY <1>2, <1>3, SaysLess DEF ServerInv
<1>5. calm
  BY <1>1 DEF ServerInv, CalmOK
<1> QED BY <1>3, <1>4, <1>5 DEF Told

\* What is read further leaves what has been read, and is itself there if it is new.
LEMMA ReadFurther ==
  ASSUME NEW s, NEW r
  PROVE  /\ DOMAIN Further(s, r) = DOMAIN s \cup DOMAIN r
         /\ \A x \in DOMAIN s : Further(s, r)[x] = s[x]
         /\ \A x : x \in DOMAIN r /\ x \notin DOMAIN s => Further(s, r)[x] = r[x]
BY DEF Further

\* The status that a build ends with.
LEMMA BuiltIsTold ==
  ASSUME ServerInv, seen # None, "rows" \in DOMAIN seen, seen.left = {}, NEW unread \in BOOLEAN
  PROVE  LET s == IndexStatus(Observation(Further(seen, LastReading(unread))))
         IN  /\ "search" \in DOMAIN s
             /\ SaysSearch(s, call.now) /\ SaysFresh(s, call.now)
             /\ ~s.inProgress => calm \/ unread
<1> DEFINE r == LastReading(unread)
           f == Further(seen, r)
           o == Observation(f)
<1>1. /\ call # None /\ DOMAIN seen = Third
      /\ RegistrySeen /\ FilesSeen
  BY DEF ServerInv, SeenOK, First, Second, Third
<1>2. /\ f.row = seen.row /\ f.activeRepo = seen.activeRepo /\ f.otherBackend = seen.otherBackend
      /\ f.dirty = seen.dirty /\ f.complete = seen.complete
      /\ ~unread => f.lease = Lease
  <2>1. DOMAIN r = {"watching", "sparse", "graph", "lease"} /\ (~unread => r.lease = Lease)
    BY DEF LastReading
  <2> HIDE DEF r
  <2>2. /\ {"row", "activeRepo", "otherBackend", "dirty", "complete"} \subseteq DOMAIN seen
        /\ "lease" \notin DOMAIN seen
    BY <1>1 DEF First, Second, Third
  <2>3. /\ \A x \in DOMAIN seen : f[x] = seen[x]
        /\ ~unread => f["lease"] = Lease
    <3>1. \A x \in DOMAIN seen : f[x] = seen[x]
      BY ReadFurther
    <3>2. "lease" \in DOMAIN r /\ "lease" \notin DOMAIN seen
      BY <2>1, <2>2
    <3>3. \A x : x \in DOMAIN r /\ x \notin DOMAIN seen => f[x] = r[x]
      BY ReadFurther
    <3> HIDE DEF f
    <3>4. f["lease"] = r["lease"]
      BY <3>2, <3>3, Zenon
    <3> QED BY <2>1, <3>1, <3>4
  <2>4. /\ f["row"] = seen["row"] /\ f["activeRepo"] = seen["activeRepo"]
        /\ f["otherBackend"] = seen["otherBackend"]
        /\ f["dirty"] = seen["dirty"] /\ f["complete"] = seen["complete"]
    BY <2>2, <2>3
  <2> HIDE DEF f, r
  <2> QED BY <2>3, <2>4
<1> HIDE DEF f, r
<1>3. /\ o.row = f.row /\ o.otherBackend = f.otherBackend /\ o.active = (f.activeRepo = "this")
      /\ o.contracts = [code |-> Fitting] /\ o.lease = f.lease
      /\ o.paths = [stale |-> f.dirty # {}, complete |-> f.complete]
  BY DEF Observation
<1> HIDE DEF o
<1>4. "search" \in DOMAIN IndexStatus(o) /\ SaysSearch(IndexStatus(o), call.now)
  <2>1. IndexStatus(o).search => SearchSeen
    BY <1>2, <1>3, StatusSays DEF SearchSeen
  <2> QED BY <1>1, <2>1, StatusSays DEF RegistrySeen, SaysSearch
<1>5. SaysFresh(IndexStatus(o), call.now)
  <2> SUFFICES ASSUME ~IndexStatus(o).unknown, ~IndexStatus(o).stale, NEW p \in Path
               PROVE  CleanSince(p, call.now)
    BY DEF SaysFresh
  <2>1. f.complete \in BOOLEAN
    BY <1>1, <1>2 DEF FilesSeen
  <2>2. o.paths # None
    <3> DEFINE dirty == f.dirty # {}
    <3>1. dirty \in BOOLEAN
      OBVIOUS
    <3> HIDE DEF dirty
    <3>2. [stale |-> dirty, complete |-> f.complete] \in [stale : BOOLEAN, complete : BOOLEAN]
      BY <2>1, <3>1
    <3> QED BY <1>3, <3>2, CachesAssumption DEF dirty
  <2>3. o.paths.complete /\ ~o.paths.stale
    BY <2>2, StatusSays
  <2>4. seen.complete /\ seen.dirty = {}
    <3> DEFINE dirty == f.dirty # {}
    <3>0. dirty \in BOOLEAN /\ o.paths = [stale |-> dirty, complete |-> f.complete]
      BY <1>3
    <3> HIDE DEF dirty
    <3>1. o.paths.complete = f.complete /\ (o.paths.stale <=> dirty)
      BY <3>0
    <3> USE DEF dirty
    <3> QED BY <2>1, <2>3, <3>1, <1>2
  <2> QED BY <1>1, <2>4 DEF FilesSeen
<1>6. ~IndexStatus(o).inProgress => calm \/ unread
  <2>1. ~IndexStatus(o).inProgress /\ ~unread => Lease = None
    BY <1>2, <1>3, StatusSays
  <2>2. Lease = None => op = None
    BY CachesAssumption DEF Lease, ServerInv, HolderOK, Operations
  <2> QED BY <1>1, <2>1, <2>2 DEF ServerInv, CalmOK
<1> QED BY <1>4, <1>5, <1>6 DEF o, f, r

\* Each part of the build reads what is so now, which is not before the call's time.
LEMMA BuildStep ==
  ASSUME ServerInv, Moments', Later, CalmOK', HolderOK',
         BuildReadsRegistry \/ BuildReadsGit \/ BuildReadsRows \/ (\E p \in Path : BuildScans(p))
  PROVE  ServerInv' /\ GoesOn /\ clock' = clock
<1> USE DEF world, store
<1>1. /\ UNCHANGED <<clock, call, cache, reply, manifest, file, row, activeRepo, otherBackend, watching>>
      /\ call # None /\ call.at = "status"
  BY DEF BuildReadsRegistry, BuildReadsGit, BuildReadsRows, BuildScans, ServerInv, SeenOK
<1>2. CacheOK'
  BY <1>1, CacheStays DEF ServerInv
<1>3. CallOK'
  <2>1. CallOK /\ call.at # "graph"
    BY <1>1 DEF ServerInv
  <2> QED BY <1>1, <2>1 DEF CallOK
<1>4. call.now \in Nat /\ call.now <= clock
  BY <1>1 DEF ServerInv, CallOK
<1>5. ASSUME NEW p \in Path
      PROVE  /\ CleanSince(p, call.now) => CleanSince(p, call.now)'
             /\ file[p] = manifest[p] => CleanSince(p, call.now)'
  BY <1>1, <1>4 DEF Later, CleanSince
<1>6. lastSearchable >= call.now => lastSearchable' >= call.now
  BY <1>4 DEF Later
<1>7. CASE BuildReadsRegistry
  <2>1. /\ seen' = [row |-> row, activeRepo |-> activeRepo, otherBackend |-> otherBackend, points |-> Points]
    BY <1>7 DEF BuildReadsRegistry
  <2>2. DOMAIN seen' = First /\ "git" \notin DOMAIN seen' /\ "rows" \notin DOMAIN seen'
    BY <2>1 DEF First
  <2>3. SearchSeen' => Gate = {}
    BY <1>1, <2>1 DEF SearchSeen, Gate
  <2>4. RegistrySeen'
    BY <1>1, <1>4, <1>6, <2>3 DEF RegistrySeen, ServerInv, Moments
  <2>5. SeenOK'
    BY <1>1, <2>2, <2>4 DEF SeenOK, ListSeen, FilesSeen
  <2> QED BY <1>1, <1>2, <1>3, <2>5 DEF ServerInv, GoesOn
<1>8. CASE BuildReadsGit
  <2>1. seen # None /\ "git" \notin DOMAIN seen
        /\ seen' = Further(seen, [git |-> GitReading, listed |-> {p \in Path : file[p] # None}])
    BY <1>8 DEF BuildReadsGit
  <2>2. DOMAIN seen = First /\ RegistrySeen
    BY <2>1 DEF ServerInv, SeenOK, First, Second, Third
  <2> DEFINE r == [git |-> GitReading, listed |-> {p \in Path : file[p] # None}]
  <2>3. DOMAIN r = {"git", "listed"} /\ r["listed"] = {p \in Path : file[p] # None}
    OBVIOUS
  <2> HIDE DEF r
  <2>4. /\ DOMAIN seen' = Second
        /\ \A x \in First : seen'[x] = seen[x]
        /\ \A x : x \in DOMAIN r /\ x \notin First => seen'[x] = r[x]
    <3>1. seen' = Further(seen, r)
      BY <2>1 DEF r
    <3>2. DOMAIN seen' = DOMAIN seen \cup DOMAIN r
      BY <3>1, ReadFurther
    <3>3. \A x \in DOMAIN seen : seen'[x] = seen[x]
      BY <3>1, ReadFurther
    <3>4. \A x : x \in DOMAIN r /\ x \notin DOMAIN seen => seen'[x] = r[x]
      <4>1. \A x : x \in DOMAIN r /\ x \notin DOMAIN seen => Further(seen, r)[x] = r[x]
        BY ReadFurther
      <4> QED BY <3>1, <4>1
    <3> QED BY <2>2, <2>3, <3>2, <3>3, <3>4 DEF Second
  <2>5. "listed" \in DOMAIN r /\ "listed" \notin First /\ "rows" \notin Second
    BY <2>3 DEF First, Second
  <2>6. seen'["listed"] = r["listed"]
    BY <2>4, <2>5, Zenon
  <2>7. RegistrySeen'
    <3>1. SearchSeen' <=> SearchSeen
      <4>1. /\ seen'["row"] = seen["row"] /\ seen'["activeRepo"] = seen["activeRepo"]
            /\ seen'["otherBackend"] = seen["otherBackend"]
        BY <2>4 DEF First
      <4> QED BY <4>1 DEF SearchSeen
    <3> QED BY <1>1, <1>6, <2>2, <3>1 DEF RegistrySeen
  <2>8. ListSeen'
    <3> SUFFICES ASSUME NEW p \in Path, p \notin seen'.listed
                 PROVE  CleanSince(p, call.now)' \/ manifest[p] # None
      BY <1>1 DEF ListSeen
    <3>1. file[p] = None
      BY <2>3, <2>6
    <3> QED BY <1>5, <3>1
  <2>9. SeenOK'
    BY <1>1, <2>4, <2>5, <2>7, <2>8 DEF SeenOK, FilesSeen
  <2> QED BY <1>1, <1>2, <1>3, <2>9 DEF ServerInv, GoesOn
<1>9. CASE BuildReadsRows
  <2>1. seen # None /\ "git" \in DOMAIN seen /\ "rows" \notin DOMAIN seen
    BY <1>9 DEF BuildReadsRows
  <2>2. DOMAIN seen = Second /\ RegistrySeen /\ ListSeen
    BY <2>1 DEF ServerInv, SeenOK, First, Second, Third
  <2>3. PICK complete \in ScanEnds :
          seen' = Further(seen,
                    [rows |-> manifest, complete |-> complete,
                     left |-> IF complete THEN seen.listed ELSE {},
                     dirty |-> {p \in Path \ seen.listed : complete /\ manifest[p] # None}])
    BY <1>9 DEF BuildReadsRows
  <2> DEFINE r == [rows |-> manifest, complete |-> complete,
                   left |-> IF complete THEN seen.listed ELSE {},
                   dirty |-> {p \in Path \ seen.listed : complete /\ manifest[p] # None}]
  <2>4. /\ DOMAIN r = {"rows", "complete", "left", "dirty"}
        /\ r["rows"] = manifest /\ r["complete"] = complete
        /\ complete => r["left"] = seen.listed
                       /\ r["dirty"] = {p \in Path \ seen.listed : manifest[p] # None}
    OBVIOUS
  <2> HIDE DEF r
  <2>5. /\ DOMAIN seen' = Third
        /\ \A x \in Second : seen'[x] = seen[x]
        /\ \A x : x \in DOMAIN r /\ x \notin Second => seen'[x] = r[x]
    <3>1. seen' = Further(seen, r)
      BY <2>3 DEF r
    <3>2. DOMAIN seen' = DOMAIN seen \cup DOMAIN r
      BY <3>1, ReadFurther
    <3>3. \A x \in DOMAIN seen : seen'[x] = seen[x]
      BY <3>1, ReadFurther
    <3>4. \A x : x \in DOMAIN r /\ x \notin DOMAIN seen => seen'[x] = r[x]
      <4>1. \A x : x \in DOMAIN r /\ x \notin DOMAIN seen => Further(seen, r)[x] = r[x]
        BY ReadFurther
      <4> QED BY <3>1, <4>1
    <3> QED BY <2>2, <2>4, <3>2, <3>3, <3>4 DEF Third
  <2>6. /\ "rows" \in DOMAIN r /\ "rows" \notin Second /\ "complete" \in DOMAIN r /\ "complete" \notin Second
        /\ "left" \in DOMAIN r /\ "left" \notin Second /\ "dirty" \in DOMAIN r /\ "dirty" \notin Second
    BY <2>4 DEF First, Second
  <2>7. /\ seen'["rows"] = manifest /\ seen'["complete"] = complete
        /\ complete => seen'["left"] = seen.listed
                       /\ seen'["dirty"] = {p \in Path \ seen.listed : manifest[p] # None}
    BY <2>4, <2>5, <2>6, Zenon
  <2>8. RegistrySeen'
    <3>1. SearchSeen' <=> SearchSeen
      <4>1. /\ seen'["row"] = seen["row"] /\ seen'["activeRepo"] = seen["activeRepo"]
            /\ seen'["otherBackend"] = seen["otherBackend"]
        BY <2>5 DEF First, Second
      <4> QED BY <4>1 DEF SearchSeen
    <3> QED BY <1>1, <1>6, <2>2, <3>1 DEF RegistrySeen
  <2>9. seen'["listed"] = seen["listed"]
    BY <2>5 DEF Second
  <2>10. ListSeen'
    BY <1>1, <1>5, <2>1, <2>2, <2>9 DEF ListSeen
  <2>11. FilesSeen'
    <3>1. seen'.complete \in BOOLEAN
      BY <2>7, CachesAssumption
    <3> SUFFICES ASSUME seen'.complete, NEW p \in Path
                 PROVE  \/ CleanSince(p, call.now)'
                        \/ p \in seen'.dirty
                        \/ p \in seen'.left /\ manifest[p] = seen'.rows[p]
      BY <1>1, <3>1 DEF FilesSeen
    <3>2. seen'.left = seen.listed /\ seen'.dirty = {q \in Path \ seen.listed : manifest[q] # None}
      BY <2>7
    <3>3. CASE p \in seen.listed
      BY <2>7, <3>2, <3>3
    <3>4. CASE p \notin seen.listed
      BY <1>5, <2>1, <2>2, <3>2, <3>4 DEF ListSeen
    <3> QED BY <3>3, <3>4
  <2>12. SeenOK'
    BY <1>1, <2>5, <2>8, <2>10, <2>11 DEF SeenOK
  <2> QED BY <1>1, <1>2, <1>3, <2>12 DEF ServerInv, GoesOn
<1>10. ASSUME NEW p \in Path, BuildScans(p) PROVE ServerInv' /\ GoesOn
  <2> DEFINE same == file[p] # None /\ file[p] = seen.rows[p]
  <2>1. PICK readable \in ScanEnds :
          LET error == ~readable \/ (file[p] = None /\ seen.rows[p] # None)
          IN  /\ seen # None /\ "rows" \in DOMAIN seen /\ p \in seen.left
              /\ seen' = [seen EXCEPT !.left = @ \ {p},
                                      !.dirty = IF same /\ ~error THEN @ ELSE @ \cup {p},
                                      !.complete = @ /\ ~error]
    BY <1>10 DEF BuildScans
  <2> DEFINE error == ~readable \/ (file[p] = None /\ seen.rows[p] # None)
  <2>2. DOMAIN seen = Third /\ RegistrySeen /\ ListSeen /\ FilesSeen
    BY <2>1 DEF ServerInv, SeenOK, First, Second, Third
  <2>3. {"left", "dirty", "complete", "rows", "row", "activeRepo", "otherBackend", "listed"} \subseteq DOMAIN seen
    BY <2>2 DEF First, Second, Third
  <2>4. /\ DOMAIN seen' = Third
        /\ seen'.left = seen.left \ {p}
        /\ seen'.dirty = IF same /\ ~error THEN seen.dirty ELSE seen.dirty \cup {p}
        /\ seen'.complete = (seen.complete /\ ~error)
        /\ seen'.rows = seen.rows /\ seen'.row = seen.row /\ seen'.activeRepo = seen.activeRepo
        /\ seen'.otherBackend = seen.otherBackend /\ seen'.listed = seen.listed
    BY <2>1, <2>2, <2>3
  <2>5. RegistrySeen'
    BY <1>1, <1>6, <2>2, <2>4 DEF RegistrySeen, SearchSeen
  <2>6. ListSeen'
    BY <1>1, <1>5, <2>2, <2>4 DEF ListSeen, Third, Second
  <2>7. FilesSeen'
    <3>1. seen.complete \in BOOLEAN /\ seen'.complete \in BOOLEAN
      BY <2>1, <2>2, <2>4 DEF FilesSeen
    <3> SUFFICES ASSUME seen'.complete, NEW q \in Path
                 PROVE  \/ CleanSince(q, call.now)'
                        \/ q \in seen'.dirty
                        \/ q \in seen'.left /\ manifest[q] = seen'.rows[q]
      BY <1>1, <3>1 DEF FilesSeen
    <3>2. seen.complete /\ ~error
      BY <2>4, <3>1
    <3>3. \/ CleanSince(q, call.now)
          \/ q \in seen.dirty
          \/ q \in seen.left /\ manifest[q] = seen.rows[q]
      BY <2>1, <2>2, <3>2 DEF FilesSeen
    <3>4. CASE q # p
      BY <1>5, <2>4, <3>3, <3>4
    <3>5. CASE q = p /\ same
      <4>1. manifest[p] = seen.rows[p] => file[p] = manifest[p]
        BY <3>5
      <4> QED BY <1>5, <2>4, <3>3, <3>5, <4>1
    <3>6. CASE q = p /\ ~same
      BY <2>4, <3>2, <3>6
    <3> QED BY <3>4, <3>5, <3>6
  <2>8. SeenOK'
    BY <1>1, <2>4, <2>5, <2>6, <2>7 DEF SeenOK
  <2> QED BY <1>1, <1>2, <1>3, <2>8 DEF ServerInv, GoesOn
<1> QED BY <1>1, <1>7, <1>8, <1>9, <1>10

\* A step of the event loop ends its call with an answer or goes on with it, and what the
\* answer tells was so.
LEMMA LoopStep ==
  ASSUME ServerInv, Loop, Observe
  PROVE  /\ ServerInv' /\ Later
         /\ call # None /\ (watching => watching')
         /\ Answers \/ GoesOn
<1> USE DEF world, store
<1>1. /\ UNCHANGED <<clock, head>> /\ clock \in Nat /\ call # None
  BY DEF Loop, StatusAsked, ServeCached, BuildReadsRegistry, BuildReadsGit, BuildReadsRows, BuildScans,
         BuildEnds, Search, TurnedAway, ReindexBegins, ReindexWorks, ReindexEnds, SwitchPending,
         StartRefused, StartAgain, StartReconciles, StartGivesUp, StartStarts, UpdateGraph, Enter, In,
         ServerInv, Moments, SeenOK
<1>2. Moments' /\ Later /\ CalmOK'
  BY <1>1, MomentsStep, CalmStep DEF ServerInv
<1> USE <1>1, <1>2
<1>3. ASSUME call.at # "status" PROVE seen = None
  BY <1>3 DEF ServerInv, SeenOK
<1>4. ASSUME seen' = None, cache' \in {cache, None}, CallOK', HolderOK' PROVE ServerInv'
  BY <1>4, CallMoves
<1>5. CASE StatusAsked
  <2>1. AskStatus("status") /\ seen' = seen /\ seen = None /\ cache' = cache /\ op' = op /\ watching' = watching
    BY <1>3, <1>5 DEF StatusAsked, In, AskStatus
  <2>2. CallOK' /\ GoesOn /\ HolderOK'
    BY <2>1, CallAsks, HolderStays DEF ServerInv
  <2> QED BY <1>4, <2>1, <2>2
<1>6. CASE ServeCached
  <2>1. /\ call.at = "status" /\ Servable /\ Has(cache.status, FALSE)
        /\ UNCHANGED <<watching, cache>>
    BY <1>6 DEF ServeCached
  <2>2. CallOK' /\ HolderOK' /\ seen' = None /\ (Answers \/ GoesOn)
    BY <2>1, CachedIsTold, CallHas
  <2> QED BY <1>4, <2>1, <2>2
<1>7. CASE BuildReadsRegistry \/ BuildReadsGit \/ BuildReadsRows \/ \E p \in Path : BuildScans(p)
  <2>1. op' = op /\ watching' = watching
    BY <1>7 DEF BuildReadsRegistry, BuildReadsGit, BuildReadsRows, BuildScans
  <2>2. HolderOK'
    BY <2>1, HolderStays DEF ServerInv
  <2> QED BY <1>7, <2>1, <2>2, BuildStep
<1>8. CASE BuildEnds
  <2>0. PICK unread \in {FALSE, Lease # None} :
          LET s == IndexStatus(Observation(Further(seen, LastReading(unread))))
          IN  /\ cache' = [ts |-> call.now, status |-> s,
                           git |-> [head |-> seen.git.head, changed |-> seen.git.changed]]
              /\ Has(s, unread)
    BY <1>8 DEF BuildEnds
  <2> DEFINE s == IndexStatus(Observation(Further(seen, LastReading(unread))))
  <2>1. /\ seen # None /\ "rows" \in DOMAIN seen /\ seen.left = {}
        /\ cache' = [ts |-> call.now, status |-> s,
                     git |-> [head |-> seen.git.head, changed |-> seen.git.changed]]
        /\ Has(s, unread) /\ UNCHANGED watching
    BY <1>8, <2>0 DEF BuildEnds
  <2>2. /\ "search" \in DOMAIN s
        /\ SaysSearch(s, call.now) /\ SaysFresh(s, call.now)
        /\ ~s.inProgress => calm \/ unread
    BY <2>1, BuiltIsTold
  <2> HIDE DEF s
  <2>3. /\ call.at = "status" /\ call.now \in Nat /\ call.now \in Int
        /\ call.start - TTL \in Int /\ call.start - TTL <= call.now
    BY <2>1, CachesAssumption DEF ServerInv, SeenOK, CallOK
  <2>4. SaysSearch(s, call.start - TTL) /\ SaysFresh(s, call.start - TTL)
    BY <2>2, <2>3, SaysLess DEF ServerInv
  <2>5. Told(s, unread)
    BY <2>2, <2>4 DEF Told
  <2>6. CallOK' /\ HolderOK' /\ seen' = None /\ (Answers \/ GoesOn)
    BY <2>1, <2>3, <2>5, CallHas
  <2>7. CacheOK'
    <3>1. /\ lastSearchable' >= call.now \/ ~s.search
          /\ ~s.unknown /\ ~s.stale => \A p \in Path : lastClean'[p] >= call.now
      BY <2>2, <2>3 DEF SaysSearch, SaysFresh, CleanSince, Later
    <3>2. cache'.ts = call.now /\ cache'.status = s
      BY <2>1
    <3> QED BY <2>2, <2>3, <3>1, <3>2 DEF CacheOK, SaysSearch, SaysFresh, CleanSince
  <2>8. ServerInv'
    BY <2>6, <2>7 DEF ServerInv, SeenOK
  <2> QED BY <2>1, <2>6, <2>8
<1>9. CASE Search
  <2>1. seen = None /\ cache' = cache /\ op' = op /\ watching' = watching
    BY <1>3, <1>9 DEF Search, In
  <2>2. CASE Gate # {}
    <3>1. Answer(FALSE, None, "error", None)
      BY <1>9, <2>2 DEF Search, Refuse
    <3> QED BY <1>4, <2>1, <3>1, CallAnswers, HolderStays DEF ServerInv
  <2>3. CASE Gate = {}
    <3>1. AskStatus("hits")
      BY <1>9, <2>3 DEF Search
    <3>2. seen' = None
      BY <2>1, <3>1 DEF AskStatus
    <3> QED BY <1>4, <2>1, <3>1, <3>2, CallAsks, HolderStays DEF ServerInv
  <2> QED BY <2>2, <2>3
<1>10. CASE TurnedAway
  <2>1. cache' = cache /\ op' = op /\ watching' = watching /\ call.tool # "index_status"
    BY <1>10 DEF TurnedAway, In
  <2>2. \/ Answer(TRUE, None, IF watching THEN "retry" ELSE "in_progress", None)
        \/ Answer(FALSE, None, "error", None)
    BY <1>10 DEF TurnedAway, Refuse
  <2>3. CallOK' /\ Answers /\ seen' = None
    <3>1. CASE Answer(FALSE, None, "error", None)
      BY <3>1, CallAnswers
    <3>2. CASE watching /\ Answer(TRUE, None, "retry", None)
      BY <2>1, <3>2, CallAnswers
    <3>3. CASE ~watching /\ Answer(TRUE, None, "in_progress", None)
      BY <2>1, <3>3, CallAnswers
    <3> QED BY <2>2, <3>1, <3>2, <3>3
  <2> QED BY <1>4, <2>1, <2>3, HolderStays DEF ServerInv
<1>11. CASE ReindexBegins
  <2>1. /\ Begin("tool") /\ cache' = None /\ watching' = watching
        /\ call' = [call EXCEPT !.at = "work"] /\ UNCHANGED reply /\ seen' = seen /\ seen = None
    BY <1>3, <1>11 DEF ReindexBegins, Enter, In, Invalidated
  <2>2. HolderOK' /\ op' \in Operations /\ op'.by = "tool"
    BY <2>1, HolderTakes DEF ServerInv, Holder
  <2>3. CallOK' /\ GoesOn
    BY <2>1, <2>2, CallWorks DEF ServerInv
  <2> QED BY <1>4, <2>1, <2>2, <2>3
<1>12. CASE ReindexWorks
  <2>1. /\ op' = [op EXCEPT !.at = "indexed", !.head = head, !.time = clock] /\ cache' = cache
        /\ watching' = watching
        /\ call' = [call EXCEPT !.at = "worked"] /\ UNCHANGED reply /\ seen' = seen /\ seen = None
    BY <1>3, <1>12 DEF ReindexWorks, In
  <2>2. op \in Operations /\ op.by = "tool"
    BY <1>12 DEF ReindexWorks, In, ServerInv, CallOK
  <2>3. HolderOK' /\ op' \in Operations /\ op'.by = "tool"
    BY <2>1, <2>2, HolderWrites DEF ServerInv
  <2>4. CallOK' /\ GoesOn
    BY <2>1, <2>3, CallWorks DEF ServerInv
  <2> QED BY <1>4, <2>1, <2>3, <2>4
<1>13. CASE ReindexEnds
  <2>1. /\ op' = None /\ cache' = None /\ watching' = watching /\ call.tool # "index_status"
        /\ \/ Answer(TRUE, None, "reindexed", None)
           \/ Answer(FALSE, None, "error", None)
    BY <1>13 DEF ReindexEnds, In, Invalidated, Refuse
  <2>2. CallOK' /\ Answers /\ seen' = None
    BY <2>1, CallAnswers
  <2>3. HolderOK'
    BY <2>1, HolderStays DEF ServerInv
  <2> QED BY <1>4, <2>1, <2>2, <2>3
<1>14. CASE SwitchPending
  <2>1. /\ AskStatus("switch") /\ seen' = seen /\ seen = None /\ cache' = cache /\ op' = op
        /\ watching' = watching
    BY <1>3, <1>14 DEF SwitchPending, In, AskStatus
  <2>2. CallOK' /\ GoesOn /\ HolderOK'
    BY <2>1, CallAsks, HolderStays DEF ServerInv
  <2> QED BY <1>4, <2>1, <2>2
<1>15. CASE StartRefused
  <2>1. /\ cache' = cache /\ op' = op /\ watching' = watching
        /\ Answer(FALSE, None, "error", None)
    BY <1>15 DEF StartRefused, Refuse
  <2> QED BY <1>4, <2>1, CallAnswers, HolderStays DEF ServerInv
<1>16. CASE StartAgain
  <2>1. /\ Begin("tool") /\ cache' = None /\ watching' = watching /\ watching
        /\ AskStatus("started") /\ seen' = seen /\ seen = None
    BY <1>3, <1>16 DEF StartAgain, Enter, In, Invalidated, AskStatus
  <2>2. CallOK' /\ GoesOn /\ HolderOK'
    BY <2>1, CallAsks, HolderTakes DEF ServerInv, Holder
  <2> QED BY <1>4, <2>1, <2>2
<1>17. CASE StartReconciles
  <2>1. /\ Begin("tool") /\ cache' = cache /\ watching' = watching
        /\ call' = [call EXCEPT !.at = "work"] /\ UNCHANGED reply /\ seen' = seen /\ seen = None
    BY <1>3, <1>17 DEF StartReconciles, Enter, In
  <2>2. CallOK' /\ GoesOn /\ HolderOK'
    BY <2>1, CallWorks, HolderTakes DEF ServerInv, Holder
  <2> QED BY <1>4, <2>1, <2>2
<1>18. CASE StartGivesUp
  <2>1. /\ cache' = cache /\ op' = op /\ watching' = watching /\ call.tool # "index_status"
        /\ Answer(TRUE, None, "permission", None) \/ Answer(FALSE, None, "error", None)
    BY <1>18 DEF StartGivesUp, Refuse, Enter, In
  <2>2. CallOK' /\ Answers /\ seen' = None
    BY <2>1, CallAnswers
  <2> QED BY <1>4, <2>1, <2>2, HolderStays DEF ServerInv
<1>19. CASE StartStarts
  <2>1. /\ op' = None /\ cache' = None /\ watching' = TRUE
        /\ AskStatus("started") /\ seen' = seen /\ seen = None
    BY <1>3, <1>19 DEF StartStarts, In, Invalidated, AskStatus
  <2>2. CallOK' /\ GoesOn /\ HolderOK'
    BY <2>1, CallAsks, HolderStays DEF ServerInv
  <2> QED BY <1>4, <2>1, <2>2
<1>20. CASE UpdateGraph
  <2>1. /\ cache' = cache /\ op' = op /\ watching' = watching /\ call.tool # "index_status"
        /\ \/ \E what \in {"busy", "updated", "bounds", "skipped"}, g \in {graph, graph'} :
                Answer(TRUE, None, what, g)
           \/ Answer(FALSE, None, "error", None)
    BY <1>20 DEF UpdateGraph, Refuse, In
  <2>2. CallOK' /\ Answers /\ seen' = None
    BY <2>1, CallAnswers
  <2> QED BY <1>4, <2>1, <2>2, HolderStays DEF ServerInv
<1> QED
  BY <1>5, <1>6, <1>7, <1>8, <1>9, <1>10, <1>11, <1>12, <1>13, <1>14, <1>15, <1>16, <1>17, <1>18,
     <1>19, <1>20 DEF Loop

-----------------------------------------------------------------------------
(* Every step keeps what the server knows *)

\* A call comes in.
LEMMA Received ==
  ASSUME ServerInv, Observe, NEW tool \in Tools, NEW from \in {"agent", "script"}, Receive(tool, from)
  PROVE  /\ ServerInv' /\ Later /\ UNCHANGED <<clock, watching>>
         /\ call = None /\ call'.from = from /\ call'.start = clock /\ reply' = None
<1> USE DEF world, store
<1>1. /\ UNCHANGED <<clock, watching, head, op, seen, cache>> /\ call = None /\ reply' = None
      /\ call' = [tool |-> tool, from |-> from, at |-> "called", start |-> clock,
                  now |-> clock, what |-> "status"]
  BY DEF Receive
<1>2. clock \in Nat
  BY DEF ServerInv, Moments
<1>3. Moments' /\ Later /\ CalmOK'
  BY <1>1, <1>2, MomentsStep, CalmStep DEF ServerInv
<1>4. CallOK'
  BY <1>1, <1>2 DEF CallOK
<1>5. HolderOK' /\ seen' = None
  BY <1>1, HolderStays DEF ServerInv, SeenOK
<1>6. ServerInv'
  BY <1>1, <1>3, <1>4, <1>5, CallMoves
<1> QED BY <1>1, <1>3, <1>6

\* A step of the script waits, looks, takes an answer or calls.
Rests ==
  /\ UNCHANGED <<clock, head, call, seen, cache, op, watching, manifest>>
  /\ reply' \in {reply, None}

LEMMA ScriptSteps ==
  ASSUME Script
  PROVE  Rests \/ (pc # "check" /\ pc' # "check" /\ \E tool \in Tools : Receive(tool, "script"))
<1> USE DEF Rests, world, store, caches, Quiet, Take, Submit, Tools
<1>1. CASE Check \/ Wait \/ Waited \/ StartBackend \/ Unreachable
  BY <1>1 DEF Check, Wait, Waited, StartBackend, Unreachable
<1>2. CASE Ask \/ Start \/ AskGraph
  BY <1>2 DEF Ask, Start, AskGraph
<1>3. CASE Learn \/ Started \/ StartUnclear \/ Updated \/ UpdateUnclear \/ NoUpdate
  BY <1>3 DEF Learn, Started, StartUnclear, Updated, UpdateUnclear, NoUpdate
<1>4. CASE Decide
  BY <1>4 DEF Decide
<1>5. CASE Probed \/ ProbeFails
  BY <1>5 DEF Probed, ProbeFails
<1> QED BY <1>1, <1>2, <1>3, <1>4, <1>5 DEF Script

\* What becomes of call and reply in a step.
ServerMoves ==
  \/ UNCHANGED call /\ reply' \in {reply, None}
  \/ call # None /\ (Answers \/ GoesOn)
  \/ reply' = None /\ call'.from = "agent"
  \/ reply' = None /\ call'.from = "script" /\ call'.start = clock /\ pc # "check" /\ pc' # "check"

LEMMA ServerStep ==
  ASSUME ServerInv, Next
  PROVE  ServerInv' /\ Later /\ (watching => watching') /\ ServerMoves
<1>1. Observe
  BY DEF Next, Note
<1>2. clock \in Nat
  BY DEF ServerInv, Moments
<1>3. CASE Rests
  <2>1. Moments' /\ Later /\ CalmOK' /\ HolderOK'
    BY <1>1, <1>2, <1>3, MomentsStep, CalmStep, HolderStays DEF Rests, ServerInv
  <2>2. ServerInv'
    BY <1>3, <2>1, ServerStays DEF Rests
  <2> QED BY <1>3, <2>1, <2>2 DEF Rests, ServerMoves
<1>4. CASE Around
  <2>1. /\ clock' \in Nat /\ clock <= clock'
        /\ UNCHANGED <<call, seen, reply, watching>>
        /\ cache' \in {cache, None}
        /\ manifest' = manifest \/ manifest' = file'
        /\ HolderOK'
        /\ op \in Operations /\ op.by = "tool" => op' = op
    BY <1>2, <1>4, AroundSteps DEF ServerInv
  <2>2. Moments' /\ Later /\ CalmOK'
    BY <1>1, <2>1, MomentsStep, CalmStep DEF ServerInv
  <2>3. ServerInv'
    BY <2>1, <2>2, ServerStays
  <2> QED BY <2>1, <2>2, <2>3 DEF ServerMoves
<1>5. CASE Loop
  BY <1>1, <1>5, LoopStep DEF ServerMoves
<1>6. CASE AgentCalls
  <2>1. PICK tool \in Tools : Receive(tool, "agent")
    BY <1>6, CachesAssumption DEF AgentCalls, Tools
  <2> QED BY <1>1, <2>1, Received DEF ServerMoves
<1>7. CASE pc # "check" /\ pc' # "check" /\ \E tool \in Tools : Receive(tool, "script")
  BY <1>1, <1>7, Received DEF ServerMoves
<1> QED BY <1>3, <1>4, <1>5, <1>6, <1>7, ScriptSteps DEF Next

-----------------------------------------------------------------------------
(* The script *)

\* A good verdict needs a status with search: nothing that was done makes up for one.
LEMMA VerdictNeedsSearch ==
  ASSUME did.graph = "no" \/ known.search, FinalVerdict.readiness \in ReadyStates
  PROVE  known.search
<1> SUFFICES ASSUME ~known.search PROVE FALSE
  OBVIOUS
<1> DEFINE v == ReadinessFromStatus(args, known)
<1>1. v.readiness \in {"needs_user_permission", "blocked"}
  BY DEF ReadinessFromStatus, UnavailableVerdict, Verdict
<1>2. AfterGraph(v) = v
  BY DEF AfterGraph
<1> HIDE DEF v
<1>3. AfterRepairs(v).readiness \in {"needs_user_permission", "blocked"}
  BY <1>1 DEF AfterRepairs, Verdict
<1> QED BY <1>2, <1>3 DEF FinalVerdict, v, ReadyStates

\* What the script gets was so since it began.
LEMMA ScriptCallsStep ==
  ASSUME ServerInv, ScriptCalls, Next
  PROVE  ScriptCalls'
<1>1. Later /\ (watching => watching') /\ ServerMoves
  BY ServerStep
<1>2. /\ began' = IF pc = "check" THEN clock ELSE began
      /\ began \in Nat /\ began <= clock /\ clock \in Nat
  BY DEF Next, Note, ScriptCalls, ServerInv, Moments
<1>3. began' \in Nat /\ began' <= clock'
  BY <1>1, <1>2 DEF Later
<1>4. pc # "check" => pc' # "check" /\ began' = began
  <2>1. ASSUME Script, pc # "check" PROVE pc' # "check"
    BY <2>1 DEF Script, Check, Wait, Waited, StartBackend, Unreachable, Ask, Start, AskGraph, Learn,
                Started, StartUnclear, Updated, UpdateUnclear, NoUpdate, Decide, Probed, ProbeFails,
                Submit, Finish
  <2>2. ASSUME UNCHANGED script PROVE pc' = pc
    BY <2>2 DEF script
  <2> QED BY <1>2, <2>1, <2>2 DEF Next
<1>5. ASSUME reply' = reply, reply # None, reply.to = "script"
      PROVE  /\ pc' # "check"
             /\ reply.ok /\ (reply.tool = "index_status" \/ reply.status # None) => Earned(reply.status)'
             /\ reply.tool = "start_watcher" /\ reply.what \in {"started", "retry"} => watching'
  <2>1. pc # "check"
    BY <1>5 DEF ScriptCalls
  <2>2. began' = began /\ began - TTL \in Int
    BY <1>2, <1>4, <2>1, CachesAssumption
  <2>3. Earned(reply.status) => Earned(reply.status)'
    BY <1>1, <1>5, <2>2, SayingsStay DEF Earned, SaysSearch
  <2> QED BY <1>1, <1>4, <1>5, <2>1, <2>3 DEF ScriptCalls
<1>6. ASSUME UNCHANGED call, call # None, call.from = "script"
      PROVE  pc' # "check" /\ call.start >= began'
  BY <1>4, <1>6 DEF ScriptCalls
<1>7. CASE UNCHANGED call /\ reply' \in {reply, None}
  BY <1>3, <1>5, <1>6, <1>7 DEF ScriptCalls
<1>8. CASE call # None /\ Answers
  <2>1. SUFFICES ASSUME reply'.to = "script"
                 PROVE  /\ pc' # "check"
                        /\ reply'.ok /\ (reply'.tool = "index_status" \/ reply'.status # None)
                             => Earned(reply.status)'
                        /\ reply'.tool = "start_watcher" /\ reply'.what \in {"started", "retry"}
                             => watching'
    BY <1>3, <1>8 DEF ScriptCalls, Answers
  <2>2. pc # "check" /\ call.start >= began
    BY <1>8, <2>1 DEF Answers, ScriptCalls
  <2>3. /\ call.start \in Nat /\ call.start - TTL \in Int /\ began - TTL \in Int
        /\ began - TTL <= call.start - TTL
    BY <1>2, <1>8, <2>2, CachesAssumption DEF ServerInv, CallOK
  <2>4. ASSUME Told(reply'.status, reply'.unread) PROVE Earned(reply.status)'
    <3>1. "search" \in DOMAIN reply'.status /\ SaysSearch(reply'.status, call.start - TTL)
      BY <2>4 DEF Told
    <3>2. reply'.status.search => lastSearchable >= call.start - TTL
      BY <3>1 DEF SaysSearch
    <3>3. reply'.status.search => lastSearchable' >= began - TTL
      BY <1>1, <2>3, <3>2 DEF Later
    <3> QED BY <1>4, <2>2, <3>1, <3>3 DEF Earned, SaysSearch
  <2> QED BY <1>4, <1>8, <2>2, <2>4 DEF Answers
<1>9. CASE call # None /\ GoesOn
  <2>1. ASSUME call'.from = "script" PROVE pc' # "check" /\ call'.start >= began'
    BY <1>4, <1>9, <2>1 DEF GoesOn, ScriptCalls
  <2> QED BY <1>3, <1>5, <1>9, <2>1 DEF ScriptCalls, GoesOn
<1>10. CASE reply' = None /\ call'.from = "agent"
  BY <1>3, <1>10 DEF ScriptCalls
<1>11. CASE reply' = None /\ call'.from = "script" /\ call'.start = clock /\ pc # "check" /\ pc' # "check"
  BY <1>2, <1>3, <1>4, <1>11 DEF ScriptCalls
<1> QED BY <1>1, <1>7, <1>8, <1>9, <1>10, <1>11 DEF ServerMoves

\* What the script knows was so, what it did was done, and its verdict was earned.
LEMMA ScriptKnowsStep ==
  ASSUME ServerInv, ScriptInv, Next
  PROVE  ScriptKnows' /\ VerdictIsEarned'
<1> USE DEF ScriptInv
<1>1. Later /\ (watching => watching')
  BY ServerStep
<1>2. pc # "check" => began' = began
  BY DEF Next, Note
<1>3. began \in Nat /\ TTL \in Nat
  BY CachesAssumption DEF ScriptCalls
<1>4. ASSUME NEW s, Earned(s), pc # "check" PROVE "search" \in DOMAIN s /\ SaysSearch(s, began - TTL)'
  <2>1. SaysSearch(s, began - TTL)
    BY <1>4 DEF Earned
  <2>2. s.search => lastSearchable' >= began - TTL
    BY <1>1, <1>3, <2>1 DEF SaysSearch, Later
  <2> QED BY <1>2, <1>4, <2>2 DEF Earned, SaysSearch
<1>5. ASSUME pc # "check", known' = known, Earned(known) PROVE Earned(known)'
  BY <1>4, <1>5 DEF Earned, SaysSearch
<1>6. pc # "check" /\ result' = result /\ VerdictIsEarned => VerdictIsEarned'
  BY <1>1, <1>2, <1>3 DEF VerdictIsEarned, Later
<1>7. ASSUME result' = None PROVE VerdictIsEarned'
  BY <1>7 DEF VerdictIsEarned
<1>8. ASSUME NEW v, pc # "check", Earned(known), Finish(v),
             v.readiness \in ReadyStates => known.search
      PROVE  VerdictIsEarned'
  <2>1. result'.exit = 0 => v.readiness \in ReadyStates
    BY <1>8 DEF Finish, Result, ExitCode
  <2>2. known.search => lastSearchable' >= began - TTL
    BY <1>1, <1>3, <1>8 DEF Earned, SaysSearch, Later
  <2> QED BY <1>2, <1>8, <2>1, <2>2 DEF VerdictIsEarned
<1>9. CASE UNCHANGED script
  <2>1. UNCHANGED <<pc, known, did, result>>
    BY <1>9 DEF script
  <2>2. ScriptKnows'
    BY <1>1, <1>5, <2>1 DEF ScriptKnows
  <2>3. CASE pc = "done"
    BY <1>6, <2>1, <2>2, <2>3
  <2>4. CASE pc # "done"
    BY <1>7, <2>1, <2>2, <2>4 DEF ScriptKnows
  <2> QED BY <2>2, <2>3, <2>4
<1>10. CASE Check \/ Wait \/ Waited \/ StartBackend \/ Ask
  <2>1. /\ UNCHANGED <<known, did, result>> /\ result = None /\ did.graph = "no"
        /\ pc' \in {"check", "wait", "rewait", "backend", "ask", "asked"}
    BY <1>10 DEF Check, Wait, Waited, StartBackend, Ask, Submit, ScriptKnows
  <2> QED BY <1>1, <1>7, <2>1 DEF ScriptKnows
<1>11. CASE Unreachable
  <2>1. /\ UNCHANGED <<known, did>> /\ pc' = "done" /\ result'.exit = 1
    BY <1>11 DEF Unreachable
  <2> QED BY <1>1, <2>1 DEF ScriptKnows, VerdictIsEarned
<1>12. CASE Learn
  <2>1. /\ reply # None /\ reply.to = "script" /\ reply.ok /\ reply.tool = "index_status"
        /\ known' = reply.status /\ UNCHANGED <<did, result>> /\ pc = "asked" /\ pc' \in {"start", "graph"}
    BY <1>12 DEF Learn, Got
  <2>2. Earned(known)'
    BY <1>4, <2>1 DEF ScriptCalls, Earned, SaysSearch
  <2> QED BY <1>1, <1>7, <2>1, <2>2 DEF ScriptKnows
<1>13. CASE Start
  <2>1. UNCHANGED <<known, did, result>> /\ pc = "start" /\ pc' = "started"
    BY <1>13 DEF Start, Submit
  <2> QED BY <1>1, <1>5, <1>7, <2>1 DEF ScriptKnows
<1>14. CASE Started
  <2>1. /\ reply # None /\ reply.to = "script" /\ reply.ok /\ reply.tool = "start_watcher"
        /\ did' = [did EXCEPT !.watcher =
                     IF reply.what \in {"started", "retry"} THEN "started" ELSE reply.what]
        /\ known' = IF reply.status = None THEN known ELSE reply.status
        /\ UNCHANGED result /\ pc = "started" /\ pc' = "graph"
    BY <1>14 DEF Started, Got
  <2>2. Earned(known)'
    <3>1. CASE reply.status = None
      BY <1>5, <2>1, <3>1 DEF ScriptKnows
    <3>2. CASE reply.status # None
      BY <1>4, <2>1, <3>2 DEF ScriptCalls, Earned, SaysSearch
    <3> QED BY <3>1, <3>2
  <2>3. /\ did' = [watcher |-> did'.watcher, graph |-> did'.graph] /\ did'.graph = did.graph
        /\ did'.watcher = IF reply.what \in {"started", "retry"} THEN "started" ELSE reply.what
    BY <2>1 DEF ScriptKnows
  <2>4. did'.watcher = "started" => watching'
    BY <1>1, <2>1, <2>3 DEF ScriptCalls
  <2> QED BY <1>7, <2>1, <2>2, <2>3, <2>4 DEF ScriptKnows
<1>15. CASE StartUnclear
  <2>1. PICK answered \in BOOLEAN :
          did' = [did EXCEPT !.watcher = IF Confirms(answered) THEN "started" ELSE "failed"]
    BY <1>15 DEF StartUnclear
  <2>2. UNCHANGED <<known, result>> /\ pc \in {"start", "started"} /\ pc' = "graph"
    BY <1>15 DEF StartUnclear
  <2>3. /\ did' = [watcher |-> did'.watcher, graph |-> did'.graph] /\ did'.graph = did.graph
        /\ did'.watcher = "started" => watching
    BY <2>1 DEF ScriptKnows, Confirms
  <2> QED BY <1>1, <1>5, <1>7, <2>2, <2>3 DEF ScriptKnows
<1>16. CASE AskGraph \/ NoUpdate
  <2>1. /\ UNCHANGED <<known, did, result>> /\ pc = "graph"
        /\ (pc' = "updating" /\ known.search) \/ pc' = "decide"
    BY <1>16 DEF AskGraph, NoUpdate, Submit, WantsGraph
  <2> QED BY <1>1, <1>5, <1>7, <2>1 DEF ScriptKnows
<1>17. CASE Updated
  <2>1. /\ did' = [did EXCEPT !.graph = reply.what] /\ known' = [known EXCEPT !.graph = reply.graph]
        /\ UNCHANGED result /\ pc = "updating" /\ pc' = "decide"
    BY <1>17 DEF Updated
  <2>2. known.search /\ Earned(known)
    BY <2>1 DEF ScriptKnows
  <2>3. "search" \in DOMAIN known' /\ known'.search = known.search
    BY <2>1, <2>2 DEF Earned
  <2>4. Earned(known)'
    BY <1>4, <2>1, <2>2, <2>3 DEF Earned, SaysSearch
  <2>5. did' = [watcher |-> did'.watcher, graph |-> did'.graph] /\ did'.watcher = did.watcher
    BY <2>1 DEF ScriptKnows
  <2> QED BY <1>1, <1>7, <2>1, <2>2, <2>3, <2>4, <2>5 DEF ScriptKnows
<1>18. CASE UpdateUnclear
  <2>1. /\ did' = [did EXCEPT !.graph = "transport"] /\ UNCHANGED <<known, result>>
        /\ pc \in {"graph", "updating"} /\ pc' = "decide" /\ known.search
    BY <1>18 DEF UpdateUnclear, WantsGraph, ScriptKnows
  <2>2. did' = [watcher |-> did'.watcher, graph |-> did'.graph] /\ did'.watcher = did.watcher
    BY <2>1 DEF ScriptKnows
  <2> QED BY <1>1, <1>5, <1>7, <2>1, <2>2 DEF ScriptKnows
<1>19. CASE Decide \/ Probed
  <2>1. /\ UNCHANGED <<known, did>> /\ pc \in {"decide", "probing"}
        /\ \/ pc' = "probing" /\ UNCHANGED result
           \/ pc' = "done" /\ Finish(FinalVerdict)
    BY <1>19 DEF Decide, Probed, Submit, Finish
  <2>2. Earned(known) /\ (did.graph = "no" \/ known.search)
    BY <2>1 DEF ScriptKnows
  <2>3. ScriptKnows'
    BY <1>1, <1>5, <2>1, <2>2 DEF ScriptKnows
  <2>4. CASE Finish(FinalVerdict)
    BY <1>8, <2>1, <2>2, <2>3, <2>4, VerdictNeedsSearch
  <2>5. CASE UNCHANGED result
    BY <1>7, <2>1, <2>3, <2>5 DEF ScriptKnows
  <2> QED BY <2>1, <2>3, <2>4, <2>5
<1>20. CASE ProbeFails
  <2> DEFINE v == FinalVerdict
  <2> DEFINE w == Verdict(IF v.readiness \in ReadyStates THEN "blocked" ELSE v.readiness,
                          v.actions \cup {Action("repo_context_search_probe_failed", FALSE)})
  <2>1. /\ UNCHANGED <<known, did>> /\ pc \in {"decide", "probing"} /\ pc' = "done" /\ Finish(w)
    BY <1>20 DEF ProbeFails, Finish
  <2>2. w.readiness \notin ReadyStates
    BY DEF Verdict, ReadyStates
  <2> HIDE DEF w
  <2>3. VerdictIsEarned'
    BY <1>8, <2>1, <2>2 DEF ScriptKnows
  <2>4. ScriptKnows'
    BY <1>1, <2>1 DEF ScriptKnows
  <2> QED BY <2>3, <2>4
<1> QED
  BY <1>9, <1>10, <1>11, <1>12, <1>13, <1>14, <1>15, <1>16, <1>17, <1>18, <1>19, <1>20 DEF Next, Script

-----------------------------------------------------------------------------
(* Theorems *)

\* At first nothing is known and nobody has called.
LEMMA ServingInit == InitAll => ServingInv
<1> SUFFICES ASSUME InitAll PROVE ServingInv
  OBVIOUS
<1>1. Init /\ pc = "check" /\ did = [watcher |-> "no", graph |-> "no"] /\ result = None /\ began = 0
  BY DEF InitAll
<1>2. Moments
  BY <1>1 DEF Init, Moments
<1>3. CallOK /\ SeenOK /\ CacheOK /\ CalmOK
  BY <1>1 DEF Init, CallOK, SeenOK, CacheOK, CalmOK
<1>4. HolderOK
  BY <1>1 DEF Init, HolderOK, Operations, Holder
<1>5. ScriptInv
  BY <1>1 DEF Init, ScriptInv, ScriptCalls, ScriptKnows, VerdictIsEarned
<1> QED BY <1>2, <1>3, <1>4, <1>5 DEF ServingInv, ServerInv

\* And every step keeps all of it.
LEMMA ServingStep == ServingInv /\ [Next]_allVars => ServingInv'
<1> SUFFICES ASSUME ServingInv, [Next]_allVars PROVE ServingInv'
  OBVIOUS
<1>1. CASE Next
  BY <1>1, ServerStep, ScriptCallsStep, ScriptKnowsStep DEF ServingInv, ScriptInv
<1>2. CASE UNCHANGED allVars
  <2> USE <1>2 DEF allVars, vars, world, store, caches, observers, script
  <2>1. Moments' /\ HolderOK' /\ CalmOK'
    BY DEF ServingInv, ServerInv, Moments, Gate, Clean, HolderOK, CalmOK
  <2>2. CallOK' /\ CacheOK'
    BY DEF ServingInv, ServerInv, CallOK, CacheOK, SaysSearch, SaysFresh, CleanSince
  <2>3. SeenOK'
    BY DEF ServingInv, ServerInv, SeenOK, RegistrySeen, SearchSeen, ListSeen, FilesSeen, CleanSince
  <2>4. ScriptInv'
    BY DEF ServingInv, ScriptInv, ScriptCalls, ScriptKnows, VerdictIsEarned, Earned, SaysSearch
  <2> QED BY <2>1, <2>2, <2>3, <2>4 DEF ServingInv, ServerInv
<1> QED BY <1>1, <1>2

\* What the server and the script know was so, in every behaviour.
THEOREM ServingInvariant == Spec => []ServingInv
BY ServingInit, ServingStep, PTL DEF Spec

\* If the script says that it started the watcher, the watcher has run, also when the
\* answer to start_watcher was lost or came from an earlier call under the same key.
THEOREM StartIsRealHolds == Spec => []StartIsReal
<1>1. ServingInv => StartIsReal
  BY DEF ServingInv, ScriptInv, ScriptKnows, StartIsReal
<1> QED BY <1>1, ServingInvariant, PTL

\* A good verdict of the script was earned by search having been available.
THEOREM VerdictIsEarnedHolds == Spec => []VerdictIsEarned
<1>1. ServingInv => VerdictIsEarned
  BY DEF ServingInv, ScriptInv
<1> QED BY <1>1, ServingInvariant, PTL

\* Only an answer tells a status, and what it tells was so.
LEMMA TellingStep ==
  ASSUME ServingInv, [Next]_allVars, Tells
  PROVE  Told(reply'.status, reply'.unread)
<1>1. Next
  BY DEF Tells, allVars, vars, caches
<1>2. ServerMoves
  BY <1>1, ServerStep DEF ServingInv
<1> QED BY <1>2 DEF ServerMoves, Tells, Answers, GoesOn

\* A status that calls nothing stale and knows it was true of every path and its row in
\* the manifest lately.
THEOREM FreshAnswersAreRecentHolds == Spec => FreshAnswersAreRecent
<1>1. ASSUME ServingInv, [Next]_allVars, NEW p \in Path, Tells,
             ~reply'.status.unknown, ~reply'.status.stale
      PROVE  lastClean[p] >= call.start - TTL
  BY <1>1, TellingStep DEF Told, SaysFresh, CleanSince
<1>2. ServingInv /\ [Next]_allVars =>
        [\A p \in Path :
           Tells /\ ~reply'.status.unknown /\ ~reply'.status.stale
             => lastClean[p] >= call.start - TTL]_vars
  BY <1>1
<1> QED BY <1>2, ServingInvariant, PTL DEF Spec, FreshAnswersAreRecent

\* A status that says search is available, and an update of the graph, go by what was
\* so lately.
THEOREM SearchableAnswersAreRecentHolds == Spec => SearchableAnswersAreRecent
<1>1. ASSUME ServingInv, [Next]_allVars, Tells, reply'.status.search
      PROVE  lastSearchable >= call.start - TTL
  BY <1>1, TellingStep DEF Told, SaysSearch
<1>2. ASSUME ServingInv, In({"update_graph"}, "graph")
      PROVE  lastSearchable >= call.start - TTL
  BY <1>2 DEF In, ServingInv, ServerInv, CallOK
<1>3. ServingInv /\ [Next]_allVars =>
        [/\ Tells /\ reply'.status.search => lastSearchable >= call.start - TTL
         /\ graph' # graph /\ In({"update_graph"}, "graph") => lastSearchable >= call.start - TTL]_vars
  BY <1>1, <1>2
<1> QED BY <1>3, ServingInvariant, PTL DEF Spec, SearchableAnswersAreRecent

\* A status that shows no operation in progress comes from a moment without one, unless
\* its lease could not be read.
THEOREM NoHiddenOperationHolds == Spec => NoHiddenOperation
<1>1. ASSUME ServingInv, [Next]_allVars, Tells, ~reply'.status.inProgress
      PROVE  calm \/ reply'.unread
  BY <1>1, TellingStep DEF Told
<1>2. ServingInv /\ [Next]_allVars => [Tells /\ ~reply'.status.inProgress => calm \/ reply'.unread]_vars
  BY <1>1
<1> QED BY <1>2, ServingInvariant, PTL DEF Spec, NoHiddenOperation

-----------------------------------------------------------------------------
(* Types *)

\* A file is a version or there is none; time, edits and other events are bounded.
Text == {None} \cup 1..(MaxEdits + 1)

WorldTypes ==
  /\ clock \in 0..MaxTime
  /\ events \in [edits : 0..MaxEdits, ops : 0..MaxOps]
  /\ file \in [Path -> Text] /\ index \in [Path -> Text]
  /\ touched \in [Path -> Nat] /\ \A q \in Path : touched[q] <= clock
  /\ lexical # None => lexical \subseteq Path \X (1..(MaxEdits + 1))
  /\ cache # None => cache.ts <= clock

\* The row, and what is written to it, is of the past; an operation that was left behind
\* never goes on.
StoreTypes ==
  /\ head \in Nat
  /\ row \in [status : {"indexed", "indexing", "error"}, points : {0, 1}, commit : 0..head, at : 0..clock]
  /\ op # None => /\ op.head <= head /\ op.time <= clock
                  /\ op.at # "begun" => op.by # "retry"

\* What start_watcher and update_graph answer when they answer.
StartAnswers == {"started", "retry", "in_progress", "permission", "switch"}
UpdateAnswers == {"updated", "bounds", "skipped", "unavailable", "busy"}

LoopTypes ==
  /\ server \in {"down", "bootstrap", "ready", "bootstrap_failed"}
  /\ call # None =>
       /\ server = "ready"
       /\ call.at \in {"called", "status", "work", "worked", "graph"}
       /\ call.tool = "start_watcher" /\ call.at = "status" => call.what \in {"started", "switch"}
  /\ reply # None =>
       /\ reply.to \in {"agent", "script"}
       /\ reply.ok \/ reply.status = None
       /\ reply.ok /\ reply.tool = "start_watcher" => reply.what \in StartAnswers
       /\ reply.ok /\ reply.tool = "update_graph" => reply.what \in UpdateAnswers

Early == {"check", "wait", "rewait", "backend", "ask", "asked"}
Late == {"start", "started", "graph", "updating", "decide", "probing"}

ScriptTypes ==
  /\ polls \in 0..MaxPolls
  /\ pc \in Early \cup Late \cup {"done"}
  /\ pc \in Early => known = None
  /\ did.watcher \in {"no", "started", "in_progress", "permission", "failed", "switch"}
  /\ did.graph \in UpdateAnswers \cup {"no", "transport"}
  /\ args.mode # "safe-recover" =>
       pc \notin {"start", "started", "updating"} /\ did = [watcher |-> "no", graph |-> "no"]
  /\ pc = "done" => /\ result.exit = ExitCode(result.readiness)
                    /\ (known = None /\ result.readiness = "blocked") \/ "search" \in DOMAIN known

Types == WorldTypes /\ StoreTypes /\ LoopTypes /\ ScriptTypes

\* How a step writes points, row and lease.
RowMoves ==
  \/ UNCHANGED row
  \/ row' = [row EXCEPT !.status = "indexing"]
  \/ row' = [row EXCEPT !.status = "indexed", !.points = Points]
  \/ op # None /\ (\E status \in {"indexed", "error"}, record \in BOOLEAN : Synced(status, record))
  \/ op # None /\ row' = [status |-> "indexed", points |-> Points, commit |-> head, at |-> op.time]

HolderMoves ==
  \/ op' = None \/ op' = op
  \/ \E by \in Holder \ {"retry"} : Begin(by)
  \/ /\ op # None /\ op.by # "retry"
     /\ \E at \in {"indexed", "invalidated", "synced"} :
          \/ op' = [op EXCEPT !.at = at, !.head = head, !.time = clock]
          \/ op' = [op EXCEPT !.at = at]

\* The cache is stamped with the time its status was asked for.
CacheMoves == cache' \in {cache, None} \/ (call # None /\ cache'.ts = call.now)

IndexMoves == index' \in {index, file} \/ PointsMoved

StoreMoves == IndexMoves /\ RowMoves /\ HolderMoves

\* So the row and the holder of the lease stay what they may be.
LEMMA StoreFollows ==
  ASSUME ServerInv, WorldTypes, StoreTypes, RowMoves, HolderMoves,
         clock' \in Nat, clock <= clock', head' \in Nat, head <= head',
         UNCHANGED <<row, op>> \/ UNCHANGED <<clock, head>>
  PROVE  StoreTypes'
<1>1. Points \in {0, 1} /\ Points' \in {0, 1}
  BY DEF Points
<1>2. clock \in Nat
  BY DEF ServerInv, Moments
<1>3. op # None => /\ op \in Operations
                   /\ op.head \in 0..head /\ op.time \in 0..clock
  BY <1>2 DEF ServerInv, HolderOK, StoreTypes, Operations
<1>4. CASE UNCHANGED <<row, op>>
  BY <1>2, <1>3, <1>4 DEF StoreTypes
<1>5. CASE UNCHANGED <<clock, head>>
  <2>1. row' \in [status : {"indexed", "indexing", "error"}, points : {0, 1}, commit : 0..head, at : 0..clock]
    <3>1. ASSUME NEW status \in {"indexed", "error"}, NEW record \in BOOLEAN, op # None, Synced(status, record)
          PROVE  row' \in [status : {"indexed", "indexing", "error"}, points : {0, 1},
                           commit : 0..head, at : 0..clock]
      BY <1>1, <1>3, <3>1 DEF StoreTypes, Synced
    <3>2. CASE op # None /\ row' = [status |-> "indexed", points |-> Points, commit |-> head, at |-> op.time]
      BY <1>1, <1>3, <3>2 DEF StoreTypes
    <3> QED BY <1>1, <3>1, <3>2 DEF StoreTypes, RowMoves
  <2>2. ASSUME op' # None
        PROVE  op'.head <= head /\ op'.time <= clock /\ (op'.at # "begun" => op'.by # "retry")
    <3>1. CASE \E by \in Holder \ {"retry"} : Begin(by)
      BY <1>2, <3>1 DEF Begin, Holder, StoreTypes
    <3>2. ASSUME NEW at \in {"indexed", "invalidated", "synced"}, op # None, op.by # "retry",
                 op' = [op EXCEPT !.at = at, !.head = head, !.time = clock] \/ op' = [op EXCEPT !.at = at]
          PROVE  op'.head <= head /\ op'.time <= clock /\ (op'.at # "begun" => op'.by # "retry")
      BY <1>2, <1>3, <3>2 DEF Operations, StoreTypes
    <3> QED BY <2>2, <3>1, <3>2 DEF HolderMoves, StoreTypes
  <2> QED BY <1>5, <2>1, <2>2 DEF StoreTypes
<1> QED BY <1>4, <1>5

\* Around the server.
LEMMA AroundMoves ==
  ASSUME Around, HolderOK
  PROVE  /\ StoreMoves /\ lexical' = lexical
         /\ server' = server \/ (server = "bootstrap" /\ server' \in {"ready", "bootstrap_failed"})
         /\ \/ UNCHANGED <<clock, file, touched, events, head>>
            \/ UNCHANGED <<clock, file, touched, head>> /\ (Configure \/ OtherBegins)
            \/ Tick \/ Commit \/ \E p \in Path : Edit(p)
<1> USE DEF world, store, caches, StoreMoves, IndexMoves, RowMoves, HolderMoves, Holder
<1>1. CASE Tick \/ Commit
  BY <1>1 DEF Tick, Commit
<1>2. ASSUME NEW p \in Path, Edit(p) PROVE UNCHANGED <<index, row, op, lexical, server>>
  BY <1>2, Zenon DEF Edit
<1>3. CASE \E p \in Path : Edit(p)
  BY <1>2, <1>3
<1>4. CASE Configure \/ Bootstrapped \/ AbandonedExpires
  BY <1>4 DEF Configure, Bootstrapped, AbandonedExpires
<1>5. CASE WatcherBegins \/ OtherBegins
  BY <1>5 DEF WatcherBegins, OtherBegins
<1>6. CASE WatcherReindexes \/ OtherRebuilds
  BY <1>6 DEF WatcherReindexes, OtherRebuilds, Reindexed
<1>7. CASE WatcherInvalidates \/ WatcherEnds
  BY <1>7 DEF WatcherInvalidates, WatcherEnds
<1>8. CASE WatcherSyncs
  BY <1>8 DEF WatcherSyncs
<1>9. CASE OtherEnds
  BY <1>9 DEF OtherEnds
<1> QED BY <1>1, <1>3, <1>4, <1>5, <1>6, <1>7, <1>8, <1>9 DEF Around

\* How a call of the event loop answers or goes on.
AnswerMoves ==
  \/ UNCHANGED reply
  \/ /\ call # None /\ call' = None
     /\ reply'.to = call.from /\ reply'.tool = call.tool
     /\ reply'.ok \/ reply'.status = None
     /\ reply'.ok /\ call.tool = "start_watcher" => reply'.what \in StartAnswers
     /\ reply'.ok /\ call.tool = "update_graph" => reply'.what \in UpdateAnswers

CallGoes ==
  \/ call' = call \/ call' = None
  \/ /\ call # None
     /\ call'.at \in {"called", "status", "work", "worked", "graph"}
     /\ call'.tool = "start_watcher" /\ call'.at = "status" => call'.what \in {"started", "switch"}

\* Calls that ask for the status, answer, or have a status, do.
LEMMA AskStatusGoes ==
  ASSUME NEW what, AskStatus(what), call # None, CallOK,
         call.tool = "start_watcher" => what \in {"started", "switch"}
  PROVE  CallGoes /\ AnswerMoves
<1>1. /\ call'.at = "status" /\ call'.what = what /\ call'.tool = call.tool /\ UNCHANGED reply
  BY DEF AskStatus, CallOK
<1> QED BY <1>1 DEF CallGoes, AnswerMoves

LEMMA PayloadGoes ==
  ASSUME NEW ok \in BOOLEAN, NEW status, NEW what, NEW g, NEW unread,
         Payload(ok, status, what, g, unread), call # None,
         ok \/ status = None,
         ok /\ call.tool = "start_watcher" => what \in StartAnswers,
         ok /\ call.tool = "update_graph" => what \in UpdateAnswers
  PROVE  CallGoes /\ AnswerMoves
<1>1. /\ call' = None
      /\ reply' = [ok |-> ok, to |-> call.from, tool |-> call.tool,
                   status |-> status, graph |-> g, what |-> what, unread |-> unread]
  BY DEF Payload
<1> QED BY <1>1 DEF CallGoes, AnswerMoves

LEMMA AnswerGoes ==
  ASSUME NEW ok \in BOOLEAN, NEW status, NEW what, NEW g, Answer(ok, status, what, g), call # None,
         ok \/ status = None,
         ok /\ call.tool = "start_watcher" => what \in StartAnswers,
         ok /\ call.tool = "update_graph" => what \in UpdateAnswers
  PROVE  CallGoes /\ AnswerMoves
BY PayloadGoes DEF Answer

LEMMA HasGoes ==
  ASSUME NEW status, NEW unread, Has(status, unread), call # None, call.at = "status", CallOK, LoopTypes
  PROVE  CallGoes /\ AnswerMoves /\ (op' = None \/ op' = op)
<1>1. op' = None \/ op' = op
  BY DEF Has
<1>2. CASE call.tool # "update_graph"
  <2>1. Payload(TRUE, status, call.what, None, unread)
    BY <1>2 DEF Has
  <2> QED BY <1>1, <1>2, <2>1, PayloadGoes DEF LoopTypes, StartAnswers
<1>3. CASE call.tool = "update_graph" /\ status.search
  <2>1. call'.at = "graph" /\ call'.tool = "update_graph" /\ UNCHANGED reply
    BY <1>3 DEF Has, CallOK
  <2> QED BY <1>1, <2>1 DEF CallGoes, AnswerMoves
<1>4. CASE call.tool = "update_graph" /\ ~status.search
  <2>1. Answer(TRUE, None, "unavailable", graph)
    BY <1>4 DEF Has
  <2> QED BY <1>1, <1>4, <2>1, AnswerGoes DEF UpdateAnswers
<1> QED BY <1>2, <1>3, <1>4

\* And with them every step of the loop.
LEMMA LoopMoves ==
  ASSUME Loop, ServerInv, LoopTypes
  PROVE  /\ StoreMoves /\ lexical' \in {lexical, None, Indexed}
         /\ UNCHANGED <<clock, file, touched, events, head, server>>
         /\ AnswerMoves /\ CallGoes /\ CacheMoves
<1> USE DEF world, store, StoreMoves, IndexMoves, RowMoves, HolderMoves, Holder, CacheMoves
<1>0. CallOK /\ SeenOK
  BY DEF ServerInv
<1>1. CASE StatusAsked
  <2>1. AskStatus("status") /\ call # None /\ call.tool \in {"index_status", "update_graph"}
    BY <1>1 DEF StatusAsked, In
  <2> QED BY <1>0, <1>1, <2>1, AskStatusGoes DEF StatusAsked
<1>2. CASE ServeCached
  <2>1. Has(cache.status, FALSE) /\ call # None /\ call.at = "status"
    BY <1>2 DEF ServeCached
  <2> QED BY <1>0, <1>2, <2>1, HasGoes DEF ServeCached
<1>3. CASE BuildReadsRegistry \/ BuildReadsGit \/ BuildReadsRows
  BY <1>3 DEF BuildReadsRegistry, BuildReadsGit, BuildReadsRows, AnswerMoves, CallGoes
<1>4. ASSUME NEW p \in Path, BuildScans(p)
      PROVE  UNCHANGED <<clock, file, touched, events, head, server, index, row, op, lexical, call, reply, cache>>
  BY <1>4 DEF BuildScans
<1>5. CASE \E p \in Path : BuildScans(p)
  BY <1>4, <1>5 DEF AnswerMoves, CallGoes
<1>6. CASE BuildEnds
  <2>0. PICK unread \in {FALSE, Lease # None} :
          Has(IndexStatus(Observation(Further(seen, LastReading(unread)))), unread)
    BY <1>6 DEF BuildEnds
  <2> DEFINE status == IndexStatus(Observation(Further(seen, LastReading(unread))))
  <2>1. Has(status, unread) /\ call # None /\ call.at = "status"
    BY <1>0, <1>6, <2>0 DEF BuildEnds, SeenOK
  <2>2. UNCHANGED <<clock, file, touched, events, head, server, index, row, lexical>>
    BY <1>6 DEF BuildEnds
  <2>3. cache'.ts = call.now
    BY <1>6 DEF BuildEnds
  <2> HIDE DEF status
  <2> QED BY <1>0, <2>1, <2>2, <2>3, HasGoes
<1>7. CASE Search
  <2>1. call # None /\ call.tool = "search"
    BY <1>7 DEF Search, In
  <2>2. /\ UNCHANGED <<clock, file, touched, events, head, server, index, row, op, cache>>
        /\ lexical' \in {lexical, Indexed}
        /\ AskStatus("hits") \/ Answer(FALSE, None, "error", None)
    BY <1>7 DEF Search, Refuse
  <2> QED BY <1>0, <2>1, <2>2, AskStatusGoes, AnswerGoes
<1>8. CASE TurnedAway
  <2>1. call # None /\ call.tool \in {"reindex_paths", "start_watcher"}
    BY <1>8 DEF TurnedAway, In
  <2>2. /\ UNCHANGED <<clock, file, touched, events, head, server, index, row, op, lexical, cache>>
        /\ \/ \E what \in {"retry", "in_progress"} : Answer(TRUE, None, what, None)
           \/ Answer(FALSE, None, "error", None)
    BY <1>8 DEF TurnedAway, Refuse
  <2> QED BY <1>0, <2>1, <2>2, AnswerGoes DEF StartAnswers
<1>9. CASE ReindexBegins
  <2>1. call'.at = "work" /\ UNCHANGED reply /\ call # None
    BY <1>0, <1>9 DEF ReindexBegins, Enter, In, CallOK
  <2> QED BY <1>9, <2>1 DEF ReindexBegins, Invalidated, AnswerMoves, CallGoes
<1>10. CASE ReindexWorks
  <2>1. call'.at = "worked" /\ UNCHANGED reply /\ call # None /\ op # None /\ op.by # "retry"
    BY <1>0, <1>10, CachesAssumption DEF ReindexWorks, In, CallOK
  <2> QED BY <1>10, <2>1 DEF ReindexWorks, Reindexed, AnswerMoves, CallGoes
<1>11. CASE ReindexEnds
  <2>1. call # None /\ call.tool = "reindex_paths" /\ op # None
    BY <1>0, <1>11, CachesAssumption DEF ReindexEnds, In, CallOK
  <2>2. /\ UNCHANGED <<clock, file, touched, events, head, server>> /\ IndexMoves
        /\ op' = None /\ lexical' \in {lexical, None} /\ cache' = None
        /\ Synced("indexed", TRUE) \/ Synced("error", FALSE)
        /\ Answer(TRUE, None, "reindexed", None) \/ Answer(FALSE, None, "error", None)
    BY <1>11 DEF ReindexEnds, Refuse, Invalidated, IndexMoves
  <2>3. CallGoes /\ AnswerMoves
    BY <2>1, <2>2, AnswerGoes
  <2> QED BY <2>1, <2>2, <2>3
<1>12. CASE SwitchPending
  <2>1. call # None /\ AskStatus("switch")
    BY <1>12 DEF SwitchPending, In
  <2>2. CallGoes /\ AnswerMoves
    BY <1>0, <2>1, AskStatusGoes
  <2> QED BY <1>12, <2>2 DEF SwitchPending
<1>13. CASE StartRefused
  <2>1. call # None /\ Answer(FALSE, None, "error", None)
    BY <1>13 DEF StartRefused, In, Refuse
  <2>2. CallGoes /\ AnswerMoves
    BY <2>1, AnswerGoes
  <2> QED BY <1>13, <2>2 DEF StartRefused
<1>14. CASE StartAgain
  <2>1. call # None /\ AskStatus("started")
    BY <1>14 DEF StartAgain, Enter, In
  <2>2. CallGoes /\ AnswerMoves
    BY <1>0, <2>1, AskStatusGoes
  <2> QED BY <1>14, <2>2 DEF StartAgain, Invalidated
<1>15. CASE StartReconciles
  <2>1. call'.at = "work" /\ UNCHANGED reply /\ call # None
    BY <1>0, <1>15 DEF StartReconciles, Enter, In, CallOK
  <2> QED BY <1>15, <2>1 DEF StartReconciles, Reindexed, AnswerMoves, CallGoes
<1>16. CASE StartGivesUp
  <2>1. /\ call # None /\ call.tool = "start_watcher"
        /\ Answer(TRUE, None, "permission", None) \/ Answer(FALSE, None, "error", None)
    BY <1>16 DEF StartGivesUp, Enter, In, Refuse
  <2>2. CallGoes /\ AnswerMoves
    BY <2>1, AnswerGoes DEF StartAnswers
  <2> QED BY <1>16, <2>2 DEF StartGivesUp
<1>17. CASE StartStarts
  <2>1. call # None /\ AskStatus("started") /\ op # None
    BY <1>0, <1>17, CachesAssumption DEF StartStarts, In, CallOK
  <2>2. CallGoes /\ AnswerMoves
    BY <1>0, <2>1, AskStatusGoes
  <2> QED BY <1>17, <2>1, <2>2 DEF StartStarts, Invalidated
<1>18. CASE UpdateGraph
  <2>1. /\ call # None /\ call.tool = "update_graph"
        /\ \/ \E what \in {"busy", "bounds", "skipped"} : Answer(TRUE, None, what, graph)
           \/ Answer(TRUE, None, "updated", graph')
           \/ Answer(FALSE, None, "error", None)
    BY <1>18 DEF UpdateGraph, In, Refuse
  <2>2. CallGoes /\ AnswerMoves
    BY <2>1, AnswerGoes DEF UpdateAnswers
  <2> QED BY <1>18, <2>2 DEF UpdateGraph
<1> QED
  BY <1>1, <1>2, <1>3, <1>5, <1>6, <1>7, <1>8, <1>9, <1>10, <1>11, <1>12, <1>13, <1>14, <1>15,
     <1>16, <1>17, <1>18 DEF Loop

\* The script takes answers, waits, or calls.
LEMMA ScriptMoves ==
  ASSUME Script, ScriptInv, ServerInv, LoopTypes, ScriptTypes
  PROVE  /\ UNCHANGED <<clock, file, touched, events, head, index, row, op, lexical, cache>>
         /\ server' = server \/ (server = "down" /\ server' = "bootstrap")
         /\ \/ UNCHANGED call /\ reply' \in {reply, None}
            \/ server = "ready" /\ call'.at = "called" /\ reply' = None
         /\ ScriptTypes'
<1> USE DEF Early, Late, ScriptTypes
<1> DEFINE Kept == /\ UNCHANGED <<clock, file, touched, events, head, index, row, op, lexical, cache>>
                   /\ server' = server \/ (server = "down" /\ server' = "bootstrap")
                   /\ \/ UNCHANGED call /\ reply' \in {reply, None}
                      \/ server = "ready" /\ call'.at = "called" /\ reply' = None
<1>1. Kept
  <2> USE DEF world, store, caches, Quiet, Take
  <2>1. ASSUME NEW tool, NEW then, Submit(tool, then) PROVE Kept
    BY <2>1 DEF Submit, Receive
  <2>2. CASE Check \/ Wait \/ Waited \/ StartBackend \/ Unreachable
    BY <2>2 DEF Check, Wait, Waited, StartBackend, Unreachable
  <2>3. CASE Ask \/ Start \/ AskGraph
    BY <2>1, <2>3 DEF Ask, Start, AskGraph
  <2>4. CASE Learn \/ Started \/ StartUnclear \/ Updated \/ UpdateUnclear \/ NoUpdate
    BY <2>4 DEF Learn, Started, StartUnclear, Updated, UpdateUnclear, NoUpdate
  <2>5. CASE Decide
    BY <2>1, <2>5 DEF Decide
  <2>6. CASE Probed \/ ProbeFails
    BY <2>6 DEF Probed, ProbeFails
  <2> QED BY <2>2, <2>3, <2>4, <2>5, <2>6 DEF Script
<1> HIDE DEF Kept
<1> SUFFICES ScriptTypes'
  BY <1>1 DEF Kept
<1>2. /\ did = [watcher |-> did.watcher, graph |-> did.graph]
      /\ pc \in Late => "search" \in DOMAIN known
      /\ polls \in 0..MaxPolls /\ MaxPolls \in Nat /\ polls \in Nat
  BY ScriptAssumption DEF ScriptInv, ScriptKnows, Earned
<1>3. CASE Check \/ Wait \/ Waited \/ StartBackend
  BY <1>2, <1>3 DEF Check, Wait, Waited, StartBackend
<1>4. CASE Ask \/ Start \/ AskGraph
  BY <1>2, <1>4 DEF Ask, Start, AskGraph, Submit, WantsGraph
<1>5. CASE Unreachable
  BY <1>2, <1>5 DEF Unreachable, ExitCode, ReadyStates
<1>6. CASE Learn
  BY <1>2, <1>6 DEF Learn, WantsWatcher
<1>7. CASE Started
  <2>1. reply.what \in StartAnswers
    BY <1>7 DEF Started, Got, LoopTypes
  <2> QED BY <1>2, <1>7, <2>1 DEF Started, StartAnswers
<1>8. CASE StartUnclear
  BY <1>2, <1>8 DEF StartUnclear
<1>9. CASE Updated
  <2>1. reply.what \in UpdateAnswers
    BY <1>9 DEF Updated, Got, LoopTypes
  <2> QED BY <1>2, <1>9, <2>1 DEF Updated
<1>10. CASE UpdateUnclear \/ NoUpdate
  BY <1>2, <1>10 DEF UpdateUnclear, NoUpdate, WantsGraph
<1>11. ASSUME NEW v, Finish(v), pc \in Late, UNCHANGED <<args, known, did>>,
              polls' \in 0..MaxPolls
       PROVE  ScriptTypes'
  BY <1>2, <1>11 DEF Finish, Result
<1>12. CASE Decide
  BY <1>2, <1>11, <1>12 DEF Decide, Submit
<1>13. CASE Probed
  BY <1>2, <1>11, <1>13 DEF Probed
<1>14. CASE ProbeFails
  BY <1>2, <1>11, <1>14 DEF ProbeFails
<1> QED
  BY <1>3, <1>4, <1>5, <1>6, <1>7, <1>8, <1>9, <1>10, <1>12, <1>13, <1>14 DEF Script

\* A step of the clock, of an editor, of git, of a registry, or none of these.
LEMMA WorldStep ==
  ASSUME WorldTypes, ServerInv, IndexMoves, lexical' \in {lexical, None, Indexed},
         CacheMoves,
         \/ UNCHANGED <<clock, file, touched, events, head>>
         \/ UNCHANGED <<clock, file, touched, head, lexical>> /\ (Configure \/ OtherBegins \/ AgentCalls)
         \/ Tick \/ Commit \/ \E p \in Path : Edit(p)
  PROVE  WorldTypes' /\ clock' \in Nat /\ clock <= clock' /\ head' \in Nat /\ head <= head'
<1> USE DEF WorldTypes
<1>1. /\ clock \in Nat /\ head \in Nat /\ {MaxTime, MaxEdits, MaxOps} \subseteq Nat
      /\ events = [edits |-> events.edits, ops |-> events.ops]
      /\ events.edits \in 0..MaxEdits /\ events.ops \in 0..MaxOps
  BY CachesAssumption DEF ServerInv, Moments, HolderOK
<1>2. index' \in [Path -> Text]
  <2>1. CASE PointsMoved
    <3>1. /\ index' \in [Path -> UNION {{None, index[p], file[p]} : p \in Path}]
          /\ \A p \in Path : index'[p] \in {None, index[p], file[p]}
      BY <2>1 DEF PointsMoved
    <3>2. \A p \in Path : index'[p] \in Text
      BY <3>1 DEF Text
    <3> QED BY <3>1, <3>2
  <2> QED BY <2>1 DEF IndexMoves
<1>3. ASSUME lexical' = Indexed PROVE lexical' \subseteq Path \X (1..(MaxEdits + 1))
  BY <1>3 DEF Indexed, Text
<1>4. clock' \in Nat /\ clock <= clock' => (cache # None => cache.ts <= clock)'
  <2>1. cache # None => cache.ts \in Nat /\ cache.ts <= clock
    BY DEF ServerInv, CacheOK
  <2>2. call # None => call.now \in Nat /\ call.now <= clock
    BY DEF ServerInv, CallOK
  <2> QED BY <1>1, <2>1, <2>2 DEF CacheMoves
<1>5. CASE UNCHANGED <<clock, file, touched, events, head>>
  BY <1>1, <1>2, <1>3, <1>4, <1>5
<1>6. ASSUME Spend("ops", MaxOps) PROVE events' \in [edits : 0..MaxEdits, ops : 0..MaxOps]
  BY <1>1, <1>6 DEF Spend
<1>7. ASSUME Spend("edits", MaxEdits)
      PROVE  events' \in [edits : 0..MaxEdits, ops : 0..MaxOps] /\ events.edits < MaxEdits
  BY <1>1, <1>7 DEF Spend
<1>8. CASE UNCHANGED <<clock, file, touched, head, lexical>> /\ (Configure \/ OtherBegins \/ AgentCalls)
  <2>1. Spend("ops", MaxOps)
    BY <1>8 DEF Configure, OtherBegins, AgentCalls
  <2> QED BY <1>1, <1>2, <1>4, <1>6, <1>8, <2>1
<1>9. CASE Tick
  BY <1>1, <1>3, <1>4, <1>9 DEF Tick, world, store, caches
<1>10. CASE Commit
  BY <1>1, <1>3, <1>4, <1>7, <1>10 DEF Commit, store, caches
<1>11. ASSUME NEW p \in Path, Edit(p)
       PROVE  WorldTypes' /\ clock' = clock /\ head' = head
  <2>1. PICK v \in 1..(events.edits + 2) \cup {None} : file' = [file EXCEPT ![p] = v]
    BY <1>11 DEF Edit
  <2>2. v \in Text
    <3>1. Spend("edits", MaxEdits)
      BY <1>11 DEF Edit
    <3> QED BY <1>1, <1>7, <3>1 DEF Text
  <2>3. file' \in [Path -> Text]
    BY <2>1, <2>2
  <2>4. touched' \in [Path -> Nat] /\ \A q \in Path : touched'[q] <= clock
    BY <1>1, <1>11 DEF Edit
  <2>5. /\ UNCHANGED <<clock, head, index, lexical>> /\ Spend("edits", MaxEdits)
    BY <1>11 DEF Edit, store, caches
  <2> QED BY <1>1, <1>4, <1>7, <2>3, <2>4, <2>5
<1> QED BY <1>1, <1>5, <1>8, <1>9, <1>10, <1>11

\* And every step keeps the types.
LEMMA TypesStep ==
  ASSUME ServingInv, Types, Next
  PROVE  Types'
<1>1. /\ ServerInv /\ ScriptInv /\ HolderOK /\ head \in Nat /\ clock \in Nat
      /\ WorldTypes /\ StoreTypes /\ LoopTypes /\ ScriptTypes
  BY DEF ServingInv, ServerInv, HolderOK, Moments, Types
<1>2. CASE Script
  <2>1. /\ UNCHANGED <<clock, file, touched, events, head, index, row, op, lexical, cache>>
        /\ server' = server \/ (server = "down" /\ server' = "bootstrap")
        /\ \/ UNCHANGED call /\ reply' \in {reply, None}
           \/ server = "ready" /\ call'.at = "called" /\ reply' = None
        /\ ScriptTypes'
    BY <1>1, <1>2, ScriptMoves
  <2>2. WorldTypes' /\ StoreTypes'
    BY <1>1, <2>1 DEF WorldTypes, StoreTypes
  <2>3. LoopTypes'
    BY <1>1, <2>1 DEF LoopTypes
  <2> QED BY <2>1, <2>2, <2>3 DEF Types
<1>3. ASSUME UNCHANGED script PROVE ScriptTypes'
  BY <1>1, <1>3 DEF ScriptTypes, script
<1>4. CASE Around /\ UNCHANGED script
  <2>1. /\ StoreMoves /\ lexical' = lexical
        /\ server' = server \/ (server = "bootstrap" /\ server' \in {"ready", "bootstrap_failed"})
        /\ \/ UNCHANGED <<clock, file, touched, events, head>>
           \/ UNCHANGED <<clock, file, touched, head>> /\ (Configure \/ OtherBegins)
           \/ Tick \/ Commit \/ \E p \in Path : Edit(p)
    BY <1>1, <1>4, AroundMoves
  <2>5. UNCHANGED <<call, reply>> /\ cache' \in {cache, None}
    BY <1>1, <1>4, AroundSteps
  <2>2. WorldTypes' /\ clock' \in Nat /\ clock <= clock' /\ head' \in Nat /\ head <= head'
    BY <1>1, <2>1, <2>5, WorldStep DEF StoreMoves, CacheMoves
  <2>3. UNCHANGED <<row, op>> \/ UNCHANGED <<clock, head>>
    <3>1. ASSUME NEW p \in Path, Edit(p) PROVE UNCHANGED <<clock, head>>
      BY <3>1 DEF Edit
    <3> QED BY <2>1, <3>1 DEF Tick, Commit, store
  <2>4. StoreTypes'
    BY <1>1, <2>1, <2>2, <2>3, StoreFollows DEF StoreMoves
  <2>6. LoopTypes'
    BY <1>1, <2>1, <2>5 DEF LoopTypes
  <2> QED BY <1>3, <1>4, <2>2, <2>4, <2>6 DEF Types
<1>5. CASE Loop /\ UNCHANGED script
  <2>1. /\ StoreMoves /\ lexical' \in {lexical, None, Indexed}
        /\ UNCHANGED <<clock, file, touched, events, head, server>>
        /\ AnswerMoves /\ CallGoes /\ CacheMoves
    BY <1>1, <1>5, LoopMoves
  <2>2. WorldTypes' /\ StoreTypes'
    BY <1>1, <2>1, WorldStep, StoreFollows DEF StoreMoves
  <2>3. LoopTypes'
    BY <1>1, <2>1 DEF LoopTypes, AnswerMoves, CallGoes, ServerInv, CallOK
  <2> QED BY <1>3, <1>5, <2>2, <2>3 DEF Types
<1>6. CASE AgentCalls /\ UNCHANGED script
  <2>1. /\ UNCHANGED <<clock, file, touched, head, index, row, op, lexical, cache, server>>
        /\ server = "ready" /\ call'.at = "called" /\ reply' = None
    BY <1>6 DEF AgentCalls, Receive, world, store
  <2>2. WorldTypes'
    BY <1>1, <1>6, <2>1, WorldStep DEF CacheMoves, IndexMoves
  <2>3. StoreTypes' /\ LoopTypes'
    BY <1>1, <2>1 DEF StoreTypes, LoopTypes
  <2> QED BY <1>3, <1>6, <2>2, <2>3 DEF Types
<1> QED BY <1>2, <1>4, <1>5, <1>6 DEF Next

\* At first too.
LEMMA TypesInit == InitAll => Types
<1> SUFFICES ASSUME InitAll PROVE Types
  OBVIOUS
<1> USE DEF InitAll, Init
<1>1. WorldTypes
  BY CachesAssumption DEF WorldTypes, Text
<1>2. StoreTypes
  BY DEF StoreTypes
<1>3. LoopTypes
  BY DEF LoopTypes
<1>4. ScriptTypes
  BY ScriptAssumption DEF ScriptTypes, Early, Late, UpdateAnswers
<1> QED BY <1>1, <1>2, <1>3, <1>4 DEF Types

\* The type invariant: nothing is dated later than now, an abandoned operation never goes
\* on, and the script has a status from when it acts until it ends.
THEOREM TypeCorrect == Spec => []TypeOK
<1>1. InitAll => ServingInv /\ Types
  BY ServingInit, TypesInit
<1>2. ServingInv /\ Types /\ [Next]_allVars => (ServingInv /\ Types)'
  <2> SUFFICES ASSUME ServingInv, Types, [Next]_allVars PROVE ServingInv' /\ Types'
    OBVIOUS
  <2>1. ServingInv'
    BY ServingStep
  <2>2. CASE UNCHANGED allVars
    <3> USE <2>2 DEF allVars, vars, world, store, caches, script, Types
    <3>1. WorldTypes' /\ StoreTypes'
      BY DEF WorldTypes, StoreTypes
    <3>2. LoopTypes'
      BY DEF LoopTypes
    <3>3. ScriptTypes'
      BY DEF ScriptTypes
    <3> QED BY <2>1, <3>1, <3>2, <3>3
  <2> QED BY <2>1, <2>2, TypesStep
<1>3. ServingInv /\ Types => TypeOK
  <2> SUFFICES ASSUME ServingInv, Types PROVE TypeOK
    OBVIOUS
  <2>1. CachesTypeOK
    <3>1. \A q \in Path : touched[q] \in 0..clock
      BY DEF Types, WorldTypes
    <3>2. op # None => op \in Operations /\ (op.at # "begun" => op.by # "retry")
      BY DEF ServingInv, ServerInv, HolderOK, Types, StoreTypes
    <3>3. seen # None => call # None /\ call.at = "status"
      BY DEF ServingInv, ServerInv, SeenOK
    <3>4. cache # None => cache.ts \in 0..clock
      BY DEF ServingInv, ServerInv, CacheOK, Moments, Types, WorldTypes
    <3> QED BY <3>1, <3>2, <3>3, <3>4 DEF Types, WorldTypes, StoreTypes, LoopTypes, CachesTypeOK
  <2>2. /\ pc \in Late => "search" \in DOMAIN known
        /\ pc # "done" => result = None
    BY DEF ServingInv, ScriptInv, ScriptKnows, Earned, Late
  <2> QED BY <2>1, <2>2 DEF Types, ScriptTypes, Early, Late, UpdateAnswers, TypeOK
<1> QED BY <1>1, <1>2, <1>3, PTL DEF Spec
=============================================================================
