------------------------- MODULE RepoLifecycleProofs -------------------------
(***************************************************************************)
(* Proofs about RepoLifecycle, for any number of processes and             *)
(* repositories.                                                           *)
(***************************************************************************)
EXTENDS RepoLifecycle, FiniteSetTheorems, TLAPS

-----------------------------------------------------------------------------
(* The inductive invariant of the leases *)

\* TypeOK, with the active repository named instead of counted.
Types ==
  /\ row \in [Repo -> Row \cup {NoRow}]
  /\ active = {} \/ \E r \in Repo : active = {r}
  /\ store \in [Repo -> Vectors]
  /\ lease \in [Repo \cup {Registry} -> Actor \cup {None, Dead}]
  /\ at \in [Actor -> Inside \cup {"down", "counting", "counted", "broken", "failed",
                                   "idle", "checked"}]
  /\ op \in [Actor -> Tools \cup {"none", "connect", "boot", "boot_error", "poll"}]
  /\ \A a \in Actor : op[a] = "none" <=> at[a] \notin Inside
  /\ target \in [Actor -> Repo]
  /\ say \in [Actor -> Status] /\ saw \in [Actor -> BOOLEAN]
  /\ existing \in [Actor -> Row \cup {NoRow}]
  /\ watching \subseteq Runtime
  /\ orphaned \subseteq Repo /\ echoed \subseteq Repo /\ unnoted \subseteq Repo

\* A thread inside a call has the leases of the call, and a lease its owner inside.
LeasesAreHeld ==
  /\ \A a \in Actor : at[a] \in Inside => \A k \in Needs(a, op[a], target[a]) : lease[k] = a
  /\ \A k \in Repo \cup {Registry} : lease[k] \in Actor => at[lease[k]] \in Inside

\* Only register_repo is about another repository.
TargetsAreOwn == \A a \in Actor : op[a] # "register" => target[a] = Own(a)

LeaseInv == Types /\ LeasesAreHeld /\ TargetsAreOwn

-----------------------------------------------------------------------------
(* Threads and their repositories *)

LEMMA Threads ==
  /\ \A a \in Actor : Own(a) \in Repo /\ a # None /\ a # Dead
  /\ \A rt \in Runtime :
       /\ Main(rt) \in Actor /\ Watch(rt) \in Actor /\ Main(rt) # Watch(rt)
       /\ Own(Main(rt)) = RepoOf[rt] /\ Own(Watch(rt)) = RepoOf[rt]
       /\ Main(rt)[2] = "main" /\ Main(rt)[1] = rt
  BY LifecycleAssumption DEF Actor, Own, Main, Watch

\* A thread asks for calls outside of any call only.
LEMMA AsksOutside ==
  ASSUME NEW a \in Actor, NEW o \in Asks(a)
  PROVE  /\ at[a] \notin Inside
         /\ o \in (Tools \cup {"connect", "boot", "boot_error", "poll"})
  BY LifecycleAssumption DEF Asks, Inside, Tools, Actor

LEMMA NeedsKeys ==
  ASSUME NEW a \in Actor, NEW o, NEW r
  PROVE  Needs(a, o, r) \subseteq Repo \cup {Registry}
  BY Threads DEF Needs

\* What a thread does between Enter and the end of its call.
InsideStep(a) ==
  \/ Read(a) \/ Write(a) \/ SuccessNotWritten(a) \/ DropIndex(a) \/ FillIndex(a)
  \/ FinishWork(a) \/ FailWork(a)

LEMMA StepCases ==
  ASSUME Next
  PROVE  \/ \E a \in Actor : InsideStep(a) \/ WriteFails(a) \/ Leave(a)
         \/ \E a \in Actor, o \in Tools \cup {"connect", "boot", "boot_error", "poll"}, r \in Repo :
              /\ o \in Asks(a) /\ (r = Own(a) \/ o = "register")
              /\ Enter(a, o, r) \/ Refuse(a, o, r)
         \/ \E k \in Repo \cup {Registry} : Expire(k)
         \/ \E rt \in Runtime : Count(rt) \/ DependenciesFail(rt) \/ Check(rt) \/ Crash(rt)
<1>1. CASE \E a \in Actor : Progress(a) \/ DropIndex(a) \/ FillIndex(a)
  BY <1>1 DEF Progress, InsideStep
<1>2. ASSUME NEW a \in Actor, NEW o \in Asks(a), NEW r \in Repo,
             IF o = "register" THEN r \in About[a[1]] ELSE r = Own(a), Enter(a, o, r) \/ Refuse(a, o, r)
      PROVE  \E b \in Actor, p \in Tools \cup {"connect", "boot", "boot_error", "poll"}, q \in Repo :
               /\ p \in Asks(b) /\ (q = Own(b) \/ p = "register")
               /\ Enter(b, p, q) \/ Refuse(b, p, q)
  BY <1>2, AsksOutside
<1> QED BY <1>1, <1>2 DEF Next

\* What a step inside a call leaves alone.
LEMMA InsideStays ==
  ASSUME LeaseInv, NEW a \in Actor, InsideStep(a)
  PROVE  /\ at[a] \in Inside /\ at' = [at EXCEPT ![a] = at'[a]] /\ at'[a] \in Inside
         /\ UNCHANGED <<lease, op, target>>
<1> USE DEF LeaseInv, Types, Go, Inside, registry, local
<1>1. CASE Read(a) BY <1>1 DEF Read
<1>2. CASE Write(a) BY <1>2 DEF Write
<1>3. CASE SuccessNotWritten(a) BY <1>3 DEF SuccessNotWritten
<1>4. CASE DropIndex(a) BY <1>4 DEF DropIndex
<1>5. CASE FillIndex(a) BY <1>5 DEF FillIndex
<1>6. CASE FinishWork(a) BY <1>6 DEF FinishWork
<1>7. CASE FailWork(a) BY <1>7 DEF FailWork
<1> QED BY <1>1, <1>2, <1>3, <1>4, <1>5, <1>6, <1>7 DEF InsideStep

\* The end of a call, of one that was refused and of one that died: the thread is
\* outside, and its locals are what they were at first.
LEMMA ForgetKeepsTypes ==
  ASSUME Types, NEW A, Forget(A)
  PROVE  /\ op' \in [Actor -> Tools \cup {"none", "connect", "boot", "boot_error", "poll"}]
         /\ target' \in [Actor -> Repo]
         /\ say' \in [Actor -> Status] /\ saw' \in [Actor -> BOOLEAN]
         /\ existing' \in [Actor -> Row \cup {NoRow}]
         /\ \A a \in Actor : a \in A => op'[a] = "none" /\ target'[a] = Own(a)
         /\ \A a \in Actor : a \notin A =>
              /\ op'[a] = op[a] /\ target'[a] = target[a] /\ say'[a] = say[a]
              /\ existing'[a] = existing[a]
<1>1. op' \in [Actor -> Tools \cup {"none", "connect", "boot", "boot_error", "poll"}]
  BY DEF Types, Forget
<1>2. target' \in [Actor -> Repo]
  BY Threads DEF Types, Forget
<1>3. say' \in [Actor -> Status]
  BY DEF Types, Forget, Status
<1>4. saw' \in [Actor -> BOOLEAN]
  BY DEF Types, Forget
<1>5. /\ \A a \in Actor : a \in A => op'[a] = "none" /\ target'[a] = Own(a)
      /\ \A a \in Actor : a \notin A =>
           /\ op'[a] = op[a] /\ target'[a] = target[a] /\ say'[a] = say[a]
           /\ existing'[a] = existing[a]
  BY DEF Forget
<1>6. existing' \in [Actor -> Row \cup {NoRow}]
  BY DEF Types, Forget
<1> QED BY <1>1, <1>2, <1>3, <1>4, <1>5, <1>6

LEMMA Destinations ==
  ASSUME NEW o \in Tools \cup {"none", "connect", "boot", "boot_error", "poll"}
  PROVE  /\ Returns(o) \in {"counting", "failed", "idle"}
         /\ Raises(o) \in {"counting", "down", "broken", "failed", "idle"}
  BY DEF Returns, Raises, Tools

-----------------------------------------------------------------------------
(* The types *)

LEMMA TypesInit == Init => LeaseInv
<1> SUFFICES ASSUME Init PROVE LeaseInv
  OBVIOUS
<1>1. Types
  BY Threads DEF Init, Starts, Types, NoRow, Tools, Status, Inside, Vectors
<1>2. LeasesAreHeld /\ TargetsAreOwn
  BY Threads DEF Init, Starts, LeasesAreHeld, TargetsAreOwn, Inside
<1> QED BY <1>1, <1>2 DEF LeaseInv

LEMMA InsideStepTypes ==
  ASSUME LeaseInv, NEW a \in Actor, InsideStep(a)
  PROVE  Types'
<1>1. /\ at[a] \in Inside /\ at' = [at EXCEPT ![a] = at'[a]] /\ at'[a] \in Inside
      /\ UNCHANGED <<lease, op, target>> /\ Own(a) \in Repo /\ target[a] \in Repo
      /\ a[1] \in Runtime
  BY InsideStays, Threads DEF LeaseInv, Types, Actor
<1>2. /\ at' \in [Actor -> Inside \cup {"down", "counting", "counted", "broken", "failed",
                                       "idle", "checked"}]
      /\ \A b \in Actor : at'[b] \in Inside <=> at[b] \in Inside
  BY <1>1 DEF LeaseInv, Types
<1> USE <1>1, <1>2 DEF LeaseInv, Types, registry, local
<1>3. CASE Read(a)
  <2>1. \A status \in Verdicts(a) : status \in Status
    <3>1. row[target[a]] = NoRow \/ row[target[a]].status \in Status
      BY DEF Row
    <3> QED BY <3>1 DEF Verdicts, Promoted, Reconfigured, Status
  <2>2. \A flag \in Flags(a) : flag \in BOOLEAN
    <3>1. (target[a] \in active) \in BOOLEAN
      OBVIOUS
    <3> QED BY Zenon, <3>1 DEF Flags
  <2>3. /\ say' \in [Actor -> Status] /\ saw' \in [Actor -> BOOLEAN]
        /\ existing' \in [Actor -> Row \cup {NoRow}]
    BY <1>3, <2>1, <2>2 DEF Read
  <2> QED BY <1>3, <2>3 DEF Read
<1>4. CASE Write(a)
  <2>1. Points(a) \in BOOLEAN
    <3>1. existing[a].points \in BOOLEAN
      <4>1. existing[a] \in Row \/ existing[a] = NoRow
        OBVIOUS
      <4>2. \A x \in Row : x.points \in BOOLEAN
        BY DEF Row
      <4>3. NoRow.points = FALSE
        BY DEF NoRow
      <4> QED BY Zenon, <4>1, <4>2, <4>3
    <3>2. HasPoints(store[target[a]]) \in BOOLEAN
      BY DEF HasPoints
    <3> QED BY Zenon, <3>1, <3>2 DEF Points
  <2>2. row' \in [Repo -> Row \cup {NoRow}]
    BY <1>4, <2>1 DEF Write, Row
  <2>3. active' = {} \/ \E r \in Repo : active' = {r}
    BY <1>4 DEF Write
  <2>4. orphaned' \subseteq Repo /\ echoed' \subseteq Repo /\ unnoted' \subseteq Repo
    BY <1>4 DEF Write
  <2>5. /\ say' \in [Actor -> Status] /\ saw' \in [Actor -> BOOLEAN]
        /\ existing' \in [Actor -> Row \cup {NoRow}]
        /\ UNCHANGED <<store, watching>>
    BY <1>4 DEF Write, Status
  <2> QED BY <2>2, <2>3, <2>4, <2>5
<1>5. CASE SuccessNotWritten(a)
  BY <1>5 DEF SuccessNotWritten, Status
<1>6. CASE DropIndex(a)
  BY <1>6 DEF DropIndex, Vectors
<1>7. CASE FillIndex(a)
  BY <1>7 DEF FillIndex, Vectors
<1>8. CASE FinishWork(a)
  <2>1. /\ store' \in [Repo -> Vectors]
        /\ say' \in [Actor -> Status]
    BY <1>8 DEF FinishWork, Results, RuntimeState, Status, Vectors
  <2>2. unnoted' \subseteq Repo
    BY <1>8 DEF FinishWork, NotesNothing
  <2> QED BY <1>8, <2>1, <2>2 DEF FinishWork
<1>9. CASE FailWork(a)
  <2>1. say' \in [Actor -> Status]
    BY <1>9 DEF FailWork, Status
  <2>2. store' \in [Repo -> Vectors]
    BY <1>9 DEF FailWork, LeftBy, Vectors
  <2>3. unnoted' \subseteq Repo
    BY <1>9 DEF FailWork, NotesNothing
  <2> QED BY <1>9, <2>1, <2>2, <2>3 DEF FailWork
<1> QED BY <1>3, <1>4, <1>5, <1>6, <1>7, <1>8, <1>9 DEF InsideStep

LEMMA LeaseStepTypes == LeaseInv /\ [Next]_vars => Types'
<1> SUFFICES ASSUME LeaseInv, [Next]_vars PROVE Types'
  OBVIOUS
<1> USE DEF LeaseInv, Types
<1>1. ASSUME NEW a \in Actor, InsideStep(a) PROVE Types'
  BY <1>1, InsideStepTypes
<1>2. ASSUME NEW a \in Actor, NEW where, where \notin Inside,
             where \in {"down", "counting", "counted", "broken", "failed", "idle", "checked"},
             Go(a, where), Forget({a})
      PROVE  /\ at' \in [Actor -> Inside \cup {"down", "counting", "counted", "broken", "failed",
                                              "idle", "checked"}]
             /\ \A b \in Actor : op'[b] = "none" <=> at'[b] \notin Inside
  <2>1. op'[a] = "none" /\ \A b \in Actor : b # a => op'[b] = op[b]
    BY <1>2, ForgetKeepsTypes
  <2> QED BY <1>2, <2>1 DEF Go
<1>3. \A a \in Actor :
        /\ Released(a) \in [Repo \cup {Registry} -> Actor \cup {None, Dead}]
        /\ a[1] \in Runtime
  BY DEF Released, Actor
<1>4. ASSUME NEW a \in Actor, WriteFails(a) PROVE Types'
  <2>1. Raises(op[a]) \in {"counting", "down", "broken", "failed", "idle"}
    BY Destinations
  <2>2. /\ watching' \subseteq Runtime /\ orphaned' \subseteq Repo
    BY <1>4 DEF WriteFails
  <2> QED BY <1>2, <1>3, <1>4, <2>1, <2>2, ForgetKeepsTypes DEF WriteFails, Inside
<1>5. ASSUME NEW a \in Actor, Leave(a) PROVE Types'
  <2>1. Returns(op[a]) \in {"counting", "failed", "idle"}
    BY Destinations
  <2> QED BY <1>2, <1>3, <1>5, <2>1, ForgetKeepsTypes DEF Leave, Inside, registry
<1>6. ASSUME NEW a \in Actor, NEW o \in Tools \cup {"connect", "boot", "boot_error", "poll"},
             NEW r \in Repo, o \in Asks(a), Refuse(a, o, r)
      PROVE  Types'
  <2>1. Raises(o) \in {"counting", "down", "broken", "failed", "idle"}
    BY Destinations
  <2> QED BY <1>2, <1>6, <2>1, ForgetKeepsTypes DEF Refuse, Inside, registry
<1>7. ASSUME NEW a \in Actor, NEW o \in Tools \cup {"connect", "boot", "boot_error", "poll"},
             NEW r \in Repo, o \in Asks(a), Enter(a, o, r)
      PROVE  Types'
  <2>1. o # "none"
    BY DEF Tools
  <2>2. /\ lease' \in [Repo \cup {Registry} -> Actor \cup {None, Dead}]
        /\ op' \in [Actor -> Tools \cup {"none", "connect", "boot", "boot_error", "poll"}]
        /\ target' \in [Actor -> Repo]
        /\ watching' \subseteq Runtime
    BY <1>7 DEF Enter
  <2>3. say' \in [Actor -> Status]
    BY <1>7 DEF Enter, Status
  <2>4. /\ at' \in [Actor -> Inside \cup {"down", "counting", "counted", "broken", "failed",
                                         "idle", "checked"}]
        /\ \A b \in Actor : op'[b] = "none" <=> at'[b] \notin Inside
    BY <1>7, <2>1 DEF Enter, Go, Inside
  <2> QED BY <1>7, <2>2, <2>3, <2>4 DEF Enter, registry
<1>8. ASSUME NEW k \in Repo \cup {Registry}, Expire(k) PROVE Types'
  BY <1>8 DEF Expire, registry, local
<1>9. ASSUME NEW rt \in Runtime, Count(rt) \/ DependenciesFail(rt) \/ Check(rt) PROVE Types'
  <2>1. /\ UNCHANGED <<registry, store, lease, op, target, say, existing, watching>>
        /\ saw' \in [Actor -> BOOLEAN]
    BY <1>9, Threads DEF Count, DependenciesFail, Check, local, HasPoints
  <2>2. /\ at' \in [Actor -> Inside \cup {"down", "counting", "counted", "broken", "failed",
                                         "idle", "checked"}]
        /\ \A b \in Actor : at'[b] \in Inside <=> at[b] \in Inside
    BY <1>9, Threads DEF Count, DependenciesFail, Check, Go, Inside
  <2> QED BY <2>1, <2>2 DEF registry
<1>10. ASSUME NEW rt \in Runtime, Crash(rt) PROVE Types'
  <2> DEFINE threads == {Main(rt), Watch(rt)}
  <2>1. Forget(threads) /\ UNCHANGED <<row, active, echoed>>
    BY <1>10 DEF Crash
  <2>2. /\ lease' \in [Repo \cup {Registry} -> Actor \cup {None, Dead}]
        /\ watching' \subseteq Runtime /\ orphaned' \subseteq Repo
        /\ unnoted' \subseteq Repo
    BY <1>10, LifecycleAssumption DEF Crash, NotesNothing
  <2>3. store' \in [Repo -> Vectors]
    BY <1>10, LifecycleAssumption DEF Crash, LeftBy, Vectors
  <2>4. at' \in [Actor -> Inside \cup {"down", "counting", "counted", "broken", "failed",
                                       "idle", "checked"}]
    BY <1>10 DEF Crash
  <2>5. \A b \in Actor : op'[b] = "none" <=> at'[b] \notin Inside
    <3>1. \A b \in Actor : b \in threads => op'[b] = "none" /\ at'[b] \notin Inside
      BY <1>10, <2>1, ForgetKeepsTypes, Threads DEF Crash, Inside
    <3>2. \A b \in Actor : b \notin threads => op'[b] = op[b] /\ at'[b] = at[b]
      BY <1>10, <2>1, ForgetKeepsTypes, Threads DEF Crash
    <3> QED BY <3>1, <3>2
  <2> QED BY <2>1, <2>2, <2>3, <2>4, <2>5, ForgetKeepsTypes
<1>11. CASE UNCHANGED vars
  BY <1>11 DEF vars, registry, local
<1> QED
  BY <1>1, <1>4, <1>5, <1>6, <1>7, <1>8, <1>9, <1>10, <1>11, StepCases

-----------------------------------------------------------------------------
(* The leases *)

\* A call ends: it gives its leases back, or had none.
LEMMA CallEnds ==
  ASSUME LeaseInv, NEW a \in Actor, NEW where, where \notin Inside, Go(a, where), Forget({a}),
         lease' = Released(a) \/ (UNCHANGED lease /\ at[a] \notin Inside)
  PROVE  LeasesAreHeld' /\ TargetsAreOwn'
<1> USE DEF LeaseInv, Types
<1>1. /\ op'[a] = "none" /\ target'[a] = Own(a) /\ at'[a] = where
      /\ \A b \in Actor \ {a} : op'[b] = op[b] /\ target'[b] = target[b] /\ at'[b] = at[b]
  BY ForgetKeepsTypes DEF Go
<1>2. \A k \in Repo \cup {Registry} :
        /\ lease'[k] # a
        /\ \A b \in Actor \ {a} : lease'[k] = b <=> lease[k] = b
  BY Threads DEF Released, LeasesAreHeld
<1>3. ASSUME NEW b \in Actor, at'[b] \in Inside, NEW k \in Needs(b, op'[b], target'[b])
      PROVE  lease'[k] = b
  BY <1>1, <1>2, <1>3, NeedsKeys DEF LeasesAreHeld
<1>4. ASSUME NEW k \in Repo \cup {Registry}, lease'[k] \in Actor PROVE at'[lease'[k]] \in Inside
  BY <1>1, <1>2, <1>4 DEF LeasesAreHeld
<1>5. TargetsAreOwn'
  BY <1>1 DEF TargetsAreOwn, Own
<1>6. LeasesAreHeld'
  <2>1. ASSUME NEW b \in Actor, at'[b] \in Inside
        PROVE  \A k \in Needs(b, op'[b], target'[b]) : lease'[k] = b
    BY <1>3, <2>1
  <2> QED BY <1>4, <2>1 DEF LeasesAreHeld, Needs, Own
<1> QED BY <1>5, <1>6

\* A call begins: nobody else is at its keys.
LEMMA CallBegins ==
  ASSUME LeaseInv, NEW a \in Actor,
         NEW o \in Tools \cup {"connect", "boot", "boot_error", "poll"}, NEW r \in Repo,
         o \in Asks(a), r = Own(a) \/ o = "register", Enter(a, o, r)
  PROVE  LeasesAreHeld' /\ TargetsAreOwn'
<1> USE DEF LeaseInv, Types
<1>1. /\ op'[a] = o /\ target'[a] = r /\ at'[a] \in Inside
      /\ \A b \in Actor \ {a} : op'[b] = op[b] /\ target'[b] = target[b] /\ at'[b] = at[b]
  BY DEF Enter, Go, Inside
<1>2. \A k \in Repo \cup {Registry} :
        /\ k \in Needs(a, o, r) => lease'[k] = a /\ lease[k] = None
        /\ k \notin Needs(a, o, r) => lease'[k] = lease[k]
  BY DEF Enter
<1>3. ASSUME NEW b \in Actor, at'[b] \in Inside, NEW k \in Needs(b, op'[b], target'[b])
      PROVE  lease'[k] = b
  <2>1. CASE b = a
    BY <1>1, <1>2, <1>3, <2>1, NeedsKeys
  <2>2. CASE b # a
    BY <1>1, <1>2, <1>3, <2>2, NeedsKeys, Threads DEF LeasesAreHeld
  <2> QED BY <2>1, <2>2
<1>4. ASSUME NEW k \in Repo \cup {Registry}, lease'[k] \in Actor PROVE at'[lease'[k]] \in Inside
  BY <1>1, <1>2, <1>4 DEF LeasesAreHeld
<1>5. TargetsAreOwn'
  BY <1>1 DEF TargetsAreOwn, Own
<1>6. LeasesAreHeld'
  <2>1. ASSUME NEW b \in Actor, at'[b] \in Inside
        PROVE  \A k \in Needs(b, op'[b], target'[b]) : lease'[k] = b
    BY <1>3, <2>1
  <2> QED BY <1>4, <2>1 DEF LeasesAreHeld, Needs, Own
<1> QED BY <1>5, <1>6

LEMMA LeaseStep == LeaseInv /\ [Next]_vars => LeaseInv'
<1> SUFFICES ASSUME LeaseInv, [Next]_vars PROVE LeasesAreHeld' /\ TargetsAreOwn'
  BY LeaseStepTypes DEF LeaseInv
<1> USE DEF LeaseInv, Types
<1>1. ASSUME NEW a \in Actor, InsideStep(a) PROVE LeasesAreHeld' /\ TargetsAreOwn'
  <2>1. /\ at[a] \in Inside /\ at' = [at EXCEPT ![a] = at'[a]] /\ at'[a] \in Inside
        /\ UNCHANGED <<lease, op, target>>
    BY <1>1, InsideStays
  <2>2. \A b \in Actor : at'[b] \in Inside <=> at[b] \in Inside
    BY <2>1
  <2> QED BY <2>1, <2>2 DEF LeasesAreHeld, TargetsAreOwn, Needs, Own
<1>2. ASSUME NEW a \in Actor, WriteFails(a) PROVE LeasesAreHeld' /\ TargetsAreOwn'
  BY <1>2, CallEnds, Destinations DEF WriteFails, Inside
<1>3. ASSUME NEW a \in Actor, Leave(a) PROVE LeasesAreHeld' /\ TargetsAreOwn'
  BY <1>3, CallEnds, Destinations DEF Leave, Inside
<1>4. ASSUME NEW a \in Actor, NEW o \in Tools \cup {"connect", "boot", "boot_error", "poll"},
             NEW r \in Repo, o \in Asks(a), Refuse(a, o, r)
      PROVE  LeasesAreHeld' /\ TargetsAreOwn'
  <2>1. at[a] \notin Inside
    BY <1>4, AsksOutside
  <2> QED BY <1>4, <2>1, CallEnds, Destinations DEF Refuse, Inside
<1>5. ASSUME NEW k \in Repo \cup {Registry}, Expire(k) PROVE LeasesAreHeld' /\ TargetsAreOwn'
  <2>1. /\ UNCHANGED <<op, target, at>>
        /\ \A j \in Repo \cup {Registry} : \A b \in Actor : lease'[j] = b <=> lease[j] = b
    BY <1>5, Threads DEF Expire, local
  <2>2. ASSUME NEW b \in Actor, at[b] \in Inside, NEW j \in Needs(b, op[b], target[b])
        PROVE  lease'[j] = b
    BY <2>1, <2>2, NeedsKeys DEF LeasesAreHeld
  <2>3. \A j \in Repo \cup {Registry} : lease'[j] \in Actor => at[lease'[j]] \in Inside
    BY <2>1 DEF LeasesAreHeld
  <2> QED BY <2>1, <2>2, <2>3 DEF LeasesAreHeld, TargetsAreOwn, Needs, Own
<1>6. ASSUME NEW rt \in Runtime, Count(rt) \/ DependenciesFail(rt) \/ Check(rt)
      PROVE  LeasesAreHeld' /\ TargetsAreOwn'
  <2>1. /\ UNCHANGED <<lease, op, target>>
        /\ \A b \in Actor : at'[b] \in Inside <=> at[b] \in Inside
    BY <1>6, Threads DEF Count, DependenciesFail, Check, Go, Inside, local
  <2> QED BY <2>1 DEF LeasesAreHeld, TargetsAreOwn, Needs, Own
<1>7. ASSUME NEW rt \in Runtime, Crash(rt) PROVE LeasesAreHeld' /\ TargetsAreOwn'
  <2> DEFINE threads == {Main(rt), Watch(rt)}
  <2>1. /\ \A b \in Actor : b \in threads =>
               op'[b] = "none" /\ target'[b] = Own(b) /\ at'[b] \notin Inside
        /\ \A b \in Actor : b \notin threads =>
               op'[b] = op[b] /\ target'[b] = target[b] /\ at'[b] = at[b]
    BY <1>7, ForgetKeepsTypes, Threads DEF Crash, Inside
  <2>2. \A j \in Repo \cup {Registry} :
          lease'[j] = IF lease[j] \in threads THEN Dead ELSE lease[j]
    BY <1>7 DEF Crash
  <2>3. ASSUME NEW b \in Actor, at'[b] \in Inside, NEW j \in Needs(b, op'[b], target'[b])
        PROVE  lease'[j] = b
    BY <2>1, <2>2, <2>3, NeedsKeys DEF LeasesAreHeld
  <2>4. ASSUME NEW j \in Repo \cup {Registry}, lease'[j] \in Actor PROVE at'[lease'[j]] \in Inside
    BY <2>1, <2>2, <2>4, Threads DEF LeasesAreHeld
  <2>5. TargetsAreOwn'
    BY <2>1 DEF TargetsAreOwn, Own
  <2>6. ASSUME NEW b \in Actor, at'[b] \in Inside
        PROVE  \A j \in Needs(b, op'[b], target'[b]) : lease'[j] = b
    BY <2>3, <2>6
  <2> QED BY <2>4, <2>5, <2>6 DEF LeasesAreHeld, Needs, Own
<1>8. CASE UNCHANGED vars
  BY <1>8 DEF vars, local, LeasesAreHeld, TargetsAreOwn, Needs, Own
<1> QED
  BY <1>1, <1>2, <1>3, <1>4, <1>5, <1>6, <1>7, <1>8, CallBegins, StepCases

\* Every variable keeps its type, at most one repository is active, and a lease that
\* has an owner has one inside a call.
THEOREM TypeCorrect == Spec => []TypeOK
<1>1. LeaseInv => TypeOK
  <2> SUFFICES ASSUME LeaseInv PROVE TypeOK
    OBVIOUS
  <2>1. active \subseteq Repo /\ Cardinality(active) <= 1
    <3>1. CASE active = {}
      <4>1. Cardinality({}) = 0
        BY FS_EmptySet
      <4> QED BY <3>1, <4>1
    <3>2. ASSUME NEW r \in Repo, active = {r} PROVE active \subseteq Repo /\ Cardinality(active) <= 1
      <4>1. Cardinality({r}) = 1
        BY FS_Singleton
      <4> QED BY <3>2, <4>1
    <3> QED BY <3>1, <3>2 DEF LeaseInv, Types
  <2>2. \A k \in DOMAIN lease : lease[k] \in Actor => at[lease[k]] \in Inside
    BY DEF LeaseInv, Types, LeasesAreHeld
  <2> QED BY <2>1, <2>2 DEF LeaseInv, Types, TypeOK
<1> QED
  BY <1>1, TypesInit, LeaseStep, PTL DEF Spec

-----------------------------------------------------------------------------
(* The inductive invariant of the statuses *)

Indexing == {"build", "reindex"}

\* An index operation that has announced itself and has not taken that back.
Announced(a) ==
  /\ op[a] \in Indexing
  /\ at[a] \in {"working", "filling"} \/ (at[a] \in {"reading", "writing"} /\ say[a] # "indexing")

\* Only the vectors of an index that is being worked at may have gone since they
\* were counted, or what a poll or reconcile has left.
CountsAreTrue ==
  \A r \in Repo \ (echoed \cup unnoted) :
    row[r].points /\ row[r].status # "indexing" => HasPoints(store[r])

OwnersAnnounced ==
  \A r \in Repo \ (orphaned \cup echoed) :
    row[r].status = "indexing" => \E a \in Actor : Own(a) = r /\ Announced(a)

\* Other calls with the lease write indexing only where they found it without an owner.
RepeatsAreOrphaned ==
  \A a \in Actor : op[a] \notin Indexing =>
    /\ at[a] = "writing" /\ say[a] = "indexing" /\ target[a] = Own(a) =>
         target[a] \in echoed \/ (target[a] \in orphaned /\ row[target[a]].status = "indexing")
    /\ at[a] \in {"reading", "working", "filling"} => say[a] # "indexing"

\* Calls without it write indexing if and only if they have read it.
StrangersRepeat ==
  \A a \in Actor : at[a] = "writing" /\ target[a] # Own(a) =>
    (say[a] = "indexing" <=> existing[a].status = "indexing")

OperationsWork ==
  /\ \A a \in Actor : a[2] = "watch" => op[a] \in {"none", "poll"} /\ at[a] \in Inside \cup {"idle"}
  /\ \A a \in Actor : at[a] \in {"working", "filling"} => op[a] \in Indexing \cup {"start", "poll"}

StatusInv ==
  /\ WorkIsAnnounced /\ CountsAreTrue /\ OwnersAnnounced
  /\ RepeatsAreOrphaned /\ StrangersRepeat /\ OperationsWork

\* The lease of a repository keeps everybody of its processes out of a call.
LEMMA OneInside ==
  ASSUME LeaseInv, NEW a \in Actor, at[a] \in Inside, target[a] = Own(a),
         NEW b \in Actor, at[b] \in Inside, target[b] = Own(b), Own(a) = Own(b)
  PROVE  a = b
<1>1. Own(a) \in Needs(a, op[a], target[a]) /\ Own(a) \in Needs(b, op[b], target[b])
  BY DEF Needs
<1> QED BY <1>1 DEF LeaseInv, LeasesAreHeld

LEMMA StatusInit == Init => StatusInv
  BY Threads DEF Init, Starts, StatusInv, WorkIsAnnounced, CountsAreTrue, OwnersAnnounced,
     RepeatsAreOrphaned, StrangersRepeat, OperationsWork, NoRow, Indexing

\* A row is written.
LEMMA WriteStatus ==
  ASSUME LeaseInv, StatusInv, NEW a \in Actor, Write(a)
  PROVE  StatusInv'
<1> DEFINE t == target[a]
           announces == say[a] = "indexing" /\ op[a] \in Indexing
           repeats == say[a] = "indexing" /\ ~announces
<1> USE DEF LeaseInv, Types, StatusInv
<1>1. /\ at[a] = "writing" /\ t \in Repo
      /\ at' = [at EXCEPT ![a] = IF announces THEN "working" ELSE "leaving"]
      /\ say'[a] = "registered"
      /\ \A b \in Actor \ {a} : say'[b] = say[b] /\ existing'[b] = existing[b]
      /\ UNCHANGED <<store, op, target>>
  BY DEF Write, Go, Indexing
<1>2. OperationsWork' /\ StrangersRepeat'
  BY <1>1 DEF OperationsWork, StrangersRepeat, Own, Inside
<1>3. ASSUME NEW b \in Actor, op[b] \notin Indexing, at'[b] \in {"reading", "working", "filling"}
      PROVE  say'[b] # "indexing"
  BY <1>1, <1>3 DEF RepeatsAreOrphaned
<1>4. CASE op[a] = "connect" /\ row[t] # NoRow
  <2>1. UNCHANGED <<row, orphaned, echoed, unnoted>> /\ ~announces
    BY <1>4 DEF Write, Indexing
  <2>2. RepeatsAreOrphaned'
    BY <1>1, <1>3, <2>1 DEF RepeatsAreOrphaned, Own
  <2> QED BY <1>1, <1>2, <1>4, <2>1, <2>2
          DEF WorkIsAnnounced, CountsAreTrue, OwnersAnnounced, Own, Announced, Indexing, Inside
<1>5. CASE ~(op[a] = "connect" /\ row[t] # NoRow)
  <2>1. /\ row' = [row EXCEPT ![t] = [status |-> say[a], points |-> Points(a)]]
        /\ orphaned' = IF repeats THEN orphaned ELSE orphaned \ {t}
        /\ echoed' = IF Echoes(a) THEN echoed \cup {t}
                     ELSE IF repeats \/ t # Own(a) THEN echoed ELSE echoed \ {t}
        /\ unnoted' = IF t = Own(a) THEN unnoted \ {t} ELSE unnoted
    BY <1>5 DEF Write, Indexing
  <2>2. row'[t].status = say[a] /\ row'[t].points = Points(a) /\ \A r \in Repo \ {t} : row'[r] = row[r]
    BY <1>1, <2>1
  <2>3. /\ \A r \in Repo : r # t => /\ (r \in orphaned') = (r \in orphaned)
                                    /\ (r \in echoed') = (r \in echoed)
                                    /\ (r \in unnoted') = (r \in unnoted)
        /\ orphaned' \subseteq orphaned
    <3>1. /\ orphaned' = orphaned \/ orphaned' = orphaned \ {t}
          /\ echoed' = echoed \/ echoed' = echoed \cup {t} \/ echoed' = echoed \ {t}
          /\ unnoted' = unnoted \/ unnoted' = unnoted \ {t}
      BY <2>1
    <3>2. \A r \in Repo : r # t => (r \in orphaned') = (r \in orphaned)
      BY <3>1
    <3>3. \A r \in Repo : r # t => (r \in echoed') = (r \in echoed)
      BY <3>1
    <3>4. \A r \in Repo : r # t => (r \in unnoted') = (r \in unnoted)
      BY <3>1
    <3> QED BY <3>1, <3>2, <3>3, <3>4
  \* A stranger that does not change the row, and one that does.
  <2>4. ASSUME t # Own(a), t \notin echoed'
        PROVE  /\ t \notin echoed /\ row[t] = existing[a]
               /\ row'[t].points = row[t].points
               /\ row'[t].status = "indexing" <=> row[t].status = "indexing"
               /\ op[a] \notin Indexing
    <3>1. ~Echoes(a) /\ t \notin echoed /\ op[a] \notin Indexing
      BY <2>1, <2>4 DEF TargetsAreOwn, Indexing
    <3> QED BY <1>1, <2>2, <2>4, <3>1 DEF Echoes, Points, StrangersRepeat
  <2>5. WorkIsAnnounced'
    <3>1. ASSUME NEW b \in Actor, at'[b] \in {"working", "filling"}, op'[b] \in Indexing,
                 Own(b) \notin echoed'
          PROVE  row'[Own(b)].status = "indexing"
      <4>1. CASE b = a
        BY <1>1, <2>2, <3>1, <4>1 DEF TargetsAreOwn, Indexing
      <4>2. CASE b # a /\ Own(b) # t
        BY <1>1, <2>2, <2>3, <3>1, <4>2, Threads DEF WorkIsAnnounced, Indexing
      <4>3. CASE b # a /\ Own(b) = t
        <5>1. at[b] \in {"working", "filling"} /\ op[b] \in Indexing /\ target[b] = Own(b)
          BY <1>1, <3>1, <4>3 DEF TargetsAreOwn, Indexing
        <5>2. t # Own(a)
          BY <1>1, <4>3, <5>1, OneInside DEF Inside
        <5> QED BY <2>4, <3>1, <4>3, <5>1, <5>2 DEF WorkIsAnnounced, Indexing
      <4> QED BY <4>1, <4>2, <4>3
    <3> QED BY <3>1 DEF WorkIsAnnounced, Own, Indexing
  <2>6. CountsAreTrue'
    <3>1. ASSUME t \notin echoed', t \notin unnoted', row'[t].points, row'[t].status # "indexing"
          PROVE  HasPoints(store[t])
      <4>1. CASE t = Own(a)
        BY <2>2, <3>1, <4>1 DEF Points
      <4>2. CASE t # Own(a)
        BY <1>1, <2>1, <2>4, <3>1, <4>2 DEF CountsAreTrue
      <4> QED BY <4>1, <4>2
    <3> QED BY <1>1, <2>2, <2>3, <3>1 DEF CountsAreTrue, HasPoints
  <2>7. OwnersAnnounced'
    <3>1. \A b \in Actor : b # a /\ Announced(b) => Announced(b)'
      BY <1>1 DEF Announced
    <3>2. ASSUME NEW r \in Repo, r \notin orphaned', r \notin echoed', row'[r].status = "indexing", r # t
          PROVE  \E b \in Actor : Own(b) = r /\ Announced(b)'
      <4>1. PICK b \in Actor : Own(b) = r /\ Announced(b)
        BY <2>2, <2>3, <3>2 DEF OwnersAnnounced
      <4>2. b # a
        BY <3>2, <4>1 DEF Announced, TargetsAreOwn, Indexing
      <4> QED BY <3>1, <4>1, <4>2
    <3>3. ASSUME t \notin orphaned', t \notin echoed', row'[t].status = "indexing"
          PROVE  \E b \in Actor : Own(b) = t /\ Announced(b)'
      <4>1. CASE announces
        BY <1>1, <4>1 DEF Announced, TargetsAreOwn, Indexing
      <4>2. CASE ~announces /\ t = Own(a)
        BY <1>1, <2>1, <2>2, <3>3, <4>2 DEF RepeatsAreOrphaned, Echoes
      <4>3. CASE t # Own(a)
        <5>1. t \notin orphaned
          BY <2>1, <2>2, <2>4, <3>3, <4>3
        <5>2. PICK b \in Actor : Own(b) = t /\ Announced(b)
          BY <1>1, <2>4, <3>3, <4>3, <5>1 DEF OwnersAnnounced
        <5> QED BY <3>1, <4>3, <5>2
      <4> QED BY <4>1, <4>2, <4>3
    <3> QED BY <3>2, <3>3 DEF OwnersAnnounced, Own
  <2>9. RepeatsAreOrphaned'
    <3>1. ASSUME NEW b \in Actor, op[b] \notin Indexing, at'[b] = "writing", say'[b] = "indexing",
                 target[b] = Own(b), target[b] \notin echoed'
          PROVE  target[b] \in orphaned' /\ row'[target[b]].status = "indexing"
      <4>1. /\ b # a /\ at[b] = "writing" /\ say[b] = "indexing"
            /\ target[b] \in echoed \/ (target[b] \in orphaned /\ row[target[b]].status = "indexing")
        BY <1>1, <3>1 DEF RepeatsAreOrphaned
      <4>2. CASE target[b] # t
        BY <2>2, <2>3, <3>1, <4>1, <4>2
      <4>3. CASE target[b] = t
        <5>1. t # Own(a)
          <6>1. at[b] \in Inside /\ at[a] \in Inside
            BY <1>1, <4>1 DEF Inside
          <6>2. ASSUME t = Own(a) PROVE a = b
            <7>1. target[a] = Own(a) /\ Own(a) = Own(b)
              BY <3>1, <4>3, <6>2
            <7> QED BY <3>1, <6>1, <7>1, OneInside
          <6> QED BY <4>1, <6>2
        <5>2. row[t].status = "indexing" /\ t \in orphaned
          BY <2>4, <3>1, <4>1, <4>3, <5>1
        <5> QED BY <2>1, <2>2, <2>4, <3>1, <4>3, <5>1, <5>2
      <4> QED BY <4>2, <4>3
    <3> QED BY <1>1, <1>3, <3>1 DEF RepeatsAreOrphaned, Own
  <2> QED BY <1>2, <2>5, <2>6, <2>7, <2>9
<1> QED BY <1>4, <1>5

\* What a poll, a reconcile or a reindex leaves without points is known.
LEMMA PointsGone ==
  ASSUME LeaseInv, StatusInv, NEW r \in Repo, NEW vectors,
         store' = [store EXCEPT ![r] = vectors],
         NEW b \in Actor, Own(b) = r, at[b] \in {"working", "filling"},
         UNCHANGED <<row, echoed>>,
         \/ op[b] \in Indexing /\ unnoted' = unnoted
         \/ NotesNothing(r, op[b], vectors)
  PROVE  CountsAreTrue'
<1>1. unnoted \subseteq unnoted'
  BY DEF NotesNothing
<1>2. op[b] \in Indexing => row[r].status = "indexing" \/ r \in echoed
  BY DEF StatusInv, WorkIsAnnounced, Indexing
<1>3. op[b] \notin Indexing => HasPoints(vectors) \/ r \in unnoted'
  BY DEF NotesNothing, StatusInv, OperationsWork
<1> QED BY <1>1, <1>2, <1>3 DEF StatusInv, CountsAreTrue, LeaseInv, Types

\* Any other step inside a call: the rows stay.
LEMMA InsideStatus ==
  ASSUME LeaseInv, StatusInv, NEW a \in Actor, InsideStep(a)
  PROVE  StatusInv'
<1> USE DEF LeaseInv, Types, StatusInv
<1>1. CASE Write(a)
  BY <1>1, WriteStatus
<1>2. CASE ~Write(a)
  <2>1. /\ at[a] \in Inside /\ at' = [at EXCEPT ![a] = at'[a]] /\ at'[a] \in Inside
        /\ UNCHANGED <<op, target>>
    BY <1>2, InsideStays
  <2>2. /\ UNCHANGED <<row, active, orphaned, echoed>>
        /\ \A b \in Actor \ {a} : say'[b] = say[b] /\ existing'[b] = existing[b]
    BY <1>2 DEF InsideStep, Read, SuccessNotWritten, DropIndex, FillIndex, FinishWork, FailWork,
                registry, local
  <2>3. /\ at'[a] \in {"working", "filling"} => at[a] \in {"working", "filling"} /\ say'[a] = say[a]
        /\ at'[a] = "writing" => Read(a)
        /\ at'[a] = "reading" => say'[a] # "indexing"
    BY <1>2 DEF InsideStep, Read, SuccessNotWritten, DropIndex, FillIndex, FinishWork, FailWork, Go, local,
                RuntimeState
  <2>4. WorkIsAnnounced'
    <3>1. \A b \in Actor : at'[b] \in {"working", "filling"} => at[b] \in {"working", "filling"}
      BY <2>1, <2>3
    <3> QED BY <2>1, <2>2, <3>1 DEF WorkIsAnnounced, Own
  <2>5. CountsAreTrue'
    <3>1. Own(a) \in Repo
      BY Threads
    <3>2. CASE DropIndex(a)
      <4>1. PICK vectors : store' = [store EXCEPT ![Own(a)] = vectors]
        BY <3>2 DEF DropIndex
      <4> QED BY <2>2, <3>1, <3>2, <4>1, PointsGone DEF DropIndex, registry, Indexing
    <3>3. CASE FinishWork(a)
      <4>1. PICK vectors : /\ store' = [store EXCEPT ![Own(a)] = vectors]
                           /\ NotesNothing(Own(a), op[a], vectors)
        BY <3>3 DEF FinishWork
      <4>2. at[a] \in {"working", "filling"}
        BY <3>3 DEF FinishWork
      <4> QED BY <2>2, <3>1, <4>1, <4>2, PointsGone
    <3>4. CASE FailWork(a)
      <4>1. PICK vectors : /\ store' = [store EXCEPT ![Own(a)] = vectors]
                           /\ NotesNothing(Own(a), op[a], vectors)
        BY <3>4 DEF FailWork
      <4> QED BY <2>2, <3>1, <3>4, <4>1, PointsGone DEF FailWork
    <3>5. CASE FillIndex(a)
      <4>1. \A r \in Repo : HasPoints(store[r]) => HasPoints(store'[r])
        BY <3>1, <3>5 DEF FillIndex, HasPoints
      <4> QED BY <2>2, <3>5, <4>1 DEF CountsAreTrue, FillIndex, registry
    <3>6. CASE Read(a) \/ SuccessNotWritten(a)
      BY <2>2, <3>6 DEF Read, SuccessNotWritten, CountsAreTrue, registry
    <3> QED BY <1>2, <3>2, <3>3, <3>4, <3>5, <3>6 DEF InsideStep
  <2>6. ASSUME Announced(a) PROVE Announced(a)'
    <3>1. at'[a] # "leaving"
      BY <1>2, <2>6 DEF InsideStep, Read, SuccessNotWritten, DropIndex, FillIndex, FinishWork, FailWork,
                        Go, Announced, Indexing
    <3>2. Read(a) => say'[a] # "indexing"
      BY <2>6 DEF Read, Verdicts, Announced, Indexing
    <3> QED BY <2>1, <2>3, <2>6, <3>1, <3>2 DEF Announced, Inside
  <2>7. OwnersAnnounced'
    <3>1. \A b \in Actor : Announced(b) => Announced(b)'
      BY <2>1, <2>2, <2>6 DEF Announced
    <3> QED BY <2>2, <3>1 DEF OwnersAnnounced, Own
  <2>9. RepeatsAreOrphaned'
    <3>1. ASSUME op[a] \notin Indexing, Read(a), say'[a] = "indexing", target[a] = Own(a)
          PROVE  /\ target[a] \in orphaned \cup echoed
                 /\ row[target[a]].status = "indexing"
      <4> DEFINE t == target[a]
      <4>1. at[a] = "reading" /\ say[a] # "indexing" /\ say'[a] \in Verdicts(a)
        BY <3>1 DEF Read, RepeatsAreOrphaned
      <4>2. row[t].status = "indexing"
        BY <3>1, <4>1 DEF Verdicts, Promoted, Reconfigured
      <4>3. ASSUME t \notin orphaned \cup echoed PROVE FALSE
        <5>1. PICK b \in Actor : Own(b) = t /\ Announced(b)
          BY <4>2, <4>3 DEF OwnersAnnounced
        <5>2. at[b] \in Inside /\ target[b] = Own(b)
          BY <5>1 DEF Announced, Inside, TargetsAreOwn, Indexing
        <5> QED BY <3>1, <4>1, <5>1, <5>2, OneInside DEF Announced, Inside
      <4> QED BY <4>2, <4>3
    <3>2. ASSUME NEW b \in Actor, op[b] \notin Indexing, at'[b] = "writing", say'[b] = "indexing",
                 target[b] = Own(b)
          PROVE  target[b] \in echoed \/ (target[b] \in orphaned /\ row[target[b]].status = "indexing")
      BY <2>1, <2>2, <2>3, <3>1, <3>2 DEF RepeatsAreOrphaned
    <3>3. ASSUME NEW b \in Actor, op[b] \notin Indexing, at'[b] \in {"reading", "working", "filling"}
          PROVE  say'[b] # "indexing"
      BY <2>1, <2>2, <2>3, <3>3 DEF RepeatsAreOrphaned
    <3> QED BY <2>1, <2>2, <3>2, <3>3 DEF RepeatsAreOrphaned, Own
  <2>10. StrangersRepeat'
    <3>1. ASSUME Read(a), target[a] # Own(a)
          PROVE  say'[a] = "indexing" <=> existing'[a].status = "indexing"
      <4>1. op[a] = "register" /\ say'[a] \in Verdicts(a) /\ existing'[a] = row[target[a]]
        BY <3>1 DEF Read, TargetsAreOwn
      <4> QED BY <4>1 DEF Verdicts, Reconfigured, NoRow
    <3> QED BY <2>1, <2>2, <2>3, <3>1 DEF StrangersRepeat, Own
  <2>11. OperationsWork'
    BY <2>1, <2>3 DEF OperationsWork
  <2> QED BY <2>4, <2>5, <2>7, <2>9, <2>10, <2>11
<1> QED BY <1>1, <1>2

\* Calls end or are refused: the rows stay, and what was announced is not lost
\* without a note.
LEMMA EndStatus ==
  ASSUME LeaseInv, StatusInv, NEW a \in Actor,
         NEW where \in {"down", "counting", "broken", "failed", "idle"},
         a[2] = "watch" => where = "idle",
         Go(a, where), Forget({a}), UNCHANGED <<row, store, echoed, unnoted>>,
         orphaned' \in {orphaned, orphaned \cup {Own(a)}},
         Announced(a) => Own(a) \in orphaned'
  PROVE  StatusInv'
<1> USE DEF LeaseInv, Types, StatusInv
<1>1. /\ op'[a] = "none" /\ at'[a] = where /\ where \notin Inside
      /\ \A b \in Actor \ {a} : /\ op'[b] = op[b] /\ target'[b] = target[b] /\ at'[b] = at[b]
                               /\ say'[b] = say[b] /\ existing'[b] = existing[b]
  BY ForgetKeepsTypes DEF Go, Inside
<1>2. WorkIsAnnounced'
  BY <1>1 DEF WorkIsAnnounced, Own, Inside
<1>3. CountsAreTrue'
  BY DEF CountsAreTrue
<1>5. OwnersAnnounced'
  <2>1. ASSUME NEW r \in Repo, r \notin orphaned', r \notin echoed, row[r].status = "indexing"
        PROVE  \E b \in Actor : Own(b) = r /\ Announced(b)'
    <3>1. PICK b \in Actor : Own(b) = r /\ Announced(b)
      BY <2>1 DEF OwnersAnnounced
    <3>2. b # a
      BY <2>1, <3>1
    <3> QED BY <1>1, <3>1, <3>2 DEF Announced
  <2> QED BY <2>1 DEF OwnersAnnounced, Own
<1>6. RepeatsAreOrphaned'
  <2>1. orphaned \subseteq orphaned'
    OBVIOUS
  <2> QED BY <1>1, <2>1 DEF RepeatsAreOrphaned, Own, Inside
<1>7. StrangersRepeat' /\ OperationsWork'
  BY <1>1 DEF StrangersRepeat, OperationsWork, Own, Inside
<1> QED BY <1>2, <1>3, <1>5, <1>6, <1>7

LEMMA StatusStep == LeaseInv /\ StatusInv /\ [Next]_vars => StatusInv'
<1> SUFFICES ASSUME LeaseInv, StatusInv, [Next]_vars PROVE StatusInv'
  OBVIOUS
<1> USE DEF LeaseInv, Types, StatusInv
<1>1. ASSUME NEW a \in Actor, InsideStep(a) PROVE StatusInv'
  BY <1>1, InsideStatus
<1>2. ASSUME NEW a \in Actor, a[2] = "watch", op[a] # "none" PROVE Raises(op[a]) = "idle" /\ Returns(op[a]) = "idle"
  BY <1>2 DEF OperationsWork, Raises, Returns
<1>3. ASSUME NEW a \in Actor, WriteFails(a) PROVE StatusInv'
  <2>1. at[a] = "writing" /\ op[a] # "none"
    BY <1>3 DEF WriteFails, Inside
  <2>2. /\ orphaned' \in {orphaned, orphaned \cup {Own(a)}}
        /\ Announced(a) => Own(a) \in orphaned'
    BY <1>3, <2>1 DEF WriteFails, TargetsAreOwn, Announced, Indexing
  <2> QED BY <1>2, <1>3, <2>1, <2>2, EndStatus, Destinations DEF WriteFails
<1>4. ASSUME NEW a \in Actor, Leave(a) PROVE StatusInv'
  <2>1. op[a] # "none" /\ ~Announced(a)
    BY <1>4 DEF Leave, Inside, Announced
  <2> QED BY <1>2, <1>4, <2>1, EndStatus, Destinations DEF Leave, registry
<1>5. ASSUME NEW a \in Actor, NEW o \in Tools \cup {"connect", "boot", "boot_error", "poll"},
             NEW r \in Repo, o \in Asks(a), Refuse(a, o, r)
      PROVE  StatusInv'
  <2>1. at[a] \notin Inside
    BY <1>5, AsksOutside
  <2>2. a[2] = "watch" => o = "poll"
    BY <1>5, <2>1 DEF Asks, OperationsWork
  <2>3. a[2] = "watch" => Raises(o) = "idle"
    BY <2>2 DEF Raises, Returns
  <2> QED BY <1>5, <2>1, <2>3, EndStatus, Destinations DEF Refuse, registry, Announced, Inside
<1>6. ASSUME NEW a \in Actor, NEW o \in Tools \cup {"connect", "boot", "boot_error", "poll"},
             NEW r \in Repo, o \in Asks(a), r = Own(a) \/ o = "register", Enter(a, o, r)
      PROVE  StatusInv'
  <2>1. at[a] \notin Inside /\ op[a] = "none"
    BY <1>6, AsksOutside
  <2>2. a[2] = "watch" => o = "poll"
    BY <1>6, <2>1 DEF Asks, OperationsWork
  <2>3. /\ op'[a] = o /\ at'[a] \in {"reading", "working"}
        /\ at'[a] = "working" => o \in {"poll", "start"}
        /\ o \notin Indexing => say'[a] # "indexing"
        /\ \A b \in Actor \ {a} : op'[b] = op[b] /\ at'[b] = at[b] /\ say'[b] = say[b] /\ target'[b] = target[b]
        /\ UNCHANGED <<row, orphaned, echoed, unnoted, store, existing>>
    BY <1>6 DEF Enter, Go, registry, Indexing
  <2>4. WorkIsAnnounced' /\ CountsAreTrue'
    BY <2>3 DEF WorkIsAnnounced, CountsAreTrue, Own
  <2>5. OwnersAnnounced'
    <3>1. \A b \in Actor : Announced(b) => Announced(b)'
      BY <2>1, <2>3 DEF Announced, Indexing
    <3> QED BY <2>3, <3>1 DEF OwnersAnnounced, Own
  <2>6. RepeatsAreOrphaned' /\ StrangersRepeat'
    BY <2>3 DEF RepeatsAreOrphaned, StrangersRepeat, Own
  <2>7. OperationsWork'
    BY <2>2, <2>3 DEF OperationsWork, Inside
  <2> QED BY <2>4, <2>5, <2>6, <2>7
<1>7. ASSUME UNCHANGED <<row, orphaned, echoed, unnoted, store, op, target, say, existing>>,
             \A b \in Actor : at'[b] = at[b] \/ (at'[b] \notin Inside /\ at[b] \notin Inside /\ b[2] # "watch")
      PROVE  StatusInv'
  <2>1. WorkIsAnnounced' /\ CountsAreTrue'
    BY <1>7 DEF WorkIsAnnounced, CountsAreTrue, Own, Inside
  <2>2. OwnersAnnounced'
    <3>1. \A b \in Actor : Announced(b) => Announced(b)'
      BY <1>7 DEF Announced, Inside
    <3> QED BY <1>7, <3>1 DEF OwnersAnnounced, Own
  <2>3. RepeatsAreOrphaned' /\ StrangersRepeat' /\ OperationsWork'
    BY <1>7 DEF RepeatsAreOrphaned, StrangersRepeat, OperationsWork, Own, Inside
  <2> QED BY <2>1, <2>2, <2>3
<1>8. ASSUME NEW k \in Repo \cup {Registry}, Expire(k) PROVE StatusInv'
  BY <1>7, <1>8 DEF Expire, registry, local
<1>9. ASSUME NEW rt \in Runtime, Count(rt) \/ DependenciesFail(rt) \/ Check(rt) PROVE StatusInv'
  <2>1. \A b \in Actor : at'[b] = at[b] \/ (at'[b] \notin Inside /\ at[b] \notin Inside /\ b[2] # "watch")
    BY <1>9, Threads DEF Count, DependenciesFail, Check, Go, Inside
  <2> QED BY <1>7, <1>9, <2>1 DEF Count, DependenciesFail, Check, registry, local
<1>10. ASSUME NEW rt \in Runtime, Crash(rt) PROVE StatusInv'
  <2> DEFINE threads == {Main(rt), Watch(rt)}
             here == RepoOf[rt]
  <2>1. /\ \A b \in Actor : b \in threads =>
               op'[b] = "none" /\ at'[b] \in {"down", "idle"} /\ (b[2] = "watch" => at'[b] = "idle")
        /\ \A b \in Actor : b \notin threads =>
               /\ op'[b] = op[b] /\ target'[b] = target[b] /\ at'[b] = at[b] /\ say'[b] = say[b]
               /\ existing'[b] = existing[b]
    <3>1. Forget(threads) /\ at' = [at EXCEPT ![Main(rt)] = "down", ![Watch(rt)] = "idle"]
      BY <1>10 DEF Crash
    <3>2. \A b \in Actor : b \in threads =>
            op'[b] = "none" /\ at'[b] \in {"down", "idle"} /\ (b[2] = "watch" => at'[b] = "idle")
      BY <3>1, ForgetKeepsTypes, Threads
    <3>3. \A b \in Actor : b \notin threads =>
            /\ op'[b] = op[b] /\ target'[b] = target[b] /\ at'[b] = at[b] /\ say'[b] = say[b]
            /\ existing'[b] = existing[b]
      BY <3>1, ForgetKeepsTypes, Threads
    <3> QED BY <3>2, <3>3
  <2>2. /\ UNCHANGED <<row, echoed>> /\ here \in Repo
        /\ orphaned' = IF op[Main(rt)] \in Indexing /\ row[here].status = "indexing"
                       THEN orphaned \cup {here} ELSE orphaned
    BY <1>10, Threads DEF Crash, Indexing
  <2>3. WorkIsAnnounced'
    BY <2>1, <2>2 DEF WorkIsAnnounced, Own
  <2>4. CountsAreTrue'
    <3> DEFINE cut == {b \in threads : at[b] \in {"working", "filling"}}
               o == IF cut = {} THEN "build" ELSE op[CHOOSE b \in cut : TRUE]
    <3>1. PICK vectors \in LeftBy(o, store[here]) :
            store' = [store EXCEPT ![here] = vectors] /\ NotesNothing(here, o, vectors)
      BY <1>10 DEF Crash
    <3>2. CASE cut = {}
      <4>1. vectors = store[here] /\ unnoted' = unnoted
        BY <3>1, <3>2 DEF LeftBy, NotesNothing
      <4> QED BY <2>2, <3>1, <4>1 DEF CountsAreTrue
    <3>3. CASE cut # {}
      <4> DEFINE b == CHOOSE b \in cut : TRUE
      <4>1. b \in Actor /\ Own(b) = here /\ at[b] \in {"working", "filling"} /\ o = op[b]
        BY <3>3, Threads
      <4> HIDE DEF b, o
      <4> QED BY <2>2, <3>1, <4>1, PointsGone
    <3> QED BY <3>2, <3>3
  <2>5. OwnersAnnounced'
    <3>1. ASSUME NEW r \in Repo, r \notin orphaned', r \notin echoed, row[r].status = "indexing"
          PROVE  \E b \in Actor : Own(b) = r /\ Announced(b)'
      <4>1. PICK b \in Actor : Own(b) = r /\ Announced(b)
        BY <2>2, <3>1 DEF OwnersAnnounced
      <4>2. b # Watch(rt)
        BY <4>1, Threads DEF Announced, Indexing, OperationsWork, Watch
      <4>3. b # Main(rt)
        BY <2>2, <3>1, <4>1, Threads DEF Announced
      <4> QED BY <2>1, <4>1, <4>2, <4>3 DEF Announced
    <3> QED BY <2>2, <3>1 DEF OwnersAnnounced, Own
  <2>6. RepeatsAreOrphaned' /\ StrangersRepeat'
    <3>1. orphaned \subseteq orphaned'
      BY <2>2
    <3> QED BY <2>1, <2>2, <3>1 DEF RepeatsAreOrphaned, StrangersRepeat, Own
  <2>7. OperationsWork'
    BY <2>1 DEF OperationsWork
  <2> QED BY <2>3, <2>4, <2>5, <2>6, <2>7
<1>11. CASE UNCHANGED vars
  BY <1>7, <1>11 DEF vars, registry, local
<1> QED
  BY <1>1, <1>3, <1>4, <1>5, <1>6, <1>8, <1>9, <1>10, <1>11, StepCases

-----------------------------------------------------------------------------

\* What calls have read, counted and announced agrees with the rows and the
\* collections, except where a call died or could not write, a poll or reconcile has
\* not written, or register_repo of another repository's process has written back.
THEOREM StatusInvariant == Spec => [](LeaseInv /\ StatusInv)
<1>1. Init => LeaseInv /\ StatusInv
  BY TypesInit, StatusInit
<1>2. (LeaseInv /\ StatusInv) /\ [Next]_vars => (LeaseInv /\ StatusInv)'
  BY LeaseStep, StatusStep
<1> QED
  BY <1>1, <1>2, PTL DEF Spec

\* While a tool rebuilds or reindexes, the row says indexing (lifecycle/index_ops.py),
\* or what register_repo of another repository's process has written back.
THEOREM WorkIsAnnouncedHolds == Spec => []WorkIsAnnounced
<1>1. LeaseInv /\ StatusInv => WorkIsAnnounced
  BY DEF StatusInv
<1> QED
  BY <1>1, StatusInvariant, PTL

\* Search is not let through to a repository without points, whatever bootstrap counted
\* before it waited for the lease (main.py) and whatever failed or died, except on a row
\* that was written back from outside, or after a poll or reconcile that left no points.
THEOREM SearchableMeansPointsHolds == Spec => []SearchableMeansPoints
<1>1. LeaseInv /\ StatusInv => SearchableMeansPoints
  BY DEF StatusInv, CountsAreTrue, SearchableMeansPoints, SearchAvailable
<1> QED
  BY <1>1, StatusInvariant, PTL

\* The status indexing has an owner that works, or an owner that died or could not
\* write what became of it, or was written back from outside.
THEOREM IndexingMeansWorkHolds == Spec => []IndexingMeansWork
<1>1. LeaseInv /\ StatusInv => IndexingMeansWork
  BY DEF StatusInv, OwnersAnnounced, IndexingMeansWork, Announced, Indexing, Inside
<1> QED
  BY <1>1, StatusInvariant, PTL
=============================================================================
