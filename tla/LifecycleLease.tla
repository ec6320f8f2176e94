--------------------------- MODULE LifecycleLease ---------------------------
(***************************************************************************)
(* The lifecycle mutation lease: one row per repository/profile/backend    *)
(* identity in the registry's SQLite file, taken by every call that        *)
(* mutates an index, kept alive by a heartbeat thread, and recovered by    *)
(* another call once it has expired (registry.py, lifecycle/lease.py).     *)
(*                                                                         *)
(* A call is one entry into lifecycle_mutation(): its lease_id and         *)
(* audit_id are fresh uuids, so the call itself names both.  Several       *)
(* processes share the file; a crash of a process is a Crash of each of    *)
(* its calls.  Every SQLite transaction is one action, and the clock       *)
(* reading each of them uses is a separate, earlier action, because the    *)
(* code reads the clock before it waits for the database lock.             *)
(***************************************************************************)
EXTENDS Naturals

CONSTANTS
  Call,      \* entries into lifecycle_mutation(), of all processes
  Key,       \* lease keys: repo identity | index profile | backend id
  KeyOf,     \* the key each call locks
  None,      \* no holder
  Ttl,       \* ttl_sec: what a lease is extended by, in clock units
  MaxGap,    \* the longest a punctual owner lets its last stamp age
  MaxTime    \* bound on the clock

ASSUME LeaseAssumption ==
  /\ None \notin Call
  /\ KeyOf \in [Call -> Key]
  /\ Ttl \in Nat /\ MaxGap \in Nat /\ MaxTime \in Nat
  /\ MaxGap < Ttl

VARIABLES
  clock,      \* datetime.now(timezone.utc), shared by the processes of a host
  phase,      \* where each call is inside lifecycle_mutation()
  stamp,      \* now_dt, as the acquiring call read it (0 when not in use)
  beat,       \* the heartbeat thread of each call
  beatStamp,  \* now_dt, as that thread read it (0 when not in use)
  holder,     \* lifecycle_lease.lease_id of each key's row, None without a row
  expiresAt,  \* lifecycle_lease.expires_at of that row (0 without a row)
  audit,      \* lifecycle_audit.status of each call
  punctual    \* ghost: no stamp has yet grown older than MaxGap while in use

vars == <<clock, phase, stamp, beat, beatStamp, holder, expiresAt, audit, punctual>>

Phase == {"idle", "stamped", "working", "succeeded", "failed", "done", "crashed"}
Verdict == {"success", "error", "expired_recovered"}

TypeOK ==
  /\ clock \in Nat
  /\ phase \in [Call -> Phase]
  /\ stamp \in [Call -> Nat]
  /\ beat \in [Call -> {"off", "waiting", "stamped"}]
  /\ beatStamp \in [Call -> Nat]
  /\ holder \in [Key -> Call \cup {None}]
  /\ expiresAt \in [Key -> Nat]
  /\ audit \in [Call -> {"none", "running"} \cup Verdict]
  /\ punctual \in BOOLEAN

Init ==
  /\ clock = 0
  /\ phase = [c \in Call |-> "idle"]
  /\ stamp = [c \in Call |-> 0]
  /\ beat = [c \in Call |-> "off"]
  /\ beatStamp = [c \in Call |-> 0]
  /\ holder = [k \in Key |-> None]
  /\ expiresAt = [k \in Key |-> 0]
  /\ audit = [c \in Call |-> "none"]
  /\ punctual = TRUE

-----------------------------------------------------------------------------
(* Wrong variants of definitions below, one per mistake the properties must  *)
(* catch; no specification uses them.                                        *)

\* Recovers a row one unit before it expires.
LiveOffByOne(k, now) == holder[k] # None /\ expiresAt[k] > now + 1

\* Never lets a row expire.
LiveForever(k, now) == holder[k] # None

\* Carries on without a lease when the key is busy.
RefuseProceeds(c) ==
  /\ phase[c] = "stamped" /\ holder[KeyOf[c]] # None
  /\ phase' = [phase EXCEPT ![c] = "working"]
  /\ UNCHANGED <<clock, stamp, beat, beatStamp, holder, expiresAt, audit, punctual>>

\* Recovers the row but not the audit of its old owner.
AuditOfTakingForgets(c) == [audit EXCEPT ![c] = "running"]

\* Writes the heartbeat as INSERT OR REPLACE.
BeatWriteUpserts(c) ==
  /\ beat[c] = "stamped"
  /\ holder' = [holder EXCEPT ![KeyOf[c]] = c]
  /\ expiresAt' = [expiresAt EXCEPT ![KeyOf[c]] = beatStamp[c] + Ttl]
  /\ beat' = [beat EXCEPT ![c] = IF phase[c] = "working" THEN "waiting" ELSE "off"]
  /\ beatStamp' = [beatStamp EXCEPT ![c] = 0]
  /\ UNCHANGED <<clock, phase, stamp, audit, punctual>>

\* Records the body's outcome as it stands, not as a status of lifecycle_audit.
ReleaseRaw(c) ==
  /\ phase[c] \in {"succeeded", "failed"}
  /\ phase' = [phase EXCEPT ![c] = "done"]
  /\ holder' = [k \in Key |-> IF holder[k] = c THEN None ELSE holder[k]]
  /\ audit' = [audit EXCEPT ![c] = IF @ = "running" THEN phase[c] ELSE @]
  /\ UNCHANGED <<clock, stamp, beat, beatStamp, expiresAt, punctual>>

\* Finishes the audit row whatever its status.
ReleaseOverwrites(c) ==
  /\ phase[c] \in {"succeeded", "failed"}
  /\ phase' = [phase EXCEPT ![c] = "done"]
  /\ holder' = [k \in Key |-> IF holder[k] = c THEN None ELSE holder[k]]
  /\ audit' = [audit EXCEPT ![c] = IF phase[c] = "succeeded" THEN "success" ELSE "error"]
  /\ UNCHANGED <<clock, stamp, beat, beatStamp, expiresAt, punctual>>

\* Commits the DELETE on its own, so that a failing UPDATE leaves it done.
ReleaseErrorHalfway(c) ==
  /\ phase[c] \in {"succeeded", "failed"}
  /\ phase' = [phase EXCEPT ![c] = "done"]
  /\ holder' = [k \in Key |-> IF holder[k] = c THEN None ELSE holder[k]]
  /\ UNCHANGED <<clock, stamp, beat, beatStamp, expiresAt, audit, punctual>>

-----------------------------------------------------------------------------
Holds(c) == holder[KeyOf[c]] = c

\* The row of k has not expired at the reading `now`: the code compares
\* expires_at > now_dt.
Live(k, now) == holder[k] # None /\ expiresAt[k] > now

-----------------------------------------------------------------------------
(* acquire_lifecycle_lease *)

\* The clock is read before BEGIN IMMEDIATE waits for the database lock.
ReadClock(c) ==
  /\ phase[c] = "idle"
  /\ phase' = [phase EXCEPT ![c] = "stamped"]
  /\ stamp' = [stamp EXCEPT ![c] = clock]
  /\ UNCHANGED <<clock, beat, beatStamp, holder, expiresAt, audit, punctual>>

\* A live row: roll back and raise LifecycleLeaseActiveError.  The caller may
\* call again later.
Refuse(c) ==
  /\ phase[c] = "stamped"
  /\ Live(KeyOf[c], stamp[c])
  /\ phase' = [phase EXCEPT ![c] = "idle"]
  /\ stamp' = [stamp EXCEPT ![c] = 0]
  /\ UNCHANGED <<clock, beat, beatStamp, holder, expiresAt, audit, punctual>>

\* The audit rows after c takes its key: the row it replaces, if any, was
\* left by a call whose lease expired.
AuditOfTaking(c) ==
  [d \in Call |-> IF d = c THEN "running"
                  ELSE IF holder[KeyOf[c]] = d THEN "expired_recovered"
                  ELSE audit[d]]

\* No row, or an expired one: insert this call's row and start its heartbeat.
Acquire(c) ==
  /\ phase[c] = "stamped"
  /\ ~Live(KeyOf[c], stamp[c])
  /\ phase' = [phase EXCEPT ![c] = "working"]
  /\ stamp' = [stamp EXCEPT ![c] = 0]
  /\ beat' = [beat EXCEPT ![c] = "waiting"]
  /\ holder' = [holder EXCEPT ![KeyOf[c]] = c]
  /\ expiresAt' = [expiresAt EXCEPT ![KeyOf[c]] = stamp[c] + Ttl]
  /\ audit' = AuditOfTaking(c)
  /\ UNCHANGED <<clock, beatStamp, punctual>>

\* The transaction raises (the database stayed locked) and leaves no row.
AcquireError(c) ==
  /\ phase[c] = "stamped"
  /\ phase' = [phase EXCEPT ![c] = "idle"]
  /\ stamp' = [stamp EXCEPT ![c] = 0]
  /\ UNCHANGED <<clock, beat, beatStamp, holder, expiresAt, audit, punctual>>

-----------------------------------------------------------------------------
(* heartbeat_lifecycle_lease and the loop of _start_lease_heartbeat *)

\* The interval elapses before stop_event is set; the clock is read first.
BeatReadClock(c) ==
  /\ beat[c] = "waiting" /\ phase[c] = "working"
  /\ beat' = [beat EXCEPT ![c] = "stamped"]
  /\ beatStamp' = [beatStamp EXCEPT ![c] = clock]
  /\ UNCHANGED <<clock, phase, stamp, holder, expiresAt, audit, punctual>>

\* UPDATE ... WHERE lease_key = ? AND lease_id = ?.  A row that is gone ends
\* the loop and tells nobody; so does a stop_event set while it was writing.
BeatWrite(c) ==
  /\ beat[c] = "stamped"
  /\ expiresAt' = IF Holds(c)
                  THEN [expiresAt EXCEPT ![KeyOf[c]] = beatStamp[c] + Ttl]
                  ELSE expiresAt
  /\ beat' = [beat EXCEPT ![c] = IF Holds(c) /\ phase[c] = "working"
                                 THEN "waiting" ELSE "off"]
  /\ beatStamp' = [beatStamp EXCEPT ![c] = 0]
  /\ UNCHANGED <<clock, phase, stamp, holder, audit, punctual>>

\* The write raises (the database stayed locked): log and continue.
BeatError(c) ==
  /\ beat[c] = "stamped"
  /\ beat' = [beat EXCEPT ![c] = IF phase[c] = "working" THEN "waiting" ELSE "off"]
  /\ beatStamp' = [beatStamp EXCEPT ![c] = 0]
  /\ UNCHANGED <<clock, phase, stamp, holder, expiresAt, audit, punctual>>

-----------------------------------------------------------------------------
(* The end of the body, and release_lifecycle_lease *)

\* The body returns or raises; stop_event is set and the thread is joined for
\* at most one second, so a write already under way may still land.
BodyEnds(c, outcome) ==
  /\ phase[c] = "working"
  /\ phase' = [phase EXCEPT ![c] = outcome]
  /\ beat' = [beat EXCEPT ![c] = IF @ = "stamped" THEN @ ELSE "off"]
  /\ UNCHANGED <<clock, stamp, beatStamp, holder, expiresAt, audit, punctual>>

Ended(c) == phase[c] \in {"succeeded", "failed"}

\* DELETE this call's row and finish its audit row if it is still running.
Release(c) ==
  /\ Ended(c)
  /\ phase' = [phase EXCEPT ![c] = "done"]
  /\ holder' = IF Holds(c) THEN [holder EXCEPT ![KeyOf[c]] = None] ELSE holder
  /\ expiresAt' = IF Holds(c) THEN [expiresAt EXCEPT ![KeyOf[c]] = 0] ELSE expiresAt
  /\ audit' = IF audit[c] = "running"
              THEN [audit EXCEPT ![c] = IF phase[c] = "succeeded"
                                        THEN "success" ELSE "error"]
              ELSE audit
  /\ UNCHANGED <<clock, stamp, beat, beatStamp, punctual>>

\* The release transaction raises: both statements are rolled back.
ReleaseError(c) ==
  /\ Ended(c)
  /\ phase' = [phase EXCEPT ![c] = "done"]
  /\ UNCHANGED <<clock, stamp, beat, beatStamp, holder, expiresAt, audit, punctual>>

-----------------------------------------------------------------------------
(* The environment *)

\* The process of c dies, its heartbeat thread with it.
Crash(c) ==
  /\ phase[c] = "working" \/ Ended(c)
  /\ phase' = [phase EXCEPT ![c] = "crashed"]
  /\ beat' = [beat EXCEPT ![c] = "off"]
  /\ beatStamp' = [beatStamp EXCEPT ![c] = 0]
  /\ UNCHANGED <<clock, stamp, holder, expiresAt, audit, punctual>>

\* At time t, no stamp that an acquiring or a working call relies on is older
\* than MaxGap.
OnTime(t) ==
  /\ \A c \in Call : phase[c] = "stamped" => t <= stamp[c] + MaxGap
  /\ \A c \in Call : phase[c] = "working" /\ Holds(c)
                       => t + Ttl <= expiresAt[KeyOf[c]] + MaxGap

Tick ==
  /\ clock < MaxTime
  /\ clock' = clock + 1
  /\ punctual' = (punctual /\ OnTime(clock + 1))
  /\ UNCHANGED <<phase, stamp, beat, beatStamp, holder, expiresAt, audit>>

-----------------------------------------------------------------------------
CallStep(c) ==
  \/ ReadClock(c) \/ Refuse(c) \/ Acquire(c) \/ AcquireError(c)
  \/ BeatReadClock(c) \/ BeatWrite(c) \/ BeatError(c)
  \/ \E outcome \in {"succeeded", "failed"} : BodyEnds(c, outcome)
  \/ Release(c) \/ ReleaseError(c)
  \/ Crash(c)

Next == Tick \/ \E c \in Call : CallStep(c)

\* Time passes, a caller that was refused calls again, and the database does
\* not stay locked for every one of its calls.  Nothing else is fair: a body may
\* never return, a heartbeat may never run.
Fairness ==
  /\ WF_vars(Tick)
  /\ \A c \in Call : WF_vars(ReadClock(c)) /\ SF_vars(Refuse(c) \/ Acquire(c))

Spec == Init /\ [][Next]_vars /\ Fairness

-----------------------------------------------------------------------------
(* Properties *)

\* While every owner is punctual, no two bodies run under one key: the lease
\* serialises index mutations although an owner never rechecks its row.
MutualExclusion ==
  punctual => \A c, d \in Call :
                phase[c] = "working" /\ phase[d] = "working" /\ KeyOf[c] = KeyOf[d]
                  => c = d

\* lifecycle_lease and lifecycle_audit agree: an audit row says running exactly
\* as long as its call's lease row exists, whoever ends it and however.
AuditMatchesLease ==
  \A c \in Call : audit[c] = "running" <=> Holds(c)

\* Overlapping work never goes unrecorded: of two bodies that run under one
\* key, all but one have been audited as expired, even when heartbeats stall.
OverlapIsAudited ==
  \A c, d \in Call :
    /\ c # d /\ KeyOf[c] = KeyOf[d]
    /\ phase[c] = "working" /\ phase[d] = "working"
    => \/ audit[c] = "expired_recovered"
       \/ audit[d] = "expired_recovered"

\* An audit verdict is final: an owner that finishes after it was expired does
\* not overwrite expired_recovered, and no recovery rewrites a finished row.
VerdictsAreFinal ==
  [][\A c \in Call : audit[c] \in Verdict => audit'[c] = audit[c]]_vars

\* A lease that was lost is never regained by its old owner: a late heartbeat
\* does not bring back a row that was recovered or released.
LostLeaseStaysLost ==
  [][\A c \in Call : ~Holds(c) /\ audit[c] # "none" => ~Holds(c)']_vars

\* A row that nobody will release (its owner crashed or failed to release) and
\* that expires within the modelled time is recovered by a caller that retries.
AbandonedBy(k, c) == holder[k] = c /\ phase[c] \in {"crashed", "done"} /\ beat[c] = "off"
AbandonedLeaseIsRecovered ==
  \A k \in Key, c \in Call :
    (/\ AbandonedBy(k, c)
     /\ expiresAt[k] <= MaxTime
     /\ \E d \in Call : KeyOf[d] = k /\ phase[d] \in {"idle", "stamped"})
      ~> ~AbandonedBy(k, c)

\* The lease implements ExclusiveSection: entering, leaving and losing trust are
\* the only steps its callers can observe, and no trusted entry is shared.
Section == INSTANCE ExclusiveSection WITH
             inside  <- {c \in Call : phase[c] = "working"},
             served  <- {c \in Call : phase[c] \notin {"idle", "stamped"}},
             trusted <- punctual
ImplementsExclusiveSection == Section!Spec
=============================================================================
