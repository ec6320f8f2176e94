------------------------ MODULE LifecycleLeaseProofs ------------------------
(***************************************************************************)
(* Proofs about LifecycleLease, for every set of calls and keys and every  *)
(* Ttl > MaxGap.                                                           *)
(***************************************************************************)
EXTENDS LifecycleLease, TLAPS

-----------------------------------------------------------------------------
(* The inductive invariant *)

\* A reading of the clock is never ahead of it, and no row expires later than
\* a reading plus Ttl.
ReadingsArePast ==
  /\ \A c \in Call : stamp[c] <= clock /\ beatStamp[c] <= clock
  /\ \A k \in Key : expiresAt[k] <= clock + Ttl

\* A row belongs to a call of its key, and a call has an audit row from the
\* moment it gets its lease, finished only once the call is done.
RowsAreOwned ==
  /\ \A k \in Key : \A c \in Call : holder[k] = c => KeyOf[c] = k
  /\ \A c \in Call : audit[c] = "none" <=> phase[c] \in {"idle", "stamped"}
  /\ \A c \in Call : audit[c] \in {"success", "error"} => phase[c] = "done"

\* A heartbeat thread exists only beside a lease that was granted, and what it
\* is about to write does not shorten the lease.
BeatsExtend ==
  /\ \A c \in Call : beat[c] = "waiting" => phase[c] = "working"
  /\ \A c \in Call : beat[c] = "stamped" => audit[c] # "none"
  /\ \A c \in Call : beat[c] = "stamped" /\ Holds(c)
                       => expiresAt[KeyOf[c]] <= beatStamp[c] + Ttl

\* As long as the owners are punctual, a running body still has its row, and
\* that row has not expired.
PunctualOwnersHold ==
  punctual => /\ OnTime(clock)
              /\ \A c \in Call : phase[c] = "working" => Holds(c)

LeaseInv ==
  /\ TypeOK
  /\ ReadingsArePast
  /\ AuditMatchesLease
  /\ RowsAreOwned
  /\ BeatsExtend
  /\ PunctualOwnersHold

-----------------------------------------------------------------------------
(* Type correctness *)

LEMMA TypeInit == Init => TypeOK
  BY LeaseAssumption DEF Init, TypeOK, Phase, Verdict

LEMMA TypeStep == TypeOK /\ [Next]_vars => TypeOK'
<1> SUFFICES ASSUME TypeOK, [Next]_vars PROVE TypeOK'
  OBVIOUS
<1> USE LeaseAssumption DEF TypeOK, Phase, Verdict
<1>1. CASE Tick
  BY <1>1 DEF Tick
<1>2. ASSUME NEW c \in Call, CallStep(c) PROVE TypeOK'
  <2>1. CASE ReadClock(c)
    BY <2>1 DEF ReadClock
  <2>2. CASE Refuse(c)
    BY <2>2 DEF Refuse
  <2>3. CASE Acquire(c)
    BY <2>3 DEF Acquire, AuditOfTaking
  <2>4. CASE BeatReadClock(c)
    BY <2>4 DEF BeatReadClock
  <2>5. CASE BeatWrite(c)
    BY <2>5 DEF BeatWrite
  <2>6. CASE BeatError(c)
    BY <2>6 DEF BeatError
  <2>7. ASSUME NEW o \in {"succeeded", "failed"}, BodyEnds(c, o) PROVE TypeOK'
    BY <2>7 DEF BodyEnds
  <2>8. CASE Release(c)
    BY <2>8 DEF Release
  <2>9. CASE ReleaseError(c)
    BY <2>9 DEF ReleaseError
  <2>10. CASE Crash(c)
    BY <2>10 DEF Crash
  <2>11. CASE AcquireError(c)
    BY <2>11 DEF AcquireError
  <2>. QED
    BY <1>2, <2>1, <2>2, <2>3, <2>4, <2>5, <2>6, <2>7, <2>8, <2>9, <2>10, <2>11 DEF CallStep
<1>3. CASE UNCHANGED vars
  BY <1>3 DEF vars
<1>. QED
  BY <1>1, <1>2, <1>3 DEF Next

\* Every reachable state of the lease is well typed.
THEOREM TypeCorrect == Spec => []TypeOK
  BY TypeInit, TypeStep, PTL DEF Spec

-----------------------------------------------------------------------------
(* The inductive invariant holds initially, and each action preserves it *)

LEMMA InvInit == Init => LeaseInv
<1> SUFFICES ASSUME Init PROVE LeaseInv
  OBVIOUS
<1> USE LeaseAssumption DEF Init
<1>1. TypeOK
  BY TypeInit
<1>2. ReadingsArePast
  BY DEF ReadingsArePast
<1>3. AuditMatchesLease
  BY DEF AuditMatchesLease, Holds
<1>4. RowsAreOwned
  BY DEF RowsAreOwned
<1>5. BeatsExtend
  BY DEF BeatsExtend
<1>6. PunctualOwnersHold
  BY DEF PunctualOwnersHold, OnTime
<1>. QED
  BY <1>1, <1>2, <1>3, <1>4, <1>5, <1>6 DEF LeaseInv

LEMMA TickInv == LeaseInv /\ Tick => LeaseInv'
<1> SUFFICES ASSUME LeaseInv, Tick PROVE LeaseInv'
  OBVIOUS
<1>0. TypeOK'
  BY TypeStep DEF LeaseInv, Next
<1> USE LeaseAssumption DEF LeaseInv, TypeOK, Tick
<1>1. ReadingsArePast'
  BY DEF ReadingsArePast
<1>2. AuditMatchesLease' /\ RowsAreOwned' /\ BeatsExtend'
  BY DEF AuditMatchesLease, RowsAreOwned, BeatsExtend, Holds
<1>3. PunctualOwnersHold'
  BY DEF PunctualOwnersHold, OnTime, Holds
<1>. QED
  BY <1>0, <1>1, <1>2, <1>3

\* The steps that touch neither a row nor an audit row.
LEMMA QuietInv ==
  ASSUME LeaseInv, NEW c \in Call,
         ReadClock(c) \/ Refuse(c) \/ AcquireError(c) \/ BeatReadClock(c) \/ BeatError(c)
           \/ (\E o \in {"succeeded", "failed"} : BodyEnds(c, o))
           \/ ReleaseError(c) \/ Crash(c)
  PROVE  LeaseInv'
<1>0. TypeOK'
  BY TypeStep DEF LeaseInv, Next, CallStep
<1> USE LeaseAssumption DEF LeaseInv, TypeOK, ReadClock, Refuse, AcquireError,
        BeatReadClock, BeatError, BodyEnds, ReleaseError, Crash, Ended
<1>1. ReadingsArePast'
  BY DEF ReadingsArePast
<1>2. AuditMatchesLease' /\ RowsAreOwned'
  BY DEF AuditMatchesLease, RowsAreOwned, Holds, Phase
<1>3. BeatsExtend'
  BY DEF BeatsExtend, ReadingsArePast, RowsAreOwned, Holds
<1>4. PunctualOwnersHold'
  <2> USE DEF PunctualOwnersHold, OnTime, Holds
  <2>1. CASE ReadClock(c)
    BY <2>1
  <2>2. CASE Refuse(c) \/ AcquireError(c)
    BY <2>2
  <2>3. CASE BeatReadClock(c)
    BY <2>3
  <2>4. CASE BeatError(c)
    BY <2>4
  <2>5. ASSUME NEW o \in {"succeeded", "failed"}, BodyEnds(c, o) PROVE PunctualOwnersHold'
    BY <2>5
  <2>6. CASE ReleaseError(c)
    BY <2>6
  <2>7. CASE Crash(c)
    BY <2>7
  <2>. QED
    BY <2>1, <2>2, <2>3, <2>4, <2>5, <2>6, <2>7
<1>. QED
  BY <1>0, <1>1, <1>2, <1>3, <1>4

\* The row of a punctual running owner is live for every reading of the clock.
LEMMA PunctualRowIsLive ==
  ASSUME LeaseInv, punctual, NEW d \in Call, phase[d] = "working",
         NEW now \in Nat, now <= clock
  PROVE  Live(KeyOf[d], now)
<1>1. holder[KeyOf[d]] = d /\ clock + Ttl <= expiresAt[KeyOf[d]] + MaxGap
  BY DEF LeaseInv, PunctualOwnersHold, OnTime, Holds
<1>2. clock \in Nat /\ expiresAt[KeyOf[d]] \in Nat /\ Ttl \in Nat /\ MaxGap \in Nat /\ MaxGap < Ttl
  BY LeaseAssumption DEF LeaseInv, TypeOK
<1>3. expiresAt[KeyOf[d]] > now
  BY <1>1, <1>2
<1>4. holder[KeyOf[d]] # None
  BY <1>1, LeaseAssumption
<1>. QED
  BY <1>3, <1>4 DEF Live

LEMMA AcquireInv ==
  ASSUME LeaseInv, NEW c \in Call, Acquire(c) PROVE LeaseInv'
<1> DEFINE K == KeyOf[c]
<1>0. TypeOK /\ TypeOK' /\ K \in Key
  BY TypeStep, LeaseAssumption DEF LeaseInv, Next, CallStep, TypeOK
<1>1. ReadingsArePast'
  BY <1>0, LeaseAssumption DEF LeaseInv, TypeOK, ReadingsArePast, Acquire
<1>2. /\ \A d \in Call : Holds(d)' <=> d = c \/ (Holds(d) /\ KeyOf[d] # K)
      /\ \A d \in Call : holder[K] = d <=> Holds(d) /\ KeyOf[d] = K
  BY <1>0 DEF LeaseInv, TypeOK, RowsAreOwned, Acquire, Holds
<1>3. \A d \in Call : audit'[d] = IF d = c THEN "running"
                                ELSE IF holder[K] = d THEN "expired_recovered"
                                ELSE audit[d]
  BY <1>0 DEF Acquire, AuditOfTaking
<1>4. AuditMatchesLease'
  BY <1>2, <1>3 DEF LeaseInv, AuditMatchesLease
<1>5. RowsAreOwned'
  <2>1. \A k \in Key : \A d \in Call : holder'[k] = d => KeyOf[d] = k
    BY <1>0 DEF LeaseInv, RowsAreOwned, Acquire, TypeOK
  <2>2. \A d \in Call : audit'[d] = "none" <=> phase'[d] \in {"idle", "stamped"}
    BY <1>0, <1>2, <1>3 DEF LeaseInv, RowsAreOwned, AuditMatchesLease, Acquire, TypeOK
  <2>3. \A d \in Call : audit'[d] \in {"success", "error"} => phase'[d] = "done"
    BY <1>0, <1>3 DEF LeaseInv, RowsAreOwned, Acquire, TypeOK
  <2>. QED
    BY <2>1, <2>2, <2>3 DEF RowsAreOwned
<1>6. BeatsExtend'
  BY <1>0, <1>2, <1>3 DEF LeaseInv, BeatsExtend, RowsAreOwned, Acquire, TypeOK
<1>7. PunctualOwnersHold'
  \* The row c takes from a running owner would have had to expire.
  <2> SUFFICES ASSUME punctual
               PROVE  OnTime(clock)' /\ \A d \in Call : phase'[d] = "working" => Holds(d)'
    BY DEF PunctualOwnersHold, Acquire
  <2>1. OnTime(clock)
    BY DEF LeaseInv, PunctualOwnersHold
  <2>2. ASSUME NEW d \in Call, phase[d] = "working" PROVE KeyOf[d] # K
    BY <1>0, <2>2, PunctualRowIsLive DEF LeaseInv, TypeOK, ReadingsArePast, Acquire
  <2>3. \A d \in Call : phase'[d] = "working" <=> d = c \/ phase[d] = "working"
    BY <1>0 DEF TypeOK, Acquire
  <2>4. \A d \in Call : phase'[d] = "working" => Holds(d)'
    BY <1>2, <2>2, <2>3 DEF LeaseInv, PunctualOwnersHold
  <2>5. clock' + Ttl <= expiresAt'[K] + MaxGap
    BY <1>0, <2>1, LeaseAssumption DEF OnTime, Acquire, TypeOK
  <2>6. OnTime(clock)'
    BY <1>0, <2>1, <2>2, <2>3, <2>4, <2>5 DEF OnTime, Acquire, TypeOK, LeaseInv, PunctualOwnersHold
  <2>. QED
    BY <2>4, <2>6
<1>. QED
  BY <1>0, <1>1, <1>4, <1>5, <1>6, <1>7 DEF LeaseInv

LEMMA BeatWriteInv ==
  ASSUME LeaseInv, NEW c \in Call, BeatWrite(c) PROVE LeaseInv'
<1>0. TypeOK'
  BY TypeStep DEF LeaseInv, Next, CallStep
<1> USE LeaseAssumption DEF LeaseInv, TypeOK, BeatWrite
<1>1. ReadingsArePast'
  BY DEF ReadingsArePast
<1>2. AuditMatchesLease' /\ RowsAreOwned'
  BY DEF AuditMatchesLease, RowsAreOwned, Holds
<1>3. BeatsExtend'
  BY DEF BeatsExtend, Holds
<1>4. PunctualOwnersHold'
  BY DEF PunctualOwnersHold, OnTime, BeatsExtend, Holds
<1>. QED
  BY <1>0, <1>1, <1>2, <1>3, <1>4

LEMMA ReleaseInv ==
  ASSUME LeaseInv, NEW c \in Call, Release(c) PROVE LeaseInv'
<1>0. TypeOK'
  BY TypeStep DEF LeaseInv, Next, CallStep
<1> USE LeaseAssumption DEF LeaseInv, TypeOK, Release, Ended
<1>1. ReadingsArePast'
  BY DEF ReadingsArePast
<1>2. AuditMatchesLease'
  <2>1. /\ \A d \in Call : Holds(d)' <=> Holds(d) /\ d # c
        /\ \A d \in Call \ {c} : audit'[d] = audit[d]
        /\ audit'[c] # "running"
    BY DEF RowsAreOwned, Holds
  <2>. QED
    BY <2>1 DEF AuditMatchesLease
<1>3. RowsAreOwned'
  BY DEF RowsAreOwned
<1>4. BeatsExtend'
  BY DEF BeatsExtend, RowsAreOwned, Holds
<1>5. PunctualOwnersHold'
  BY DEF PunctualOwnersHold, OnTime, RowsAreOwned, Holds
<1>. QED
  BY <1>0, <1>1, <1>2, <1>3, <1>4, <1>5

LEMMA InvStep == LeaseInv /\ [Next]_vars => LeaseInv'
<1> SUFFICES ASSUME LeaseInv, [Next]_vars PROVE LeaseInv'
  OBVIOUS
<1>1. CASE Tick
  BY <1>1, TickInv
<1>2. ASSUME NEW c \in Call, CallStep(c) PROVE LeaseInv'
  BY <1>2, QuietInv, AcquireInv, BeatWriteInv, ReleaseInv DEF CallStep
<1>3. CASE UNCHANGED vars
  BY <1>3 DEF vars, LeaseInv, TypeOK, ReadingsArePast, AuditMatchesLease,
     RowsAreOwned, BeatsExtend, PunctualOwnersHold, OnTime, Holds
<1>. QED
  BY <1>1, <1>2, <1>3 DEF Next

THEOREM LeaseInvariant == Spec => []LeaseInv
  BY InvInit, InvStep, PTL DEF Spec

-----------------------------------------------------------------------------
(* What follows *)

\* While the owners are punctual, one body at a time runs under each key.
THEOREM MutualExclusionHolds == Spec => []MutualExclusion
<1>1. LeaseInv => MutualExclusion
  BY DEF LeaseInv, PunctualOwnersHold, MutualExclusion, Holds
<1>. QED
  BY <1>1, LeaseInvariant, PTL

\* The lease table and the audit table agree, whatever the owners do.
THEOREM AuditMatchesLeaseHolds == Spec => []AuditMatchesLease
<1>1. LeaseInv => AuditMatchesLease
  BY DEF LeaseInv
<1>. QED
  BY <1>1, LeaseInvariant, PTL

\* Of two overlapping bodies, one has been audited as expired.
THEOREM OverlapIsAuditedHolds == Spec => []OverlapIsAudited
<1>1. ASSUME LeaseInv PROVE OverlapIsAudited
  <2> SUFFICES ASSUME NEW c \in Call, NEW d \in Call, c # d, KeyOf[c] = KeyOf[d],
                      phase[c] = "working", phase[d] = "working"
               PROVE  audit[c] = "expired_recovered" \/ audit[d] = "expired_recovered"
    BY DEF OverlapIsAudited
  <2>1. ~Holds(c) \/ ~Holds(d)
    BY DEF Holds
  <2>2. ASSUME NEW e \in Call, phase[e] = "working"
        PROVE  audit[e] \in {"running", "expired_recovered"}
    BY <1>1, <2>2 DEF LeaseInv, TypeOK, Verdict, RowsAreOwned
  <2>. QED
    BY <1>1, <2>1, <2>2 DEF LeaseInv, AuditMatchesLease
<1>. QED
  BY <1>1, LeaseInvariant, PTL

\* A verdict is never rewritten: a late release does not undo a recovery.
THEOREM VerdictsAreFinalHolds == Spec => VerdictsAreFinal
<1> DEFINE Final == \A c \in Call : audit[c] \in Verdict => audit'[c] = audit[c]
<1>1. LeaseInv /\ [Next]_vars => [Final]_vars
  <2> SUFFICES ASSUME LeaseInv, [Next]_vars PROVE [Final]_vars
    OBVIOUS
  <2> USE LeaseAssumption DEF LeaseInv, TypeOK, Verdict
  <2>1. ASSUME NEW c \in Call, Acquire(c) PROVE Final
    <3>1. \A d \in Call : holder[KeyOf[c]] = d => audit[d] = "running"
      BY DEF AuditMatchesLease, RowsAreOwned, Holds
    <3>2. audit[c] = "none"
      BY <2>1 DEF RowsAreOwned, Acquire
    <3>. QED
      BY <2>1, <3>1, <3>2 DEF Acquire, AuditOfTaking
  <2>2. ASSUME NEW c \in Call, Release(c) PROVE Final
    BY <2>2 DEF Release
  <2>3. CASE UNCHANGED audit
    BY <2>3
  <2>. QED
    BY <2>1, <2>2, <2>3 DEF Next, CallStep, Tick, ReadClock, Refuse, AcquireError,
       BeatReadClock, BeatWrite, BeatError, BodyEnds, ReleaseError, Crash, vars
<1>. QED
  BY <1>1, LeaseInvariant, PTL DEF Spec, VerdictsAreFinal

\* A lease that was recovered or released is never held by that call again.
THEOREM LostLeaseStaysLostHolds == Spec => LostLeaseStaysLost
<1> DEFINE Lost == \A c \in Call : ~Holds(c) /\ audit[c] # "none" => ~Holds(c)'
<1>1. LeaseInv /\ [Next]_vars => [Lost]_vars
  <2> SUFFICES ASSUME LeaseInv, [Next]_vars PROVE [Lost]_vars
    OBVIOUS
  <2> USE LeaseAssumption DEF LeaseInv, TypeOK
  <2>1. ASSUME NEW c \in Call, Acquire(c) PROVE Lost
    BY <2>1 DEF Acquire, RowsAreOwned, Holds
  <2>2. ASSUME NEW c \in Call, Release(c) PROVE Lost
    BY <2>2 DEF Release, Holds
  <2>3. CASE UNCHANGED holder
    BY <2>3 DEF Holds
  <2>. QED
    BY <2>1, <2>2, <2>3 DEF Next, CallStep, Tick, ReadClock, Refuse, AcquireError,
       BeatReadClock, BeatWrite, BeatError, BodyEnds, ReleaseError, Crash, vars
<1>. QED
  BY <1>1, LeaseInvariant, PTL DEF Spec, LostLeaseStaysLost

-----------------------------------------------------------------------------
(* The lease implements ExclusiveSection *)

LEMMA SectionInit == Init => Section!Init
  BY DEF Init, Section!Init

LEMMA SectionStep ==
  LeaseInv /\ LeaseInv' /\ [Next]_vars
    => [Section!Next]_<<{c \in Call : phase[c] = "working"},
                        {c \in Call : phase[c] \notin {"idle", "stamped"}}, punctual>>
<1> DEFINE Inside == {c \in Call : phase[c] = "working"}
           Served == {c \in Call : phase[c] \notin {"idle", "stamped"}}
           seen == <<Inside, Served, punctual>>
<1> SUFFICES ASSUME LeaseInv, LeaseInv', [Next]_vars PROVE Section!Next \/ UNCHANGED seen
  OBVIOUS
<1>1. phase \in [Call -> Phase] /\ punctual \in BOOLEAN
  BY DEF LeaseInv, TypeOK
<1>2. CASE Tick
  <2>1. phase' = phase /\ (punctual' = punctual \/ punctual' = FALSE)
    BY <1>1, <1>2 DEF Tick
  <2>. QED
    BY <2>1 DEF Section!Next, Section!LoseTrust
<1>3. ASSUME NEW c \in Call, CallStep(c) PROVE Section!Next \/ UNCHANGED seen
  <2>1. CASE Acquire(c)
    <3>1. /\ Inside' = Inside \cup {c} /\ Served' = Served \cup {c}
          /\ c \notin Served /\ punctual' = punctual
      BY <1>1, <2>1 DEF Acquire
    <3>2. ASSUME punctual, NEW d \in Inside PROVE KeyOf[d] # KeyOf[c]
      \* Both would hold the one row of that key in the next state.
      <4>1. phase'[d] = "working" /\ phase'[c] = "working" /\ punctual' /\ d # c
        BY <1>1, <2>1, <3>1, <3>2 DEF Acquire
      <4>2. Holds(d)' /\ Holds(c)'
        BY <4>1 DEF LeaseInv, PunctualOwnersHold
      <4>. QED
        BY <4>1, <4>2 DEF Holds
    <3>3. Section!Enter(c)
      BY <3>1, <3>2 DEF Section!Enter
    <3>. QED
      BY <3>3 DEF Section!Next
  <2>2. CASE phase[c] = "working" /\ Inside' = Inside \ {c} /\ Served' = Served /\ punctual' = punctual
    BY <2>2 DEF Section!Next, Section!Leave
  <2>3. ASSUME NEW o \in {"succeeded", "failed"}, BodyEnds(c, o) PROVE Section!Next \/ UNCHANGED seen
    BY <1>1, <2>2, <2>3 DEF BodyEnds
  <2>4. CASE Crash(c)
    <3>1. CASE phase[c] = "working"
      BY <1>1, <2>2, <2>4, <3>1 DEF Crash
    <3>2. CASE Ended(c)
      BY <1>1, <2>4, <3>2 DEF Crash, Ended
    <3>. QED
      BY <2>4, <3>1, <3>2 DEF Crash
  <2>5. CASE ReadClock(c) \/ Refuse(c) \/ AcquireError(c) \/ BeatReadClock(c) \/ BeatWrite(c) \/ BeatError(c)
               \/ Release(c) \/ ReleaseError(c)
    <3>1. Inside' = Inside /\ Served' = Served /\ punctual' = punctual
      BY <1>1, <2>5 DEF ReadClock, Refuse, AcquireError, BeatReadClock, BeatWrite,
                        BeatError, Release, ReleaseError, Ended
    <3>. QED
      BY <3>1
  <2>. QED
    BY <1>3, <2>1, <2>3, <2>4, <2>5 DEF CallStep
<1>4. CASE UNCHANGED vars
  BY <1>4 DEF vars
<1>. QED
  BY <1>2, <1>3, <1>4 DEF Next

\* Seen through who is inside, the lease is an exclusive section.
THEOREM ImplementsSection == Spec => ImplementsExclusiveSection
  BY SectionInit, SectionStep, LeaseInvariant, PTL DEF Spec, ImplementsExclusiveSection, Section!Spec
=============================================================================
