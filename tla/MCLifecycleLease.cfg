CONSTANTS
  c1 = c1
  c2 = c2
  c3 = c3
  k1 = k1
  None = None
  Call = {c1, c2, c3}
  Key = {k1}
  KeyOf <- OneContendedKey
  Ttl = 2
  MaxGap = 1
  MaxTime = 3
SPECIFICATION Spec
INVARIANTS TypeOK MutualExclusion AuditMatchesLease OverlapIsAudited
PROPERTIES VerdictsAreFinal LostLeaseStaysLost AbandonedLeaseIsRecovered ImplementsExclusiveSection
CHECK_DEADLOCK FALSE
