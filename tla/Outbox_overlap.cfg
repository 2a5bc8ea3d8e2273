SPECIFICATION FairSpec
CONSTANTS
  n1 = n1
  n2 = n2
  NoNote = NoNote
  Notes <- MCOneNote
  MaxLoads = 2
  MaxAttempts = 2
  Backoff <- MCBackoff
  Lease = 1
  MaxPerTick = 1
  MaxCrashes = 1
  MaxDbErrors = 1
INVARIANTS
  TypeOK
  LeaseIsExclusive
  DuplicateIsExplained
  SentIsDelivered
  AttemptsBounded
PROPERTIES
  ClosedNeedsRequeue
  NoticeResolves
