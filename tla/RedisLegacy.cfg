\* Two consumers with skewed clocks, equal bodies and an item of an older version; c1 may
\* die for good, c2 has no retry_after of its own and sweeps for it.
SPECIFICATION FairSpec
CONSTANTS
  c1 = c1
  c2 = c2
  m1 = m1
  Consumer = {c1, c2}
  NullRetry = {c2}
  Unreliable = {c1}
  Msg = {m1}
  RetryAfter = 2
  Never = 99
  Skew <- SkewAhead
  Batch = 1
  OldItems <- OneOldItem
  MaxAttempts = 1
  MaxPublished = 2
  MaxReservations = 4
  MaxClock = 4
INVARIANTS
  TypeOK
  Accounting
  LeaseHonoured
PROPERTIES
  ImplementsLeaseQueue
  Recovered
CHECK_DEADLOCK FALSE
