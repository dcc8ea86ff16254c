\* c1 may die for good while c2, which may have no retry_after, waits on the notify list.
SPECIFICATION FairSpec
CONSTANTS
  Consumer = {c1, c2}
  MayNull = {c2}
  Unreliable = {c1}
  Msg = {m1}
  Raw = {}
  Lenient = {}
  Never = 99
  RetryAfter = 1
  Delay = 1
  Batch = 1
  MaxAttempts = 2
  MaxPublished = 1
  MaxReservations = 3
  MaxClock = 3
PROPERTIES
  DueMigrated
CHECK_DEADLOCK FALSE
