\* Two publishes of a valid, a raw or a lenient body, equal bytes included; c2 never expires.
SPECIFICATION Spec
CONSTANTS
  Consumer = {c1, c2}
  MayNull = {c2}
  Unreliable = {}
  Msg = {m1, r1, p1}
  Raw = {r1}
  Lenient = {p1}
  Never = 99
  RetryAfter = 1
  Delay = 1
  Batch = 1
  MaxAttempts = 2
  MaxPublished = 2
  MaxReservations = 3
  MaxClock = 2
INVARIANTS
  TypeOK
  NoLoss
  OnceUnlessRecovered
CHECK_DEADLOCK FALSE
