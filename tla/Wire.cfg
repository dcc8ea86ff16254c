SPECIFICATION Spec
CONSTANTS
  Transport = {"kafka", "pulsar", "sqs", "azure", "artemis", "amqp"}
  Foreign <- MCForeign
  Floats <- MCFloats
  Overflow = 7
  Payloads <- MCPayloads
  Meta <- MCMeta
  Handlers = {"A"}
  MaxAttempts = 4
  Backoffs <- MCBackoffs
  Second = 2
  MaxVisibility = 4
  MaxInt64 = 31
  MaxLapses = 2
  MaxRedrives = 2
INVARIANTS
  TypeOK
  Faithful
  RouteStable
  GateSound
  AttemptsKept
  ReplayMarked
  BackoffHonoured
CHECK_DEADLOCK FALSE
