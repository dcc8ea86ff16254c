\* A lone relay whose batch is filled by refused rows.
SPECIFICATION Spec
CONSTANTS
  Relay = {r1}
  Refused = {1, 2}
  BatchSize = 2
  MaxPasses = 3
  CapSteps = 1
  MaxRows = 3
  MaxFaults = 0
INVARIANTS
  DrainComplete
CHECK_DEADLOCK FALSE
