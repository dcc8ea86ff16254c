\* Two relays on one store, a refused row in a batch of two, three rows, two faults.
SPECIFICATION FairSpec
CONSTANTS
  Relay = {r1, r2}
  Refused = {1}
  BatchSize = 2
  MaxPasses = 2
  CapSteps = 1
  MaxRows = 3
  MaxFaults = 2
INVARIANTS
  TypeOK
  MarkedWasSent
  BoundedDuplicates
PROPERTIES
  Relayed
CHECK_DEADLOCK FALSE
