\* Two consumers, one message with an id and one without, ids that are evicted, two faults.
SPECIFICATION Spec
CONSTANTS
  Consumer = {c1, c2}
  Msg = {m1, n1}
  NoId = {n1}
  Evicts = TRUE
  MaxDeliveries = 7
  MaxFaults = 2
INVARIANTS
  TypeOK
  SkippedWasRun
  BoundedReruns
CHECK_DEADLOCK FALSE
