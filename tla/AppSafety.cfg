\* One message, two workers, every option on every transport, two faults.
SPECIFICATION Spec
CONSTANTS
  Worker = {w1, w2}
  Msg = {m1}
  Configs <- AllConfigs
  MaxCopies = 6
  MaxDeliveries = 4
  MaxFaults = 2
INVARIANTS
  TypeOK
  NoLoss
  BodyPreserved
  FaultFreeOnce
  EventsConfirmedUngated
CHECK_DEADLOCK FALSE
