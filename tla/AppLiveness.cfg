\* Progress on the transports whose abandoned reservations end by themselves.
SPECIFICATION FairSpec
CONSTANTS
  Worker = {w1}
  Msg = {m1}
  Configs <- LeasedConfigs
  MaxCopies = 5
  MaxDeliveries = 5
  MaxFaults = 2
PROPERTIES
  Settles
CHECK_DEADLOCK FALSE
