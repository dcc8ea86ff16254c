\* Two workers, one of which also redrives, a job and a foreign message, one fault.
SPECIFICATION FairSpec
CONSTANTS
  Proc = {p1, p2}
  Worker = {p1, p2}
  Operator = {p2}
  Msg = {m1, m2}
  Foreign = {m2}
  NoProc = NoProc
  MaxAttempts = 2
  MaxFaults = 1
  RedriveMax = 0
  MaxRedrives = 1
INVARIANTS
  TypeOK
  NoLoss
  OnePlace
PROPERTIES
  Progress
CHECK_DEADLOCK FALSE
