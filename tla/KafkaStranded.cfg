\* A Pop that fails in the middle of a drain, and the next Redrive run of the process.
SPECIFICATION Spec
CONSTANTS
  Proc = {p1, p2}
  Worker = {p1, p2}
  Operator = {p2}
  Msg = {m1, m2}
  Foreign = {m2}
  NoProc = NoProc
  MaxAttempts = 2
  MaxFaults = 1
  RedriveMax = 0
  MaxRedrives = 1
INVARIANTS
  NoLossStrict
CHECK_DEADLOCK FALSE
