\* Two tiers, two records, wrong clocks, two faults.
SPECIFICATION FairSpec
CONSTANTS
  Tiers <- TwoTiers
  Partitions <- ThreeLanes
  Delays = {2}
  Leads <- AllLeads
  Depth = 1
  MaxAge = 4
  MaxRecords = 2
  MaxFaults = 2
INVARIANTS
  TypeOK
  CommittedCarried
  InOrder
  NotEarly
  NotStretched
PROPERTIES
  Carried
CHECK_DEADLOCK FALSE
