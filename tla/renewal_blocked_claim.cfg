SPECIFICATION Spec
CONSTANTS
  l1 = l1
  NoLease = NoLease
  Lease <- OneLease
  Source <- Engines
  MaxDate = 2
  MaxGen = 0
  MaxOps = 2
  MaxCrashes = 0
  DbErrors = FALSE
INVARIANTS BlockedMeansFailed
CHECK_DEADLOCK FALSE
