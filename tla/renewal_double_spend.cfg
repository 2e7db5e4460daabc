SPECIFICATION Spec
CONSTANTS
  l1 = l1
  NoLease = NoLease
  Lease <- OneLease
  Source <- Engines
  MaxDate = 2
  MaxGen = 1
  MaxOps = 2
  MaxCrashes = 0
  DbErrors = FALSE
INVARIANTS AtMostOneSpendPerCycle
CHECK_DEADLOCK FALSE
