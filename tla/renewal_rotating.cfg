SPECIFICATION Spec
CONSTANTS
  l1 = l1
  NoLease = NoLease
  Lease <- OneLease
  Source <- Engines
  MaxDate = 2
  MaxGen = 1
  MaxOps = 3
  MaxCrashes = 1
  DbErrors = TRUE
INVARIANTS AtMostOneSpendPerKey ReleasedIsUnspent ExpiryNeverAhead SuccessIsReal
PROPERTIES SettledOnce
CHECK_DEADLOCK FALSE
