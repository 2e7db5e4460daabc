SPECIFICATION FairSpec
CONSTANTS
  l1 = l1
  NoLease = NoLease
  Lease <- OneLease
  Source <- Engines
  MaxDate = 2
  MaxGen = 0
  MaxOps = 2
  MaxCrashes = 1
  DbErrors = TRUE
INVARIANTS TypeOK AtMostOneSpendPerCycle StaleExpiryIsBurned
PROPERTIES RestartFreesReservations LeaseCatchesUp RenewalImplementsBilling
CHECK_DEADLOCK FALSE
