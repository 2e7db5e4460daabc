SPECIFICATION FairSpec
CONSTANTS
  MaxOps = 2
  MaxFaults = 2
INVARIANTS TypeOK CleanupTruthful
PROPERTIES ImportImplementsExchange DoneRunsImported SlotFreed
CHECK_DEADLOCK FALSE
