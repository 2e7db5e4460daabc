SPECIFICATION FairSpec
CONSTANTS
  m1 = m1
  Manager <- OneManager
  MaxCmds = 2
  MaxFaults = 0
PROPERTIES ExpiringRowsSettle ServedWhileUp
CHECK_DEADLOCK FALSE
