SPECIFICATION Spec
CONSTANTS
  m1 = m1
  Manager <- OneManager
  MaxCmds = 1
  MaxFaults = 1
INVARIANTS RolledBackNotConsumed
CHECK_DEADLOCK FALSE
