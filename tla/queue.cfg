SPECIFICATION Spec
CONSTANTS
  m1 = m1
  Manager <- OneManager
  MaxCmds = 2
  MaxFaults = 2
INVARIANTS TypeOK ResultsAreTrue ServedInOrder RolledBackNotTaken
PROPERTIES QueueImplementsDelivery
CHECK_DEADLOCK FALSE
