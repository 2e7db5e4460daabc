SPECIFICATION FairSpec
CONSTANT MaxFaults = 2
INVARIANTS TypeOK SessionInOnePlace RollbackRestores
PROPERTIES ReplacementImplementsHandover OldUntouchedBeforeMarker CutoverCompletes DeadlineSettles
CHECK_DEADLOCK FALSE
