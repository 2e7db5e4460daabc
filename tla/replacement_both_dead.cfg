SPECIFICATION Spec
CONSTANT MaxFaults = 0
INVARIANT NoScenarioBothDisabled
CHECK_DEADLOCK FALSE
