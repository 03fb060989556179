SPECIFICATION Spec
CONSTANT Args <- MCRing
INVARIANTS BlockStatistics
CHECK_DEADLOCK FALSE
