SPECIFICATION Spec
CONSTANTS
    Args <- MCShard
    MaxEpochs = 2
    MaxCrashes = 1
CHECK_DEADLOCK FALSE
INVARIANTS
    ResumesFromTheLastStep
