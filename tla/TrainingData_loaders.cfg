SPECIFICATION Spec
CONSTANTS
    Args <- MCArgs
    MaxEpochs = 2
    MaxCrashes = 2
CHECK_DEADLOCK FALSE
INVARIANTS
    ResumeGoesOn
    EachRowOnce
    ProcessesInStep
PROPERTIES
    TrainingEnds
