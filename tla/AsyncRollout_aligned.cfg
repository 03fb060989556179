\* Default shape: one generation per optimizer step; an evaluation after any
\* step, two in a row at the end, resampling.  Training ends in pc = "done".
SPECIFICATION FairSpec
CONSTANTS
    MaxSteps = 3
    GradAccum = 2
    StepsPerGeneration = 2
    NumIterations = 1
    EpochGenerations = 2
    EvalBatches = 2
    NumGroups = 2
    MaxResample = 1
    MaxFailures = 0
    EvalOnStart = FALSE
INVARIANTS TypeOK
PROPERTIES
    RefinesOneStepOffPolicy
    TrainingCompletes
CHECK_DEADLOCK FALSE
