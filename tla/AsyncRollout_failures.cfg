\* Inference tasks that raise: the trainer may hang (the done callback only
\* logs), but it never updates weights under a running task.  Generations
\* straddle optimizer steps and an epoch ends in the middle of an
\* accumulation: 3 micro steps per generation, 2 per update.
SPECIFICATION Spec
CONSTANTS
    MaxSteps = 5
    GradAccum = 2
    StepsPerGeneration = 3
    NumIterations = 1
    EpochGenerations = 1
    EvalBatches = 2
    NumGroups = 2
    MaxResample = 1
    MaxFailures = 2
    EvalOnStart = FALSE
INVARIANTS
    QuietUpdate
    SampledByRequestedPolicy
    BoundedStaleness
CHECK_DEADLOCK FALSE
