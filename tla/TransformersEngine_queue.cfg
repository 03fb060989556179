\* Batches of one, of two, and without limit; strict or not.
SPECIFICATION FairSpec
CONSTANTS
    NumRequests = 3
    Configs = {"greedy", "stream"}
    Streams = {"stream"}
    Adapters = {"base", "lora"}
    BatchSizes = {0, 1, 2}
    StrictModes = {TRUE, FALSE}
    MaxBad = 2
    MaxNamed = 1
    MaxChunks = 1
    MaxRaises = 1
INVARIANTS OwnAnswer StreamInOrder
PROPERTIES AnsweredOrDead
CHECK_DEADLOCK FALSE
