\* Strict = TRUE: without a malformed row among the samples this is also the
\* behaviour of strict = FALSE, where a malformed row is answered like one
\* that is too long.
SPECIFICATION PackingSpec
CONSTANTS
    NumSamples = 4
    PackingInterval = 2
    PackingLength = 2
    NumProc = 2
    MaxLength = 2
    Strict = TRUE
    MaxIters = 2
    NumRows = 5
    PackingNumProc = 2
    BatchSize = 2
    MapPackingLength = 3
    MaxRowLength = 2
INVARIANTS
    PackedInDatasetOrder EachSampleOnce QuietYield EachIndexOnce
PROPERTIES IterationEndsOrDead PackingEnds
CHECK_DEADLOCK FALSE
