\* Two servers of two workers, weights sent in two buckets, two trainers one
\* after the other; a call that raises, after which the client may call
\* again, and a worker that dies.  The system stops when the last trainer
\* exits, or in a collective whose member has died.
SPECIFICATION FairSpec
CONSTANTS
    NumServers = 2
    NumWorkers = 2
    NumBuckets = 2
    Rounds = 2
    NumClients = 2
    MaxRaises = 1
    MaxDeaths = 1
    MaxCalls = 14
INVARIANTS
    PairedReplies
    UniformPolicy
    SyncReachesEveryWorker
PROPERTIES
    RoundsComplete
CHECK_DEADLOCK FALSE
