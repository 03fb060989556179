SPECIFICATION Spec
CONSTANTS
    Schedulers <- Supported
    MaxTurns = 3
    TurnBound = 4
    MaxTokens = 2
INVARIANTS TrainedOnOwnTokens LossOnGenerated LogprobsFollowLoss
CHECK_DEADLOCK FALSE
