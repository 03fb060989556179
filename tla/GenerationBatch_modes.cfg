SPECIFICATION Spec
CONSTANTS
    a = a
    b = b
    long = long
    Prompts <- MCPrompts
    TooLong <- MCTooLong
    Args <- MCArgs
    Rewards = {0, 1}
    MaxParts = 2
    MaxGenerations = 2
SYMMETRY Interchangeable
CHECK_DEADLOCK FALSE
INVARIANTS
    OwnCompletion
    AdvantageOfOwnReward
    BaselineOfOwnPrompt
    ResampledOrOriginal
    EachSampleTrained
    PassesInStep
