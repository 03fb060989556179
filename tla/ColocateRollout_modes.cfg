\* Training ends at max_steps; RolloutEnds is what rules out a hang.
SPECIFICATION Spec
CONSTANTS
    Groups = 2
    Args <- MCArgs
INVARIANTS
    SampledByCurrentPolicy OneTenant OwnDialogue DistinctSeeds
PROPERTIES RolloutEnds
CHECK_DEADLOCK FALSE
