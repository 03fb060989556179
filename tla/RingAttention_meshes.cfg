\* The layer ends in "done"; RingCompletes is what rules out a standstill.
SPECIFICATION Spec
CONSTANT Args <- MCArgs
INVARIANTS LossOfOwnToken GradientsComeHome
PROPERTIES RingCompletes
CHECK_DEADLOCK FALSE
