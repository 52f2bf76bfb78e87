CONSTANTS
    Masks <- MCMasks
    MaxImages = 1
    MaxComments = 2
SPECIFICATION Spec
INVARIANT NegativeIfComments
CHECK_DEADLOCK FALSE
