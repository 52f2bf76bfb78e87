CONSTANTS
    Masks <- MCMasks
    MaxImages = 3
    MaxComments = 2
SPECIFICATION Spec
PROPERTY ImplementsVerdict
INVARIANTS
    DataOwned
    CoefficientsAreOwn
    AppendedIsOwn
    LineTells
CHECK_DEADLOCK FALSE
