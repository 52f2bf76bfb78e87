SPECIFICATION DiscriminantSpec
CONSTANTS
    Vectors <- OverlappingVectors
    Transforms = {"spline"}
    MaxPositive = 3
    MaxNegative = 6
    Scales <- OneScale
    Decimals = 100
INVARIANT FalsePositivesRare
CHECK_DEADLOCK FALSE
