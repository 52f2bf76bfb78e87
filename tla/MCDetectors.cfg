SPECIFICATION MCSpec
CONSTANTS
    Buffers = {b1, b2}
    Null = Null
    Values = {v1, v2}
    Other = Other
    MaxBits = 4
    ImIn = 8
    ImAx = 24
    MaxIter = 4
    IntHalf = 8
    DCTSIZE = 2
    DctScale = 2
    Dct <- Basis
    Sources <- SomeSources
    Modes <- SomeModes
    Rates <- SomeRates
    Unit = 4
    SPLINEN = 4
    ShortMax = 7
    CoefLists <- SomeCoefLists
    Vectors <- SomeVectors
    Transforms = {"spline"}
    MaxPositive = 3
    MaxNegative = 3
    Scales <- SomeScales
    Decimals = 100
INVARIANTS
    HistIsWindow
    ResultTested
    EstimateAligned
    BetaLeast
    NeighboursOnly
    TrainingRight
PROPERTY DetectorReturns
CHECK_DEADLOCK FALSE
