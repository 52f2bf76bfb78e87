SPECIFICATION FairSpec
CONSTANTS
    w1 = w1
    w2 = w2
    Empty = Empty
    Skip = Skip
    None = None
    Words = {Empty, w1, w2}
    Files <- SomeFiles
    Tables <- FewTables
    BatchSize = 2
    MaxFiles = 3
    MaxPresses = 2
INVARIANTS
    KeysMatch
    FoundOpens
    NegativeIsTrue
    OneLineEach
    HandlerComesBack
PROPERTY Terminates
CHECK_DEADLOCK FALSE
