SPECIFICATION Spec
CONSTANTS
    w1 = w1
    w2 = w2
    Empty = Empty
    Skip = Skip
    None = None
    Words = {Empty, w1, w2}
    Files <- SomeFiles
    Tables <- FewTables
    BatchSize = 1
    MaxFiles = 2
    MaxPresses = 2
INVARIANT FirstCtrlCIsStatus
CHECK_DEADLOCK FALSE
