SPECIFICATION MCSpec
CONSTANTS
    MAX_ALLOC_CHUNK = 16
    SmallHdr = 4
    LargeHdr = 4
    AlignType = 2
    MIN_SLOP = 2
    first_pool_slop <- FirstSlop
    extra_pool_slop <- ExtraSlop
    ManagerSize = 10
    PointerSize = 1
    ControlSize = 4
    Arrays <- TwoArrays
    SmallSizes = {3}
    Heaps = {54}
    Limits = {44}
    RowValues = {1}
    MaxSmall = 1
    Inputs <- MCInputs
    INPUT_BUF_SIZE = 6
    DCTSIZE2 = 2
    HuffLengths = 2
    DETECT_MINAPPEND = 5
    BitBytes = 2
    MaxImages = 2
    Chunks = {1, 2, 5, 1000}
    CoefCount = 20
    MaxCompsInScan = 2
    MaxAhAl = 2
    LumaSplit = 3
    MAX_CORR_BITS = 22
    MaxEOBRUN = 3
    MaxCodeLength = 4
    MaxCoefBits = 4
    Images <- MCJobs
    Frequencies <- MCFrequencies
    MaxSuspends = 1
    Samples = 16
    HistElems <- SmallHist
    BoxElems <- SmallBoxes
    CountLimit = 2
    Dithers <- SmallDithers
    FewestColors = 4
    Wanted = {3, 12, 17}
    EnableSets <- SomeEnabled
    Maps <- SomeMaps
    Pictures <- ColorPictures
    MaxPasses = 2
    Spaces = {"GRAYSCALE", "YCCK"}
    Qualities <- LowQuality
    Settings <- SomeSettings
    Codes = {1}
    McusPerLine <- TwoColumns
    BlockSide = 2
    Wave <- Ones
    Sources <- SomeSources
    Transforms = {"NONE", "FLIP_H", "FLIP_V", "TRANSPOSE", "TRANSVERSE", "ROT_90", "ROT_180", "ROT_270"}
    CopyOptions = {"none", "comments", "all"}
INVARIANTS
    SuspensionHidden
    ImageIsRead
    CodedAndDecoded
    LinesShown
    ColorsMapped
    ImageWritten
    StreamsReadable
    PictureTransformed
PROPERTY MemoryRight
CHECK_DEADLOCK FALSE
