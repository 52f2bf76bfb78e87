CONSTANTS
    CfgFiles <- MCFiles
    Lower <- MCLower
    ListNames = {"rules", "single"}
    Section = "rules"
    Alphabet <- MCAlphabet
    StackChars = {"", "d"}
    RULE_BUFFER_SIZE = 8
    RULE_RANGES_MAX = 2
    RULE_WORD_SIZE = 5
    rules_max_length = 3
    PositionCodes <- MCPositionCodes
    ClassChars <- MCClasses
    UpperName <- MCUpperName
    ConvTables <- MCConvTables
    WordlistWords <- MCWords
    DCTSIZE2 = 4
    NCoeff = 5
    IvSize = 2
    ShortRange = 8
    ltab <- MCltab
    WidthBits = 3
    ByteBits = 2
    JSTEGBYTES = 1
    JSTEGHEADER = 2
    IntRange = 16
    Bases = {b1}
    Images <- MCImages
    OgMax = 7
    MAX_FILES = 1
    Scans <- MCScans
    MaxArgs = 2
    MaxWords = 6
    Pictures <- MCPictures
    HistMax = 6
SPECIFICATION MCSpec
INVARIANTS
    EachRuleOnce
    WordFits
    WrongLineNamed
    SameWalk
    LoadedIsImage
    CoefficientsCompared
CHECK_DEADLOCK FALSE
