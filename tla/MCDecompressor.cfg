SPECIFICATION DecompressorSpec
CONSTANTS
    DCTSIZE = 4
    Pictures <- TallPictures
    LineCounts = {1, 3, 8}
    Budgets = {2, 100}
INVARIANT RowsInPicture
CHECK_DEADLOCK FALSE
