CONSTANTS
    Keys = {1, 2}
    Names = {"infix", "prefix"}
    PageSize = 1
    ChunkRows = 2
    Sessions <- MCSessions
    Volumes <- MCVolumes
    Queries <- MCQueries
    ChunkBytes = 2
    MinOverlap = 2
    MaxQuery = 4
    MaxRegex = 2
    FlushBatch = 2
    MaxSearches = 2
SPECIFICATION MCSpec
INVARIANTS PagesLeaveNoGap ExportIsSnapshot IndexMirrorsRows CompleteIsTrue
PROPERTIES SearchEnds
CHECK_DEADLOCK FALSE
