CONSTANTS
    Records <- MCRecords
    Requests <- MCRequests
    Existing <- MCExisting
    ReadChunk = 2
    InflateCap = 3
    MaxSuffix = 3
    DestMayFill = FALSE
    NScans = 2
    NImages = 2
    NSleeps = 2
    Platforms = {TRUE, FALSE}
    DatabaseFails = FALSE
SPECIFICATION MCSpec
INVARIANTS ReportIsTrue NothingOverwritten RunningScanIsLive QuitStopsAll
PROPERTIES ScanLiveSettles
CHECK_DEADLOCK FALSE
