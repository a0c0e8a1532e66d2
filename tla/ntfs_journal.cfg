CONSTANTS
    MftVolumes <- MCMftVolumes
    RecordSectors = 2
    NtfsChunk = 8
    FallbackRecords = 6
    MaxDepth = 4
    MaxListed = 2
    MaxStreams = 2
    UnallocCap = 32
    Nearby = 2
SPECIFICATION NtfsSpec
INVARIANTS JournalOnce
CHECK_DEADLOCK FALSE
