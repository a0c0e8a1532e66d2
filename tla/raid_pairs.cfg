\* Four disks in pairs, of five regions where four samples are taken.
SPECIFICATION DetectSpec
CONSTANTS
    Arrays = {}
    MaxFailed = 0
    MaxBad = 0
    MaxRead = 1
    MarkedDuring = {}
    RaidSets <- LongPairs
    StripeSizes <- Stripes
    DataOffsets <- Reserved
    Region = 2
    SectorWidth = 8
    SampleCap = 4
    FullSamples = 4
    TinySamples = 3
    MirrorFloor = 75
    ParityFloor = 75
INVARIANT
    PairsAreNoParity
CHECK_DEADLOCK FALSE
