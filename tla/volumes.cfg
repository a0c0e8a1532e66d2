CONSTANTS
    Arrays <- MCArrays
    MaxFailed = 2
    MaxBad = 1
    MaxRead = 3
    MarkedDuring <- MarkedAny
    Records <- MCRecords
    Saved <- MCSaved
    MergeThreshold = 2
    MaxWindowScan = 3
    EdgeProbe = 1
    MaxEmitted = 6
    Folders <- MCFolders
    Payloads <- MCPayloads
    Wrapping <- MCWrapping
    LogSlots = 4
    LogUpdates = 3
    LogBlocks = 3
    MaxDescriptors = 2
    RawContents <- MCContents
    Signatures <- MCSignatures
    SectorBytes = 2
    ChunkSectors = 2
    SameWindow = 3
    StartWindow = 2
    Needles <- MCNeedles
    MaxHits = 2
    Drives <- MCDrives
    Targets <- MCTargets
    Step = 2
    Sources <- MCSources
    Spans <- MCSpans
    SourceSector = 2
    NWorkers = 2
    MaxSamples = 2
    MaxReads = 2
    MaxUnlocks = 2
    EwfJobs <- MCEwfJobs
    EwfChunk = 2
    EwfBlock = 3
    MaxSection = 6
    WordLimit = 8
    MftVolumes <- MCMftVolumes
    RecordSectors = 2
    NtfsChunk = 8
    FallbackRecords = 6
    MaxDepth = 4
    MaxListed = 2
    MaxStreams = 2
    UnallocCap = 32
    Nearby = 2
    FatDisks <- MCFatDisks
    FatSpan = 2
    FatCap = 3
    FatWord = 32
    RaidSets <- MCRaidSets
    StripeSizes <- Stripes
    DataOffsets <- Reserved
    Region = 2
    SectorWidth = 8
    SampleCap = 4
    FullSamples = 4
    TinySamples = 3
    MirrorFloor = 75
    ParityFloor = 75
SPECIFICATION VolumesSpec
INVARIANTS ReadsAreTrue RedundancyHonoured DedupIsExact ImagesAreTrue RawScanIsExact HexSearchIsExact SurveyIsTrue InputIsTrue EwfReadsBack  DetectionIsTrue
PROPERTIES ReplayRestores
CHECK_DEADLOCK FALSE
