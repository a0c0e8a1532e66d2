\* Every kind of scan, started or resumed three times, with stops, failing
\* batches, failing parsers and deaths between any two steps.
SPECIFICATION Spec
CONSTANTS
    Kinds <- AllKinds
    NMeta = 2
    NCarve = 3
    RangeEnds <- TwoRanges
    BufferCap = 2
    NRuns = 3
INVARIANTS
    NothingLost
    MetadataFirst
PROPERTIES
    ScanSettles
