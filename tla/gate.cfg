\* An orderly session, one with imaging and refused scans, one with searches
\* that are stopped; a search can overflow its callback queue.
SPECIFICATION Spec
CONSTANTS
    wipe = wipe
    hexSearch = hexSearch
    Async <- TwoAsync
    Sessions <- GateSessions
    NScans = 3
    NImages = 2
    NSearches = 2
    ScanTicks = 1
    Matches = 2
    QueueCap = 2
INVARIANTS
    TypeOK
    GateOwned
PROPERTIES
    DiskIsSerial
    NoLiveScanDropped
    EachUseEnds
