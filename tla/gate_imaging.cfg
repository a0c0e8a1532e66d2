\* A session that images: the gate is given back more than once per run.
SPECIFICATION Spec
CONSTANTS
    wipe = wipe
    hexSearch = hexSearch
    Async <- OneAsync
    Sessions <- ImagingSession
    NScans = 2
    NImages = 2
    NSearches = 2
    ScanTicks = 1
    Matches = 2
    QueueCap = 2
INVARIANTS
    Exclusive
