\* A close that fails to write the rest of the last chunk goes unnoticed.
SPECIFICATION ImagingSpec
CONSTANTS
    Sources <- OneSource
    NSectors = 5
    Chunk = 2
    Bad = {}
    MayFail = {"close"}
    NRuns = 1
INVARIANTS
    VerifiedIsWhole
