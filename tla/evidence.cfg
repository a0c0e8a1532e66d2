\* The log: two sessions that share a file and five events, with clean and
\* unclean ends and torn lines.  Images: four sources that take each other's
\* place, one sector that fails now and then, three runs in chunks of two
\* sectors with stops, deaths and failing file operations.
SPECIFICATION EvidenceSpec
CONSTANTS
    NSessions = 2
    NEvents = 5
    Sources <- MCSources
    NSectors = 5
    Chunk = 2
    Bad = {2}
    MayFail <- AnyFailure
    NRuns = 3
INVARIANTS
    SessionIsOneLog
    PromisedIsKept
    DigestOfImage
PROPERTIES
    ShutdownEnds
    ByteIdentical
    StoppedRunResumes
