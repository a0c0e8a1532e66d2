\* A second session breaks the chain of the file the first one left.
SPECIFICATION AuditSpec
CONSTANTS
    NSessions = 2
    NEvents = 5
INVARIANTS
    ChainVerifies
