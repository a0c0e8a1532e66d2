\* Three ranges of four chunks, two workers and a queue of one record, from
\* every checkpoint, in both modes; stops and exceptions at any point.
SPECIFICATION Spec
CONSTANTS
    w1 = w1
    w2 = w2
    Workers <- TwoWorkers
    Lens <- ThreeRanges
    Opens <- ThreeOpens
    Modes <- BothModes
    QueueCap = 1
INVARIANTS
    EachRecordOnce
    NoThreadLeft
    SequentialCheckpoint
PROPERTIES
    CarveEnds
