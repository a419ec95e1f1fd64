SPECIFICATION FairSpec
CONSTANTS
    Files <- MCFiles
    BlockSize = 2
    MaxChunk = 3
    QueueSize <- MCQueueSize
    ReadSize = 1
    HandSize = 2
    IntMax = 3
INVARIANTS
    NoAbort
    WindowFits
    BytesInOrder
    DoneMeansStored
PROPERTIES
    ImplementsChunkStream
    Finishes
CHECK_DEADLOCK FALSE
