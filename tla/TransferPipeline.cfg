SPECIFICATION FairSpec
CONSTANTS
    Capacity <- MCCapacity
    Files <- MCFiles
    FlushSize <- MCFlushSize
INVARIANTS
    RingsInBounds
    WrittenInOrder
    NothingLost
    OkMeansComplete
PROPERTY
    PipelineReturns
CHECK_DEADLOCK FALSE
