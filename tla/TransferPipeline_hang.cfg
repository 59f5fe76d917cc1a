SPECIFICATION FairSpec
CONSTANTS
    Capacity <- MCCapacity
    Files <- UnwritableFiles
    FlushSize <- MCFlushSize
PROPERTY
    FailureEndsInstall
CHECK_DEADLOCK FALSE
