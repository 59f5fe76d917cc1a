SPECIFICATION FairSpec
CONSTANTS
    MaxBufferSize <- MCMaxBufferSize
    MaxWaitCount <- MCMaxWaitCount
    FileSize <- MCFileSize
    MaxPacket <- MCMaxPacket
    MaxRead <- MCMaxRead
INVARIANTS
    TypeOK
    InOrder
    NoLossWhileActive
    NoLostWakeup
    EofMeansAllTaken
PROPERTIES
    PipeSpec
    ReadChunkReturns
    PushReturns
