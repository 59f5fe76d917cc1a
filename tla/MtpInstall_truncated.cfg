SPECIFICATION MtpFairSpec
CONSTANTS
    MaxBufferSize <- MCMaxBufferSize
    MaxWaitCount <- MCMaxWaitCount
    FileSize <- MCFileSize
    MaxPacket <- MCMaxPacket
    MaxRead <- MCMaxRead
    MaxFiles <- MCMaxFiles
    SkipChunk <- MCSkipChunk
PROPERTY
    DestructorReturns
