SPECIFICATION MtpFairSpec
CONSTANTS
    MaxBufferSize <- MCMaxBufferSize
    MaxWaitCount <- MCMaxWaitCount
    FileSize <- MCFileSize
    MaxPacket <- MCMaxPacket
    MaxRead <- MCMaxRead
    MaxFiles <- MCMaxFiles
    SkipChunk <- MCSkipChunk
INVARIANTS
    MtpTypeOK
    StreamOutlivesThread
    ReadIsExact
PROPERTIES
    ReportIsOfItsInstall
    WholeFileJoinReturns
    OpenFileReturns
    WriteFileReturns
