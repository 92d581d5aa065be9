CONSTANTS
    MaxContent <- MCMaxContent
    BufferSize <- MCBufferSize
SPECIFICATION FairSpec
INVARIANTS
    TypeOK
    NoSilentTruncation
    LogTellsTruth
PROPERTIES
    ImplementsDelivery
    DeadlineSparesTransfers
    ReadingBounded
