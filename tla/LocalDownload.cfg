CONSTANTS
    MaxWrites <- MCMaxWrites
    MaxChunk <- MCMaxChunk
    MaxLength <- MCMaxLength
    BufferSize <- MCBufferSize
SPECIFICATION FairDownloadSpec
INVARIANTS
    DownloadTypeOK
    EofMeansComplete
    ErrorsHaveCauses
PROPERTIES
    ImplementsDelivery
    HandlerReleased
    DownloadEnds
