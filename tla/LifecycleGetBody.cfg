CONSTANTS
    MaxContent <- MCMaxContent
    BufferSize <- MCBufferSize
SPECIFICATION FairSpec
PROPERTY EveryRequestEnds
