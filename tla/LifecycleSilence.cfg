CONSTANTS
    MaxContent <- MCMaxContent
    BufferSize <- MCBufferSize
SPECIFICATION FairSpec
INVARIANT NobodyMisledBySilence
