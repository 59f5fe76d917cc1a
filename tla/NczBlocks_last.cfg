SPECIFICATION Spec
CONSTANTS
    Images <- Even
    BufferSizes <- MCBufferSizes
    FlushSize <- MCFlushSize
INVARIANT
    LastBlockToldApart
