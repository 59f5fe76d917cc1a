SPECIFICATION Spec
CONSTANTS
    Images <- SoundImages
    BufferSizes <- MCBufferSizes
    FlushSize <- MCFlushSize
INVARIANTS
    UnitsInOrder
    KeyStreamInStep
    Restored
