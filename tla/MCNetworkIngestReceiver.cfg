SPECIFICATION Spec
CONSTANTS
    BufferSize = 32
    CountBits = 7
    SizeBits = 14
    Sizes <- MCSizes
    Counts <- MCCounts
    Labels = {0, 1}
    MaxDimensions = 2
    MaxDatagrams = 2
INVARIANT OwnBytesOnly
PROPERTY WholeDatagramsAccepted
CHECK_DEADLOCK FALSE
