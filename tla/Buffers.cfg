SPECIFICATION BuffersSpec
CONSTANTS
    CHEAP_PREPEND = 2
    Zero <- MCZero
    Byte <- MCByte
    INITIALIZE_SIZE = 1
    ExtraSize = 2
    SizeModulus = 64
    Names = {b1, b2}
    Data <- MCData
    MaxLen = 3
    HEADER_LEN = 2
    MIN_LEN = 1
    MAX_LEN = 2
    FrameTypes <- MCFrameTypes
    MaxFrames = 3
INVARIANTS WithinVector StreamIntact FramesInOrder NoFrameLeft
PROPERTY ImplementsQueue
CHECK_DEADLOCK FALSE
SYMMETRY Symmetry
