SPECIFICATION Spec
CONSTANTS
    Threads = {t1}
    MsgLen = 1
    HighWaterMark = 2
    MaxSends = 1
PROPERTY BufferIsFlushed
CHECK_DEADLOCK FALSE
