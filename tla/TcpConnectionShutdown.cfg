SPECIFICATION Spec
CONSTANTS
    Threads = {t1}
    MsgLen = 1
    HighWaterMark = 2
    MaxSends = 0
PROPERTY ShutdownReachesSocket
CHECK_DEADLOCK FALSE
