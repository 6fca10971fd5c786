SPECIFICATION Spec
CONSTANTS
    Threads = {t1, t2}
    MsgLen = 2
    HighWaterMark = 3
    MaxSends = 2
INVARIANTS StreamIntegrity NoAbort CallbackOrder
PROPERTIES CloseIsReported HighWaterReported
CHECK_DEADLOCK FALSE
