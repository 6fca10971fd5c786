SPECIFICATION Spec
CONSTANTS
    Base = baseThread
    Starters = {baseThread, otherThread}
    Workers = 2
    MaxConns = 3
INVARIANTS NoCrash MapTracksConnections WorkersOnly
PROPERTIES ImplementsLife NothingAfterDestroy CloseIsRemoved
CHECK_DEADLOCK FALSE
