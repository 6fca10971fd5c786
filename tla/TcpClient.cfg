SPECIFICATION Spec
CONSTANTS
    DefaultDelay = 1
    MaxDelay = 3
    MaxCalls = 4
INVARIANTS OneAttempt TracksConnection NoCrash
PROPERTIES StopIsFinal ImplementsLife WishFulfilled
CHECK_DEADLOCK FALSE
