SPECIFICATION Spec
CONSTANTS
    DefaultDelay = 1
    MaxDelay = 3
    MaxCalls = 2
INVARIANT DestructionIsSafe
CHECK_DEADLOCK FALSE
