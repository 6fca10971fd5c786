SPECIFICATION Spec
CONSTANTS
    TimePoints = {0, 1, 2}
    Intervals = {0, 1}
    MaxTime = 3
    MaxTimers = 3
    MaxCancels = 1
INVARIANTS OneEntryPerTimer ArmedForEarliest OneShotFiresOnce
PROPERTIES CancelIsFinal TimersFire
CHECK_DEADLOCK FALSE
