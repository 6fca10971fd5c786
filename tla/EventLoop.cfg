SPECIFICATION FairSpec
CONSTANTS
    Threads = {t1, t2}
    Channels = {c1, c2}
    WakeupChannel = wakeup_channel
    MaxTasks = 3
    InBatchRemoval = FALSE
INVARIANTS TasksInOrder NoLostWakeup NoLostQuit
PROPERTIES ImplementsExecutor TasksEventuallyRun QuitEndsLoop
