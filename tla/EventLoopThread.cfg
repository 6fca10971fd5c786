SPECIFICATION ELTSpec
CONSTANTS
    Owner = owner_thread
    Threads = {owner_thread}
    Channels = {c1}
    WakeupChannel = wakeup_channel
    MaxTasks = 2
    InBatchRemoval = FALSE
INVARIANTS LoopUsable ThreadGoneWithOwner
PROPERTIES StartLoopCompletes JoinCompletes
CHECK_DEADLOCK FALSE
