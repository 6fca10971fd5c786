SPECIFICATION ELTSpec
CONSTANTS
    Owner = owner_thread
    Threads = {owner_thread}
    Channels = {c1}
    WakeupChannel = wakeup_channel
    MaxTasks = 1
    InBatchRemoval = FALSE
PROPERTY DestructorCompletes
CHECK_DEADLOCK FALSE
