SPECIFICATION Spec
CONSTANTS
    Addresses = {a1, a2, a3}
    Timers = {t1, t2}
    MaxDelay = 2
    MaxTasks = 4
    None = None
CHECK_DEADLOCK FALSE
INVARIANTS LoopTypeOK NoFreedTask FreedHandleNeedsTimer ClearedIsSilent StaleOnlyAfterFiring NoTaskLost
PROPERTIES TasksInOrder EveryTaskRuns
