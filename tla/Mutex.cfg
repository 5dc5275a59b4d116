SPECIFICATION MutexSpec
CONSTANTS
    NUMBER_OF_TASKS = 3
    MaxPriority = 5
    InstalledPriority <- const_Priority
    TICK_COUNT_OVERFLOW = 2
    NO_TIMEOUT = 4
    EXIT_BY_TIMEOUT = 5
    MaxWait = 1
    MaxNesting = 0
    BRTOS_MAX_MUTEX = 2
    Ceilings = {3, 5}
    LifoRelease = TRUE
INVARIANTS MutexTypeOK MutualExclusion BusyHasOneUser PriorityIsCeiling
    SchedulesATask NoTaskLost
