SPECIFICATION FairSpec
CONSTANTS
    NUMBER_OF_TASKS = 3
    MaxPriority = 4
    InstalledPriority <- const_Priority
    TICK_COUNT_OVERFLOW = 3
    NO_TIMEOUT = 6
    EXIT_BY_TIMEOUT = 7
    MaxWait = 3
    MaxNesting = 2
INVARIANTS TypeOK RunsHighest DelayExact DeadlineAhead
PROPERTIES DelayEnds
