SPECIFICATION SemSpec
CONSTANTS
    NUMBER_OF_TASKS = 3
    MaxPriority = 3
    InstalledPriority <- const_Priority
    TICK_COUNT_OVERFLOW = 3
    NO_TIMEOUT = 4
    EXIT_BY_TIMEOUT = 5
    MaxWait = 2
    MaxNesting = 1
    MaxEvents = 1
    MaxSemCount = 2
    MaxCreateCount = 1
    DeleteInUse = FALSE
INVARIANTS SemTypeOK WaitCountExact NoWaitWithPermits WaitListExact
    NoTaskLost PermitsConserved ListedWhileTimed
PROPERTIES OkMeansPost NoEarlyTimeout
