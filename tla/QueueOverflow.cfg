SPECIFICATION MessagesSpec
CONSTANTS
    NUMBER_OF_TASKS = 2
    MaxPriority = 2
    InstalledPriority <- const_Priority
    TICK_COUNT_OVERFLOW = 1
    NO_TIMEOUT = 4
    EXIT_BY_TIMEOUT = 5
    MaxWait = 1
    MaxNesting = 1
    MaxEvents = 2
    DeleteInUse = FALSE
    BRTOS_MAX_QUEUE = 1
    QUEUE_HEAP_SIZE = 2
    QueueSizes = {1}
    OS_CPU_BYTES = 2
    Message = {"a", "b"}
    Blank = "blank"
    EntriesModulus = 4
    Reader <- const_Reader
    ReaderKeepsUp = FALSE
    Mbox = {2}
    MboxReader <- const_MboxReader
    Mail = {"a", "b"}
    NoMail = "null"
INVARIANTS EntriesFit
