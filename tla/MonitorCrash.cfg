SPECIFICATION Spec
CONSTANTS
    num_monitores = 1
    time_interv <- const_Every
    MAX_NUM_OF_ENTRIES = 5
    HourLen = 2
    OffsetRange = 8
    StartTime = 8
    MaxTime = 14
    MaxCrashes = 2
    MaxBusy = 1
    LateRange = 8
    OpenFailures = TRUE
    WriteFailures = FALSE
    CardErrors = FALSE
INVARIANTS ConfirmedWasReceived IndexesInFile
PROPERTIES NothingErased
