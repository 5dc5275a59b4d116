SPECIFICATION Spec
CONSTANTS
    num_monitores = 1
    time_interv <- const_Every
    MAX_NUM_OF_ENTRIES = 4
    HourLen = 1
    OffsetRange = 8
    StartTime = 8
    MaxTime = 11
    MaxCrashes = 2
    MaxBusy = 0
    LateRange = 8
    OpenFailures = FALSE
    WriteFailures = TRUE
    CardErrors = TRUE
INVARIANT NamesOnDisk
