SPECIFICATION Spec
CONSTANTS
    num_monitores = 1
    time_interv <- const_Every
    MAX_NUM_OF_ENTRIES = 4
    HourLen = 1
    OffsetRange = 8
    StartTime = 8
    MaxTime = 16
    MaxCrashes = 0
    MaxBusy = 0
    LateRange = 8
    OpenFailures = FALSE
    WriteFailures = FALSE
    CardErrors = FALSE
INVARIANTS NoStrandedFile
