SPECIFICATION FairSpec
CONSTANTS
    num_monitores = 2
    time_interv <- const_TwoRates
    MAX_NUM_OF_ENTRIES = 4
    HourLen = 10
    OffsetRange = 40
    StartTime = 20
    MaxTime = 44
    MaxCrashes = 0
    MaxBusy = 2
    LateRange = 16
    OpenFailures = FALSE
    WriteFailures = FALSE
    CardErrors = FALSE
INVARIANTS MonitorTypeOK StampsExact
PROPERTIES InOrder EntriesReachServer
