SPECIFICATION PartitionSpec
CONSTANTS
    SegMax = 9
    Cap = 9
    AgeLimit = FALSE
    FlushCount = 2
    IOErrors = {}
    Crashes = {"kill"}
    MaxRecords = 3
    MaxCrashes = 1
    MaxErrors = 0
INVARIANT CrashLosesOnlyMemory
CHECK_DEADLOCK FALSE
