SPECIFICATION FairPartitionSpec
CONSTANTS
    SegMax = 9
    Cap = 9
    AgeLimit = FALSE
    FlushCount = 2
    IOErrors = {"clean", "sync"}
    Crashes = {"power"}
    MaxRecords = 5
    MaxCrashes = 2
    MaxErrors = 2
INVARIANT CrashLosesOnlyMemory
PROPERTY MemoryIsFlushed
CHECK_DEADLOCK FALSE
