SPECIFICATION PartitionSpec
CONSTANTS
    SegMax = 3
    Cap = 4
    AgeLimit = TRUE
    FlushCount = 3
    IOErrors = {"clean", "partial", "sync", "rotate"}
    Crashes = {"kill", "power"}
    MaxRecords = 5
    MaxCrashes = 2
    MaxErrors = 1
INVARIANTS PartitionTypeOK SegmentsContiguous SeqsIncreaseInSegment SeqsIncrease SegmentsBounded
PROPERTY FlushRestoresBudget
CHECK_DEADLOCK FALSE
