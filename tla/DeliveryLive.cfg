SPECIFICATION FairSpec
CONSTANTS
    SegMax = 9
    Cap = 9
    AgeLimit = FALSE
    FlushCount = 2
    IOErrors = {"clean", "partial", "sync"}
    Crashes = {"kill"}
    MaxRecords = 2
    MaxCrashes = 1
    MaxErrors = 1
    Slots <- TwoSlots
    NoSlot = NoSlot
    s1 = s1
    s2 = s2
    Faults = {}
    MaxStream = 6
INVARIANT NothingSkipped
PROPERTY SpooledIsDelivered
