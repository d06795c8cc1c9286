SPECIFICATION Spec
CONSTANTS
    SegMax = 9
    Cap = 9
    AgeLimit = FALSE
    FlushCount = 2
    IOErrors = {}
    Crashes = {}
    MaxRecords = 2
    MaxCrashes = 0
    MaxErrors = 0
    Slots <- OneSlot
    NoSlot = NoSlot
    s1 = s1
    s2 = s2
    Faults = {"refuse"}
    MaxStream = 4
INVARIANT NothingSkipped
