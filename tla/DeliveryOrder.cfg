SPECIFICATION Spec
CONSTANTS
    SegMax = 3
    Cap = 4
    AgeLimit = TRUE
    FlushCount = 2
    IOErrors = {}
    Crashes = {}
    MaxRecords = 5
    MaxCrashes = 0
    MaxErrors = 0
    Slots <- OneSlot
    NoSlot = NoSlot
    s1 = s1
    s2 = s2
    Faults = {"refuse"}
    MaxStream = 5
INVARIANTS StoredOnce DeliveredInOrder
