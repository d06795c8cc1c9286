SPECIFICATION Spec
CONSTANTS
    SegMax = 1
    Cap = 2
    AgeLimit = TRUE
    FlushCount = 2
    IOErrors = {"clean", "partial", "sync", "rotate"}
    Crashes = {"kill", "power"}
    MaxRecords = 2
    MaxCrashes = 1
    MaxErrors = 1
    Slots <- TwoSlots
    NoSlot = NoSlot
    s1 = s1
    s2 = s2
    Faults = {"refuse", "die", "expire", "timeout"}
    MaxStream = 2
INVARIANTS SegmentsContiguous CommittedIsStored
PROPERTIES AckMeansStored SeqNeverRegresses
SYMMETRY SlotSymmetry
