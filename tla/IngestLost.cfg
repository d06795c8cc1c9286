SPECIFICATION Spec
CONSTANTS
    Workers = {"w1", "w2"}
    Entries = {1, 2, 3, 4}
    None = None
    Stream <- MCStream
    Total <- MCTotal
    Width = 16
    MaxGap = 9
    DedupKey <- MCDedupKey
    BatchSize = 2
    CommitsLost = FALSE
    MaxFaults = 1
INVARIANT EventNotLost
CHECK_DEADLOCK FALSE
