SPECIFICATION FairSpec
CONSTANTS
    Workers = {"w1", "w2"}
    Entries = {1, 2, 3, 5, 6}
    None = None
    Stream <- MCStream
    Total <- MCTotal
    Width = 16
    MaxGap = 9
    DedupKey <- MCDedupKey
    BatchSize = 2
    CommitsLost = FALSE
    MaxFaults = 1
INVARIANTS NothingDropped StoredBeforeAck RateIsTrue RatesChain EventStoredOnce
PROPERTY EveryEntryAcked
CHECK_DEADLOCK FALSE
