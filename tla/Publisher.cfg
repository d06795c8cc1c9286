SPECIFICATION FairSpec
CONSTANTS
    MaxBatch = 2
    RingCap = 2
    Faults <- AllFaults
    MayStop = TRUE
    MaxSamples = 5
    MaxEvents = 2
    MaxPolls = 1
    MaxLost = 1
INVARIANTS TypeOK LossIsCounted BuffersInOrder EventsNeverShed EventsInOrder
PROPERTY EventsDelivered
CHECK_DEADLOCK FALSE
