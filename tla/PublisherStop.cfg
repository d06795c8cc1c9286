SPECIFICATION Spec
CONSTANTS
    MaxBatch = 2
    RingCap = 3
    Faults <- NoFaults
    MayStop = TRUE
    MaxSamples = 3
    MaxEvents = 1
    MaxPolls = 1
    MaxLost = 1
INVARIANT FlushFollowsPolls
CHECK_DEADLOCK FALSE
