SPECIFICATION Spec
CONSTANTS
    Workers = {"w1", "w2"}
    None = None
    MaxAttempts = 2
    InboundAttempts = 3
    Transition = TRUE
    Reopens = TRUE
    Desks = {FALSE}
    Faults = {}
    People = {}
    MaxFaults = 1
    MaxTouches = 0
    MaxRows = 4
    MaxEpisodes = 2
INVARIANT AckIsADecision
CHECK_DEADLOCK FALSE
