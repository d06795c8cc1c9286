SPECIFICATION Spec
CONSTANTS
    Workers = {"w1", "w2"}
    None = None
    MaxAttempts = 2
    InboundAttempts = 3
    Transition = FALSE
    Reopens = TRUE
    Desks = {FALSE}
    Faults = {}
    People = {"done", "reopen"}
    MaxFaults = 1
    MaxTouches = 2
    MaxRows = 4
    MaxEpisodes = 2
INVARIANT LinkAgrees
CHECK_DEADLOCK FALSE
