SPECIFICATION Spec
CONSTANTS
    Workers = {"w1", "w2"}
    None = None
    MaxAttempts = 2
    InboundAttempts = 3
    Transition = TRUE
    Reopens = TRUE
    Desks = {FALSE}
    Faults = {"key"}
    People = {}
    MaxFaults = 2
    MaxTouches = 0
    MaxRows = 1
    MaxEpisodes = 1
INVARIANT AttemptsAreBounded
CHECK_DEADLOCK FALSE
