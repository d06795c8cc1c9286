SPECIFICATION Spec
CONSTANTS
    Workers = {"w1", "w2"}
    None = None
    MaxAttempts = 2
    InboundAttempts = 3
    Transition = TRUE
    Reopens = TRUE
    Desks = {TRUE}
    Faults = {"lost", "die", "refuse"}
    People = {}
    MaxFaults = 1
    MaxTouches = 0
    MaxRows = 2
    MaxEpisodes = 1
INVARIANT RetryOpensNoTwin
CHECK_DEADLOCK FALSE
