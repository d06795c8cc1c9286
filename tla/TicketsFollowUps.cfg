SPECIFICATION Spec
CONSTANTS
    Workers = {"w1"}
    None = None
    MaxAttempts = 2
    InboundAttempts = 3
    Transition = FALSE
    Reopens = TRUE
    Desks = {FALSE}
    Faults = {}
    People = {"decline"}
    MaxFaults = 1
    MaxTouches = 1
    MaxRows = 4
    MaxEpisodes = 2
PROPERTY FollowUpsGoOut
CHECK_DEADLOCK FALSE
