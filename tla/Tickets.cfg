SPECIFICATION FairSpec
CONSTANTS
    Workers = {"w1", "w2"}
    None = None
    MaxAttempts = 2
    InboundAttempts = 2
    Transition = TRUE
    Reopens = TRUE
    Desks = {TRUE, FALSE}
    Faults = {"die", "lost", "refuse", "reject", "storm", "off", "key", "garble", "trip"}
    People = {"decline", "reopen", "delete", "revive"}
    MaxFaults = 1
    MaxTouches = 1
    MaxRows = 2
    MaxEpisodes = 2
INVARIANTS OneHandPerRow RowOpensOneIssue
PROPERTY EveryRowSettles
CHECK_DEADLOCK FALSE
