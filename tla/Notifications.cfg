SPECIFICATION FairSpec
CONSTANTS
    Workers = {"w1", "w2"}
    None = None
    Delayed = TRUE
    NotifiesOn = {"alarm_cleared", "alarm_escalated"}
    MaxAttempts = 2
    Faults = {"die", "refuse", "off", "prune"}
    MaxBatch = 3
    MaxFaults = 1
    MaxRows = 4
    MaxEpisodes = 2
INVARIANTS MailInOrder ClearFollowsStart NobodyLeftBelieving
PROPERTY EveryRowSettles
CHECK_DEADLOCK FALSE
