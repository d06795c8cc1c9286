SPECIFICATION Spec
CONSTANTS
    Wheels = {"poll", "avail"}
    Endpoints <- OneEndpoint
    Targets = {t1, t2}
    None = None
    JobIds = {j1, j2, j3}
    Units = 2
    Interval = 2
    Cap <- OneEach
    Gap <- HalfSecond
    Workers = 1
    QueueSize = 1
    HostCap = 1
    MayMove = TRUE
    MayLeave = TRUE
    MaxChanges = 2
    MaxReleasing = 1
    e1 = e1
    e2 = e2
    e3 = e3
    t1 = t1
    t2 = t2
    j1 = j1
    j2 = j2
    j3 = j3
INVARIANTS SlotsBalanced PollsWithinLimit
SYMMETRY JobSymmetry
