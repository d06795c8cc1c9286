SPECIFICATION FairSpec
CONSTANTS
    Wheels = {"poll"}
    Endpoints <- ThreeEndpoints
    Targets = {t1}
    None = None
    JobIds = {j1, j2, j3}
    Units = 2
    Interval = 1
    Cap <- NoLimit
    Gap <- HalfSecond
    Workers = 1
    QueueSize = 3
    HostCap = 1
    MayMove = FALSE
    MayLeave = FALSE
    MaxChanges = 0
    MaxReleasing = 1
    e1 = e1
    e2 = e2
    e3 = e3
    t1 = t1
    t2 = t2
    j1 = j1
    j2 = j2
    j3 = j3
PROPERTIES DeferredIsAdmitted KeepsPolling
