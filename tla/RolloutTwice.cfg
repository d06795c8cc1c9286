SPECIFICATION Spec
CONSTANTS
    Collectors = {1, 2}
    Endpoints = {"e1"}
    Pools = {"bms"}
    None = None
    EndpointPool <- MCEndpointPool
    EndpointSite <- MCEndpointSite
    CollectorSites <- MCCollectorSites
    HAPools = {}
    Weight <- MCWeight
    MaxWeight = 10
    FailoverAfter = 1
    FailbackAfter = 0
    RebalanceMinDelta = 10
    RebalanceMinRatio = 2
    StaleAfter = 2
    Operator = "operator"
    FirstFleet = {1, 2}
    FirstPool = "bms"
    LockBusy = FALSE
    OperatorActs = {"drain"}
    MaxChanges = 0
    MaxOutages = 0
    Rollouts = {"r1", "r2"}
    RolloutPools <- MCRolloutPools
    TargetOf <- MCTargetOf
    OldVersion = "v1"
    SettleTicks = 1
    HandoffTicks = 1
    CommandTimeout = 1
    MayCancel = TRUE
    CancelDuringTick = FALSE
    MayFail = FALSE
    MayBreak = FALSE
INVARIANT OneAtATime
