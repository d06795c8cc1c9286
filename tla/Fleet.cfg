SPECIFICATION FairFleetSpec
CONSTANTS
    Collectors = {1, 2, 3}
    Endpoints = {"e1", "loose"}
    Pools = {"bms"}
    None = None
    EndpointPool <- MCEndpointPool
    EndpointSite <- MCEndpointSite
    CollectorSites <- MCCollectorSites
    HAPools = {"bms"}
    Weight <- MCWeight
    MaxWeight = 10
    FailoverAfter = 2
    FailbackAfter = 2
    RebalanceMinDelta = 10
    RebalanceMinRatio = 2
    StaleAfter = 1
    Operator = Operator
    FirstFleet = {1, 2}
    FirstPool = "bms"
    LockBusy = TRUE
    OperatorActs = {"drain", "patch", "pin", "freeze", "rebalance"}
    MaxChanges = 1
    MaxOutages = 2
INVARIANTS ServedInPlace PolicyKeepsAMember
PROPERTIES NoSnatchBack SilentOwnerReplaced
