SPECIFICATION FairFleetSpec
CONSTANTS
    Collectors = {1, 2}
    Endpoints = {"e1", "e2"}
    Pools = {"bms"}
    None = None
    EndpointPool <- MCEndpointPool
    EndpointSite <- MCEndpointSite
    CollectorSites <- MCCollectorSites
    HAPools = {"bms"}
    Weight <- MCWeight
    MaxWeight = 10
    FailoverAfter = 2
    FailbackAfter = 3
    RebalanceMinDelta = 10
    RebalanceMinRatio = 2
    StaleAfter = 1
    Operator = Operator
    FirstFleet = {1, 2}
    FirstPool = "bms"
    LockBusy = TRUE
    OperatorActs = {"drain", "patch", "pin", "freeze", "rebalance"}
    MaxChanges = 0
    MaxOutages = 3

PROPERTY PoolEndsUpPolled
