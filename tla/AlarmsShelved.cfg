SPECIFICATION MCSpec
CONSTANTS
    Devices = {"PDU", "server", "switch"}
    Keys = {"port", "nic"}
    Windows = {"w1"}
    Sessions = {"worker"}
    None = None
    DeviceOf <- MCDeviceOf
    Kind <- MCKind
    Reports <- MCReports
    Feeds <- MCFeeds
    Carriers <- MCCarriers
    Peer <- MCPeer
    Higher <- MCHigher
    Parts <- MCParts
    Suppresses <- MCAll
    NeedsApproval <- MCGated
    FirstTargets <- MCTargets
    Touchable = {}
    Estates <- WideOnly
INVARIANT RedIsListed
