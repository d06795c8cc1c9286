SPECIFICATION MCSpec
CONSTANTS
    Devices = {"PDU", "server", "switch"}
    Keys = {"hot"}
    Windows = {"w1"}
    Sessions = {"worker", "api"}
    None = None
    DeviceOf <- MCDeviceOf
    Kind <- MCKind
    Reports <- MCReports
    Feeds <- MCFeeds
    Carriers <- MCCarriers
    Peer <- MCPeer
    Higher <- MCHigher
    Parts <- MCParts
    Suppresses <- MCAll
    NeedsApproval <- MCGated
    FirstTargets <- MCTargets
    Touchable = {}
    Estates <- WideOnly
INVARIANT ShelvedForAReason
