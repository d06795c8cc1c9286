SPECIFICATION MCSpec
CONSTANTS
    Devices = {"PDU", "server", "switch"}
    Keys = {"pdu", "oob", "trip"}
    Windows = {}
    Sessions = {"worker"}
    None = None
    DeviceOf <- MCDeviceOf
    Kind <- MCKind
    Reports <- MCReports
    Feeds <- RingFeeds
    Carriers <- RingCarriers
    Peer <- MCPeer
    Higher <- MCHigher
    Parts <- MCParts
    Suppresses <- MCAll
    NeedsApproval <- MCGated
    FirstTargets <- MCTargets
    Touchable = {}
    Estates <- RingOnly
INVARIANT ChainEndsAtARoot
