SPECIFICATION MCSpec
CONSTANTS
    Devices = {"PDU", "server", "switch"}
    Keys = {"trip", "srv", "port", "nic", "hot", "hotter", "stale", "boot", "flap", "hotcpu", "oob"}
    Windows = {"w1", "gated"}
    Sessions = {"worker"}
    None = None
    DeviceOf <- MCDeviceOf
    Kind <- MCKind
    Reports <- MCReports
    Feeds <- MCFeeds
    Carriers <- MCCarriers
    Peer <- MCPeer
    Higher <- MCHigher
    Parts <- MCParts
    Suppresses <- MCAll
    NeedsApproval <- MCGated
    FirstTargets <- MCTargets
    Touchable = {"srv", "server", "gated"}
    Estates <- All
INVARIANTS RollUpIsCurrent ShelvedForAReason ChainEndsAtARoot
PROPERTY HeldIsReleased
