SPECIFICATION Spec
CONSTANTS
    a = a
    b = b
    c = c
    Nodes <- ThreeNodes
    Adapters <- OnlyScreens
    Policy = "PREFER_QR"
    Lossy = FALSE
    MaxTTL = 1
    CircuitIds = {1}
    Messages <- ToC
    Plans <- CornerPlan
    MaxJoins = 1
    ForeignPackets <- Nobody
    StaleIntervals = 3
    BroadcastMac = BroadcastMac
    NoAdapter = NoAdapter
    Broadcast = Broadcast
    NoMac = NoMac
    NoPacket = NoPacket
    NoMessage = NoMessage
    Ended = Ended
    NoEntry = NoEntry
INVARIANT NoMisdelivery
