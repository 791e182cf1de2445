SPECIFICATION FairSpec
CONSTANTS
    a = a
    b = b
    c = c
    Nodes <- TwoNodes
    Adapters <- OnlyScreens
    Policy = "PREFER_QR"
    Lossy = FALSE
    MaxTTL = 1
    CircuitIds = {1}
    Messages <- Nobody
    Plans <- Trouble
    MaxJoins = 2
    ForeignPackets <- Nobody
    StaleIntervals = 3
    BroadcastMac = BroadcastMac
    NoAdapter = NoAdapter
    Broadcast = Broadcast
    NoMac = NoMac
    NoPacket = NoPacket
    NoMessage = NoMessage
    Ended = Ended
    NoEntry = NoEntry
INVARIANT StaleEntriesPurged
PROPERTY GhostsForgotten
PROPERTY LiveRouteKept
PROPERTY LiveNodesKnown
