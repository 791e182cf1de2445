SPECIFICATION FairSpec
CONSTANTS
    a = a
    b = b
    c = c
    Nodes <- TwoNodes
    Adapters <- OnlyScreens
    Policy = "PREFER_QR"
    Lossy = FALSE
    MaxTTL = 1
    CircuitIds = {0, 1}
    Messages <- Talk
    Plans <- Traffic
    MaxJoins = 1
    ForeignPackets <- Costs
    StaleIntervals = 1
    BroadcastMac = BroadcastMac
    NoAdapter = NoAdapter
    Broadcast = Broadcast
    NoMac = NoMac
    NoPacket = NoPacket
    NoMessage = NoMessage
    Ended = Ended
    NoEntry = NoEntry
INVARIANT TypeOK
INVARIANT SentIsKept
PROPERTY SentIsDelivered
PROPERTY DataLeavesAir
PROPERTY BestCostWins
