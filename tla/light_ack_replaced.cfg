SPECIFICATION FairSpec
CHECK_DEADLOCK FALSE
CONSTANTS
    Left = Left
    Right = Right
    Colors <- Sixteen
    QueueSize = 2
    Messages <- Short
    LastSeq = 0
    Readers <- Nothing
    OneCaller = TRUE
    Steady = TRUE
    Plans <- OneShort
    MaxStarts = 1
    Blank = Blank
    NoImage = NoImage
    Ended = Ended
    NoFrame = NoFrame
    NoMessage = NoMessage
PROPERTY HandshakeCompletes
