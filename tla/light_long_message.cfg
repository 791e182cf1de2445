SPECIFICATION FairSpec
CHECK_DEADLOCK FALSE
CONSTANTS
    Left = Left
    Right = Right
    Colors <- Sixteen
    QueueSize = 2
    Messages <- Long
    LastSeq = 1
    Readers <- Both
    OneCaller = TRUE
    Steady = TRUE
    Plans <- OneLong
    MaxStarts = 1
    Blank = Blank
    NoImage = NoImage
    Ended = Ended
    NoFrame = NoFrame
    NoMessage = NoMessage
PROPERTY LongMessagesArrive
