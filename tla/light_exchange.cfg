SPECIFICATION FairSpec
CHECK_DEADLOCK FALSE
CONSTANTS
    Left = Left
    Right = Right
    Colors <- Sixteen
    QueueSize = 2
    Messages <- All
    LastSeq = 1
    Readers <- Both
    OneCaller = TRUE
    Steady = TRUE
    Plans <- Exchange
    MaxStarts = 2
    Blank = Blank
    NoImage = NoImage
    Ended = Ended
    NoFrame = NoFrame
    NoMessage = NoMessage
INVARIANT TypeOK
INVARIANT TrueIsMutual
INVARIANT RepeatsExplained
PROPERTY ShortMessagesArrive
