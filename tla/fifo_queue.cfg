SPECIFICATION FairSpec
CONSTANTS
    blank = blank
    red = red
    camera = camera
    camera2 = camera2
    NoImage = NoImage
    Images <- TwoImages
    Producers <- TwoCameras
    MaxSize = 2
    Builds <- Both
    MaxPuts = 4
    MaxClears = 1
INVARIANT TypeOK
INVARIANT Accounting
INVARIANT CaptureOrder
INVARIANT NewestImageKept
INVARIANT DropRateCountsReceived
INVARIANT NoRepeatedImage
PROPERTY IsLossyFifo
PROPERTY PutReturns
