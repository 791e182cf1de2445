SPECIFICATION ImageSpec
CHECK_DEADLOCK FALSE
CONSTANTS
    Depths = {1, 2, 3, 4}
    MaxLength = 300
    Bytes = {0, 1, 90, 128, 255}
    MaxFrame = 4
    LinkFrameSet <- LinkFramesSent
    DrawnFrame <- Lamp
    Worlds <- Around
    NoLinkFrame = NoLinkFrame
    NoWorld = NoWorld
INVARIANT FragmentsFit
INVARIANT FrameSurvives
INVARIANT RoundTrip
INVARIANT SameBits
INVARIANT StoredAsSent
INVARIANT DamageNeverStored
INVARIANT UntouchedImageReads
INVARIANT SettledEndsRead
