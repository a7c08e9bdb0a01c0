\* The main-image buffer of a capture may fail.  The APP segment buffer of
\* a frame released for it is locked when it arrives and never unlocked.
CONSTANTS
    FrameNumbers <- MCFrameNumbers
    GridTiles <- MCGridTiles
    CodecInputBufferCount <- MCCodecInputBufferCount
    TimestampBase <- MCTimestampBase
    mAppSegmentSupported = TRUE
    FaultSites = {}
    MaxFaults = 0
    HalErrors = {"bufferMain"}
SPECIFICATION Spec
INVARIANTS
    BufferAccounting
