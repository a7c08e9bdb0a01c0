\* Two captures, 1x2 grid, no library failures; the camera device may drop
\* an APP segment buffer, fail a result, or fail a request before its
\* shutter.
CONSTANTS
    FrameNumbers <- MCFrameNumbers
    GridTiles <- MCGridTiles
    CodecInputBufferCount <- MCCodecInputBufferCount
    TimestampBase <- MCTimestampBase
    mAppSegmentSupported = TRUE
    FaultSites = {}
    MaxFaults = 0
    HalErrors = {"bufferAppSegment", "result", "requestEarly"}
SPECIFICATION Spec
INVARIANTS
    TypeOK
    FrameAttribution
    OutputIntegrity
    BufferAccounting
    CodecInputConservation
