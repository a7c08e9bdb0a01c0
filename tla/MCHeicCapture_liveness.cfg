\* Two captures, 1x2 grid, one encoder input buffer (tiles are encoded one
\* at a time), no library failures and no camera errors.
CONSTANTS
    FrameNumbers <- MCFrameNumbers
    GridTiles <- MCGridTiles
    CodecInputBufferCount = 1
    TimestampBase <- MCTimestampBase
    mAppSegmentSupported = TRUE
    FaultSites = {}
    MaxFaults = 0
    HalErrors = {}
SPECIFICATION Spec
PROPERTIES
    FrameEventuallyResolved
    TrackerEventuallyIdle
