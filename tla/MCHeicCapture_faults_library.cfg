\* Two captures, 1x2 grid; the main-image buffer or a whole request may
\* fail after the shutter, and one lockNextBuffer or processInputFrame
\* library call fails.
CONSTANTS
    FrameNumbers <- MCFrameNumbers
    GridTiles <- MCGridTiles
    CodecInputBufferCount <- MCCodecInputBufferCount
    TimestampBase <- MCTimestampBase
    mAppSegmentSupported = TRUE
    FaultSites = {"lock", "process"}
    MaxFaults = 1
    HalErrors = {"bufferMain", "requestLate"}
SPECIFICATION Spec
INVARIANTS
    OutputIntegrity
