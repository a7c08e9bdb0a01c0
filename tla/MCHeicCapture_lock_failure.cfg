\* One lockNextBuffer call may fail.  The failure is recorded against an
\* entry keyed by the buffer timestamp, not by a frame number.
CONSTANTS
    FrameNumbers <- MCFrameNumbers
    GridTiles <- MCGridTiles
    CodecInputBufferCount <- MCCodecInputBufferCount
    TimestampBase <- MCTimestampBase
    mAppSegmentSupported = TRUE
    FaultSites = {"lock"}
    MaxFaults = 1
    HalErrors = {}
SPECIFICATION Spec
INVARIANTS
    FrameAttribution
