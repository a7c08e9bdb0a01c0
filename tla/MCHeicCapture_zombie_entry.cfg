CONSTANTS
    FrameNumbers <- MCFrameNumbers
    GridTiles <- MCGridTiles
    CodecInputBufferCount <- MCCodecInputBufferCount
    TimestampBase <- MCTimestampBase
    mAppSegmentSupported = TRUE
    FaultSites = {"process"}
    MaxFaults = 1
    HalErrors = {}
SPECIFICATION Spec
INVARIANTS
    FrameAttribution
