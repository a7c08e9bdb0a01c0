\* One APP segment buffer may have broken markers.  processAppSegment fails
\* the whole capture with NO_INIT instead of dropping only the metadata.
CONSTANTS
    FrameNumbers <- MCFrameNumbers
    GridTiles <- MCGridTiles
    CodecInputBufferCount <- MCCodecInputBufferCount
    TimestampBase <- MCTimestampBase
    mAppSegmentSupported = TRUE
    FaultSites = {"badSegment"}
    MaxFaults = 1
    HalErrors = {}
SPECIFICATION Spec
INVARIANTS
    SegmentErrorScoped
