\* Two captures, 1x2 grid; one asynchronous failure: an encoder error or a
\* malformed APP segment buffer.  After an encoder error the worker thread
\* returns false and the stream stops.
CONSTANTS
    FrameNumbers <- MCFrameNumbers
    GridTiles <- MCGridTiles
    CodecInputBufferCount <- MCCodecInputBufferCount
    TimestampBase <- MCTimestampBase
    mAppSegmentSupported = TRUE
    FaultSites = {"codecError", "badSegment"}
    MaxFaults = 1
    HalErrors = {}
SPECIFICATION Spec
CHECK_DEADLOCK FALSE
INVARIANTS
    OutputIntegrity
