\* The encoder may report one error.  The worker thread exits with frames
\* still pending, none of them released or reported.  After the error the
\* stream stops.
CONSTANTS
    FrameNumbers <- MCFrameNumbers
    GridTiles <- MCGridTiles
    CodecInputBufferCount <- MCCodecInputBufferCount
    TimestampBase <- MCTimestampBase
    mAppSegmentSupported = TRUE
    FaultSites = {"codecError"}
    MaxFaults = 1
    HalErrors = {}
SPECIFICATION Spec
CHECK_DEADLOCK FALSE
INVARIANTS
    ExitOnlyWhenDrained
