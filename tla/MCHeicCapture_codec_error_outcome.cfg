\* The encoder may report one error.  A frame already queued to the output
\* surface is reported through notifyError as well.  After the error the
\* worker thread returns false and the stream stops.
CONSTANTS
    FrameNumbers <- MCFrameNumbers
    GridTiles <- MCGridTiles
    CodecInputBufferCount <- MCCodecInputBufferCount
    TimestampBase <- MCTimestampBase
    mAppSegmentSupported = TRUE
    FaultSites = {"codecError"}
    MaxFaults = 1
    HalErrors = {}
SPECIFICATION Spec
CHECK_DEADLOCK FALSE
INVARIANTS
    SingleOutcome
