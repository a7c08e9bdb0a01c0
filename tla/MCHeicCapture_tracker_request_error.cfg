\* Requests may fail before their shutter.  When onRequestError removes the
\* last pending setting, nothing marks the stream idle.
CONSTANTS
    FrameNumbers <- MCFrameNumbers
    GridTiles <- MCGridTiles
    CodecInputBufferCount <- MCCodecInputBufferCount
    TimestampBase <- MCTimestampBase
    mAppSegmentSupported = TRUE
    FaultSites = {}
    MaxFaults = 0
    HalErrors = {"requestEarly"}
SPECIFICATION Spec
PROPERTIES
    TrackerEventuallyIdle
