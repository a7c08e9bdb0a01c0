\* The main-image buffer of a capture may fail.  Encoder inputs handed to
\* a frame that is then released are never returned to the encoder.
CONSTANTS
    FrameNumbers <- MCFrameNumbers
    GridTiles <- MCGridTiles
    CodecInputBufferCount <- MCCodecInputBufferCount
    TimestampBase <- MCTimestampBase
    mAppSegmentSupported = TRUE
    FaultSites = {}
    MaxFaults = 0
    HalErrors = {"bufferMain"}
SPECIFICATION Spec
INVARIANTS
    CodecInputConservation
