\* The secondary cancels while the primary keeps the repeating request.
CONSTANTS
    p = p
    s = s
    p1 = p1
    p2 = p2
    s1 = s1
    StreamA = StreamA
    StreamB = StreamB
    Clients <- MCClients
    Primary = p
    Surfaces <- MCSurfaces1
    SurfaceOwner <- MCSurfaceOwner1
    SurfaceStream <- MCSurfaceStream1
    MaxRequestId = 2
    MaxFrameNumber = 2
    ClientCalls = {"submitStreaming", "startStreaming", "cancel"}
    DeviceFaults = {}
    DeviceErrors = FALSE
SPECIFICATION Spec
INVARIANTS
    CancelledStreamBounded
CHECK_DEADLOCK FALSE
