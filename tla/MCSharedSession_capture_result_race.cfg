\* The primary sends captures; no HAL errors.
CONSTANTS
    p = p
    s = s
    p1 = p1
    p2 = p2
    s1 = s1
    StreamA = StreamA
    StreamB = StreamB
    Clients <- MCClients
    Primary = p
    Surfaces <- MCSurfaces1
    SurfaceOwner <- MCSurfaceOwner1
    SurfaceStream <- MCSurfaceStream1
    MaxRequestId = 2
    MaxFrameNumber = 2
    ClientCalls = {"submitCapture"}
    DeviceFaults = {}
    DeviceErrors = FALSE
SPECIFICATION Spec
PROPERTIES
    CaptureResolved
CHECK_DEADLOCK FALSE
