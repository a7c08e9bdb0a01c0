\* A primary and a secondary client with one surface each on a shared
\* stream; every call but flush and disconnect, and every Camera3Device
\* call that can fail fails.  Behaviours end when the applications have
\* used their request ids: the service then waits for binder calls.
CONSTANTS
    p = p
    s = s
    p1 = p1
    p2 = p2
    s1 = s1
    StreamA = StreamA
    StreamB = StreamB
    Clients <- MCClients
    Primary = p
    Surfaces <- MCSurfaces1
    SurfaceOwner <- MCSurfaceOwner1
    SurfaceStream <- MCSurfaceStream1
    MaxRequestId = 2
    MaxFrameNumber = 2
    ClientCalls = {"submitStreaming", "submitCapture", "startStreaming", "cancel"}
    DeviceFaults = {"setStreamingRequestList", "captureList", "createDefaultRequest"}
    DeviceErrors = FALSE
SPECIFICATION Spec
INVARIANTS
    ClientSurfacesStreamed
CHECK_DEADLOCK FALSE
