\* Both clients with all three surfaces make every call, flush, disconnect
\* and reconnect included; every Camera3Device call that can fail fails, and
\* the HAL fails requests.  One request id per client and one shared id per
\* device between reconnects.  A client can always disconnect or reconnect,
\* so no state is final.
CONSTANTS
    p = p
    s = s
    p1 = p1
    p2 = p2
    s1 = s1
    StreamA = StreamA
    StreamB = StreamB
    Clients <- MCClients
    Primary = p
    Surfaces <- MCSurfaces
    SurfaceOwner <- MCSurfaceOwner
    SurfaceStream <- MCSurfaceStream
    MaxRequestId = 1
    MaxFrameNumber = 2
    ClientCalls = {"submitStreaming", "submitCapture", "startStreaming", "cancel", "flush", "disconnect"}
    DeviceFaults = {"setStreamingRequestList", "captureList", "createDefaultRequest"}
    DeviceErrors = TRUE
SPECIFICATION Spec
CONSTRAINT SurfaceVectorBound
INVARIANTS
    ClientSurfacesStreamed
