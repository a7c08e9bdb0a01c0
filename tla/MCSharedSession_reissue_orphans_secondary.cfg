\* The primary re-issues its streaming request while the secondary has
\* joined it.
CONSTANTS
    p = p
    s = s
    p1 = p1
    p2 = p2
    s1 = s1
    StreamA = StreamA
    StreamB = StreamB
    Clients <- MCClients
    Primary = p
    Surfaces <- MCSurfaces
    SurfaceOwner <- MCSurfaceOwner
    SurfaceStream <- MCSurfaceStream
    MaxRequestId = 2
    MaxFrameNumber = 2
    ClientCalls = {"submitStreaming", "startStreaming"}
    DeviceFaults = {}
    DeviceErrors = FALSE
SPECIFICATION Spec
INVARIANTS
    StreamingClientsMatched
CHECK_DEADLOCK FALSE
