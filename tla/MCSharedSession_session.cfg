\* A primary and a secondary client with three surfaces on two streams;
\* every call but flush and disconnect, HAL request errors, no failing
\* Camera3Device call.  Behaviours end when the applications have used
\* their request ids and the repeating request its frames: the service then
\* waits for binder calls, so deadlock is not checked.
CONSTANTS
    p = p
    s = s
    p1 = p1
    p2 = p2
    s1 = s1
    StreamA = StreamA
    StreamB = StreamB
    Clients <- MCClients
    Primary = p
    Surfaces <- MCSurfaces
    SurfaceOwner <- MCSurfaceOwner
    SurfaceStream <- MCSurfaceStream
    MaxRequestId = 2
    MaxFrameNumber = 2
    ClientCalls = {"submitStreaming", "submitCapture", "startStreaming", "cancel"}
    DeviceFaults = {}
    DeviceErrors = TRUE
SPECIFICATION Spec
INVARIANTS
    TypeOK
    DeliveryAttributed
    ClientSurfacesStreamed
CHECK_DEADLOCK FALSE
