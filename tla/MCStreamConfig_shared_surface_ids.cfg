CONSTANTS
    c1 = c1  c2 = c2  a1 = a1  a2 = a2  h1 = h1  b1 = b1
    Opaque = Opaque  Internal = Internal
    Clients <- MCClients
    Surfaces <- MCSurfaces
    Owner <- MCOwner
    HeicSurfaces <- MCHeicSurfaces
    InfoOf <- MCInfoOf
    SharedConfigs <- MCSharedConfigsBoth
    MaxStreams = 3
    MaxConfigSurfaces = 2
    CompositeFaults = TRUE
    Modes = {TRUE}
SPECIFICATION Spec
INVARIANT ClientMatchesDevice
CHECK_DEADLOCK FALSE
