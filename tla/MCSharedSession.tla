--------------------------- MODULE MCSharedSession ---------------------------
(***************************************************************************)
(* Model values for SharedSession: a primary and a secondary client; the   *)
(* primary has a surface on each of two shared streams and the secondary   *)
(* one on the first, so that a stream carries surfaces of both clients and *)
(* the primary can re-issue its streaming request with other surfaces.     *)
(***************************************************************************)
EXTENDS SharedSession

CONSTANTS p, s, p1, p2, s1, StreamA, StreamB

MCClients == {p, s}
MCSurfaces == {p1, p2, s1}
MCSurfaceOwner == (p1 :> p) @@ (p2 :> p) @@ (s1 :> s)
MCSurfaceStream == (p1 :> StreamA) @@ (p2 :> StreamB) @@ (s1 :> StreamA)

\* One surface per client, both on the first stream.
MCSurfaces1 == {p1, s1}
MCSurfaceOwner1 == (p1 :> p) @@ (s1 :> s)
MCSurfaceStream1 == (p1 :> StreamA) @@ (s1 :> StreamA)

\* startStreaming appends the joining client's surfaces to the repeating
\* request's vectors and detachDevice does not remove them, so a client that
\* reconnects and joins again grows them without limit.  Behaviours are cut
\* where a vector would pass this length.
MaxSurfaceVector == 2

SurfaceVectorBound ==
    \A k \in DOMAIN repeating.surfaces : Len(repeating.surfaces[k]) <= MaxSurfaceVector
=============================================================================
