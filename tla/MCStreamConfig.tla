--------------------------- MODULE MCStreamConfig ---------------------------
(* Instantiation of StreamConfig for TLC: two clients of one camera, two   *)
(* surfaces of client c1 that a surface-shared configuration can hold      *)
(* together, a HEIC surface of c1 and a surface of c2.                     *)
EXTENDS StreamConfig

CONSTANTS c1, c2, a1, a2, h1, b1

MCClients == {c1, c2}
MCSurfaces == {a1, a2, h1, b1}
MCOwner == (a1 :> c1) @@ (a2 :> c1) @@ (h1 :> c1) @@ (b1 :> c2)
MCHeicSurfaces == {h1}

\* a1 and a2 have the same stream info, so one configuration can hold
\* both; h1 and b1 share another.  The shared session configures one
\* stream for the info of h1 and b1, which both clients then share.
MCInfoOf == (a1 :> 1) @@ (a2 :> 1) @@ (h1 :> 2) @@ (b1 :> 2)
MCSharedConfigs == <<2>>

\* A shared session that also configures a stream for the info of a1 and
\* a2, so that one createStream attaches two surfaces to a shared stream.
MCSharedConfigsBoth == <<1, 2>>
=============================================================================
