---------------------------- MODULE MCHeicCapture ----------------------------
(***************************************************************************)
(* Model values for HeicCapture.  Two captures are the fewest in which     *)
(* FIFO attribution, the single YUV slot and the single output buffer are  *)
(* shared; a 1x2 grid with two encoder input buffers makes the tiles of    *)
(* one capture interleave with the encoder's return of input buffers.      *)
(***************************************************************************)
EXTENDS HeicCapture

MCFrameNumbers == 1 .. 2
MCGridTiles == 2
MCCodecInputBufferCount == 2
\* Larger than every frame number, so that a timestamp never equals one.
MCTimestampBase == 10

=============================================================================
