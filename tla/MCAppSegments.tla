--------------------------- MODULE MCAppSegments ---------------------------
EXTENDS AppSegments

\* Lengths 0..2 (one byte each side of the two-byte minimum), 12 (a jump
\* from the data bytes past the header), APP1, the APPn bounds E2 and EF,
\* F0 just above them, and FF.
MCBytes == {0, 1, 2, 12, 225, 226, 239, 240, 255}

\* The HAL's blobId: JPEG_APP_SEGMENTS or another CameraBlobId.
MCBlobIds == {JPEG_APP_SEGMENTS, 0}

=============================================================================
