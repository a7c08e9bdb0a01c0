---------------------------- MODULE AppSegments ----------------------------
(***************************************************************************)
(* HeicCompositeStream::findAppSegmentsSize: the validation of the JPEG    *)
(* APP segments blob the HAL hands to the HEIC composite stream, and the   *)
(* sizes processAppSegment derives from its result.                        *)
(*                                                                         *)
(* The buffer has MaxSize bytes: the APP segments at its start, and the    *)
(* 8-byte CameraBlob transport header (little-endian int32 blobId, int32   *)
(* blobSizeBytes) in its last 8 bytes.  The data bytes are an input of the *)
(* HAL: each one is chosen from Bytes the first time the parser reads it   *)
(* and keeps that value, so the states of this module enumerate every      *)
(* buffer over Bytes, sharing the prefixes the parser has read.  One       *)
(* action is one step of the parser: the header check, the APP1 check, one *)
(* iteration of the APPn loop, and the final size comparison.              *)
(***************************************************************************)
EXTENDS Integers, FiniteSets

CONSTANTS
    DataSize,       \* bytes before the CameraBlob header (maxSize - 8)
    Bytes,          \* the byte values the HAL may write
    BlobIds         \* the blobId values the HAL may write

ASSUME DataSize \in Nat /\ Bytes \subseteq 0..255 /\ BlobIds \subseteq Nat

\* CameraBlobId::JPEG_APP_SEGMENTS and sizeof(CameraBlob).
JPEG_APP_SEGMENTS == 256
kBlobSize == 8
MaxSize == DataSize + kBlobSize

\* A byte the parser has not read yet.
UNREAD == -1

\* The parser's reads may go past the end of the buffer; the bytes there
\* are whatever memory follows it.
Positions == 0..MaxSize + 8

\* The blobSizeBytes values the HAL may write: every size up to the end
\* of the buffer and a few past it.
BlobSizes == 0..MaxSize + 4

VARIABLES
    buf,              \* position -> byte, UNREAD until the parser reads it
    reads,            \* the positions the parser has read
    pc,               \* "header", "app1", "loop", "done"
    expectedSize,
    totalSize,        \* uint32_t totalSize
    app1Size,         \* uint16_t app1Size
    app1SegmentSize,  \* *app1SegmentSize
    result            \* the return value

vars == <<buf, reads, pc, expectedSize, totalSize, app1Size,
          app1SegmentSize, result>>

\* The byte at position k of the little-endian encoding of a 32-bit value.
LEByte(v, k) == (v \div (256 ^ k)) % 256

\* The buffer the HAL hands over: unread data bytes, then the header.
HalBuffer(blobId, blobSizeBytes) ==
    [p \in Positions |->
        CASE p < DataSize                   -> UNREAD
          [] p < DataSize + 4               -> LEByte(blobId, p - DataSize)
          [] p < MaxSize                    -> LEByte(blobSizeBytes, p - DataSize - 4)
          [] OTHER                          -> UNREAD]

\* The little-endian int32 stored at position p, and the big-endian
\* 16-bit JPEG length stored at position p.
LE32(b, p) == b[p] + 256 * b[p+1] + 65536 * b[p+2] + 16777216 * b[p+3]
BE16(b, p) == 256 * b[p] + b[p+1]

\* The buffers b can be once the bytes at positions ps are read: a byte
\* read for the first time takes any value, a byte read before keeps its own.
ReadFrom(b, ps) ==
    {[p \in Positions |-> IF p \in ps /\ b[p] = UNREAD THEN v[p] ELSE b[p]] :
        v \in [ps -> Bytes]}

Return(v) ==
    /\ pc' = "done"
    /\ result' = v

-----------------------------------------------------------------------------
Init ==
    /\ \E id \in BlobIds, size \in BlobSizes :
          /\ buf = HalBuffer(id, size)
          /\ expectedSize = 0
    /\ reads = DataSize..MaxSize - 1
    /\ pc = "header"
    /\ totalSize = 0
    /\ app1Size = 0
    /\ app1SegmentSize = 0
    /\ result = 0

\* The transport header at the end of the buffer: its blobId must be
\* JPEG_APP_SEGMENTS and its size non-zero and within the data bytes.
CheckHeader ==
    /\ pc = "header"
    /\ IF LE32(buf, DataSize) # JPEG_APP_SEGMENTS
       THEN Return(0) /\ UNCHANGED expectedSize
       ELSE LET size == LE32(buf, DataSize + 4) IN
            /\ expectedSize' = size
            /\ IF size = 0 \/ size > MaxSize - kBlobSize
               THEN Return(0)
               ELSE pc' = "app1" /\ UNCHANGED result
    /\ UNCHANGED <<buf, reads, totalSize, app1Size, app1SegmentSize>>

\* The mandatory APP1 marker FF E1 and its 16-bit length (memcmp reads
\* both marker bytes; the length is read only after they match).
CheckApp1 ==
    /\ pc = "app1"
    /\ \E b \in ReadFrom(buf, {0, 1}) :
         IF b[0] # 255 \/ b[1] # 225
         THEN /\ buf' = b /\ reads' = reads \cup {0, 1}
              /\ Return(0)
              /\ UNCHANGED <<totalSize, app1Size>>
         ELSE \E b2 \in ReadFrom(b, {2, 3}) :
                /\ buf' = b2 /\ reads' = reads \cup {0, 1, 2, 3}
                /\ app1Size' = BE16(b2, 2)
                /\ totalSize' = 2 + BE16(b2, 2)
                /\ pc' = "loop"
                /\ UNCHANGED result
    /\ UNCHANGED <<expectedSize, app1SegmentSize>>

\* One iteration of the APPn loop: an FF marker byte (the second byte is
\* read only if the first matched), an APPn code with E1 < n <= EF, and
\* the 16-bit length: totalSize moves past the marker, then by the length,
\* which counts the length field itself and the payload.
IsAppn(x) == x > 225 /\ x <= 239

\* Mutant of NextAppSegment: totalSize also skips the length field.
NextAppSegmentSkipsLength ==
    /\ pc = "loop"
    /\ totalSize < expectedSize
    /\ \E b \in ReadFrom(buf, {totalSize}) :
         IF b[totalSize] # 255
         THEN /\ buf' = b /\ reads' = reads \cup {totalSize}
              /\ Return(0) /\ UNCHANGED totalSize
         ELSE \E b1 \in ReadFrom(b, {totalSize + 1}) :
                IF ~IsAppn(b1[totalSize + 1])
                THEN /\ buf' = b1 /\ reads' = reads \cup {totalSize, totalSize + 1}
                     /\ Return(0) /\ UNCHANGED totalSize
                ELSE \E b2 \in ReadFrom(b1, {totalSize + 2, totalSize + 3}) :
                       /\ buf' = b2
                       /\ reads' = reads \cup (totalSize..totalSize + 3)
                       /\ totalSize' = totalSize + 4 + BE16(b2, totalSize + 2)
                       /\ UNCHANGED <<pc, result>>
    /\ UNCHANGED <<expectedSize, app1Size, app1SegmentSize>>

NextAppSegment ==
    /\ pc = "loop"
    /\ totalSize < expectedSize
    /\ \E b \in ReadFrom(buf, {totalSize}) :
         IF b[totalSize] # 255
         THEN /\ buf' = b /\ reads' = reads \cup {totalSize}
              /\ Return(0) /\ UNCHANGED totalSize
         ELSE \E b1 \in ReadFrom(b, {totalSize + 1}) :
                IF ~IsAppn(b1[totalSize + 1])
                THEN /\ buf' = b1 /\ reads' = reads \cup {totalSize, totalSize + 1}
                     /\ Return(0) /\ UNCHANGED totalSize
                ELSE \E b2 \in ReadFrom(b1, {totalSize + 2, totalSize + 3}) :
                       /\ buf' = b2
                       /\ reads' = reads \cup (totalSize..totalSize + 3)
                       /\ totalSize' = totalSize + 2 + BE16(b2, totalSize + 2)
                       /\ UNCHANGED <<pc, result>>
    /\ UNCHANGED <<expectedSize, app1Size, app1SegmentSize>>

\* The loop has ended: the segments must end exactly at expectedSize.
FinishSegments ==
    /\ pc = "loop"
    /\ totalSize >= expectedSize
    /\ IF totalSize # expectedSize
       THEN Return(0) /\ UNCHANGED app1SegmentSize
       ELSE /\ Return(expectedSize)
            /\ app1SegmentSize' = app1Size + 2
    /\ UNCHANGED <<buf, reads, expectedSize, totalSize, app1Size>>

Next ==
    \/ CheckHeader
    \/ CheckApp1
    \/ NextAppSegment
    \/ FinishSegments

Spec == Init /\ [][Next]_vars

-----------------------------------------------------------------------------
(***************************************************************************)
(* The JPEG APP segments structure: the first bytes of the buffer are an  *)
(* APP1 segment followed by APPn segments (E1 < n <= EF), each one a       *)
(* marker FF nn and a big-endian length that counts its own two bytes and  *)
(* the payload, and together they fill exactly the first len bytes.  A     *)
(* byte the parser has not read may be any value of Bytes, so              *)
(* CanBeWellFormed(b, len) says that some buffer agreeing with b on the    *)
(* bytes read is well-formed.                                              *)
(***************************************************************************)
Poss(b, p) == IF b[p] = UNREAD THEN Bytes ELSE {b[p]}

RECURSIVE SegmentsFrom(_, _, _, _)
SegmentsFrom(b, o, len, first) ==
    IF o = len THEN ~first
    ELSE /\ o + 3 < len
         /\ 255 \in Poss(b, o)
         /\ \E x \in Poss(b, o + 1) : IF first THEN x = 225 ELSE IsAppn(x)
         /\ \E hi \in Poss(b, o + 2), lo \in Poss(b, o + 3) :
              LET l == 256 * hi + lo IN
              /\ l >= 2
              /\ o + 2 + l <= len
              /\ SegmentsFrom(b, o + 2 + l, len, FALSE)

CanBeWellFormed(b, len) == SegmentsFrom(b, 0, len, TRUE)

Accepted == pc = "done" /\ result # 0

\* The header names an APP segments blob whose size fits the data bytes.
HeaderFits ==
    /\ LE32(buf, DataSize) = JPEG_APP_SEGMENTS
    /\ expectedSize \in 1..DataSize

\* findAppSegmentsSize rejects only malformed segments: when the header is
\* valid and the parser returns 0, no buffer agreeing with the bytes it
\* read is well-formed.  A false rejection fails the HEIC capture
\* (processAppSegment, and with it processInputFrame, returns an error).
RejectsOnlyMalformed ==
    (pc = "done" /\ result = 0 /\ HeaderFits) => ~CanBeWellFormed(buf, expectedSize)

\* A size the parser accepts is that of well-formed APP segments: the
\* first expectedSize bytes are APP1 and APPn segments and nothing else.
AcceptedWellFormed == Accepted => CanBeWellFormed(buf, result)

=============================================================================
