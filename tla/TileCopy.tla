------------------------------ MODULE TileCopy ------------------------------
(***************************************************************************)
(* How the HEIC composite stream cuts a YUV 4:2:0 capture into encoder    *)
(* tiles: the grid configureCodecs chooses, and processCodecInputFrame,   *)
(* which for each codec input buffer of a frame computes the tile's       *)
(* rectangle and has copyOneYuvTile copy it from the camera buffer into   *)
(* the codec buffer through the codec's MediaImage2 plane descriptors.    *)
(*                                                                         *)
(* Memory holds sample labels instead of bytes: <<"Y", x, y>> is the luma *)
(* sample of pixel (x, y), <<"Cb", cx, cy>> and <<"Cr", cx, cy>> the      *)
(* chroma samples of the 2x2 block (cx, cy).  A copy moves labels, so a   *)
(* codec buffer read back through its plane descriptors shows which       *)
(* sample of the capture landed where.  The grid tile size, 512x512 in    *)
(* the code, is the constant TileW x TileH here: the arithmetic is the    *)
(* same, and small images still have partial last rows and columns.       *)
(***************************************************************************)
EXTENDS Integers, FiniteSets

CONSTANTS
    Widths, Heights,   \* the capture sizes (even, as YUV 4:2:0 requires)
    TileW, TileH,      \* HeicEncoderInfoManager::kGridWidth, kGridHeight
    Pads               \* the row padding a buffer's stride may add (even)

ASSUME /\ \A w \in Widths \cup {TileW} : w > 0 /\ w % 2 = 0
       /\ \A h \in Heights \cup {TileH} : h > 0 /\ h % 2 = 0
       /\ \A p \in Pads : p >= 0 /\ p % 2 = 0

\* Memory contents that are not samples: row padding, a read outside the
\* buffer, a codec buffer byte nothing has written.
PAD == "pad"
OOB == "oob"
UNSET == "unset"

VARIABLES
    mOutputWidth, mOutputHeight,
    mGridWidth, mGridHeight, mGridRows, mGridCols,
    yuv,          \* the CpuConsumer::LockedBuffer copied from
    imageInfo,    \* the MediaImage2 of the codec input buffers
    codecBuffers, \* tile index -> codec input buffer contents
    tileIndex,    \* the tile processCodecInputFrame handles next
    status,       \* "run", "done", or "error" (the frame is failed)
    overrun       \* some write fell outside its codec buffer

vars == <<mOutputWidth, mOutputHeight, mGridWidth, mGridHeight, mGridRows,
          mGridCols, yuv, imageInfo, codecBuffers, tileIndex, status, overrun>>

CeilDiv(a, b) == (a + b - 1) \div b
MinOf(a, b) == IF a < b THEN a ELSE b

Read(mem, a) == IF a \in DOMAIN mem THEN mem[a] ELSE OOB

-----------------------------------------------------------------------------
(* The camera buffer: a luma plane of stride bytes per row, and chroma    *)
(* either planar (chromaStep 1, two planes of chromaStride bytes per row) *)
(* or semiplanar (chromaStep 2, one interleaved plane); Cb or Cr first.   *)
CameraBuffer(w, h, pad, step, cbFirst) ==
    LET stride == w + pad
        cs == IF step = 1 THEN stride \div 2 ELSE stride
        plane == cs * (h \div 2)
        size == IF step = 1 THEN 2 * plane ELSE plane
        rowBytes == IF step = 1 THEN w \div 2 ELSE w
        secondAt == IF step = 1 THEN plane ELSE 1
        \* which of the two chroma components byte a holds, and where
        k(a) == IF step = 1 THEN a \div plane ELSE (a % cs) % 2
        rel(a) == IF step = 1 THEN a % plane ELSE a
        comp(a) == IF (k(a) = 0) = cbFirst THEN "Cb" ELSE "Cr"
    IN  [data |-> [a \in 0..stride * h - 1 |->
                     IF a % stride < w THEN <<"Y", a % stride, a \div stride>>
                     ELSE PAD],
         chroma |-> [a \in 0..size - 1 |->
                     IF rel(a) % cs < rowBytes
                     THEN <<comp(a), (rel(a) % cs) \div step, rel(a) \div cs>>
                     ELSE PAD],
         stride |-> stride, chromaStride |-> cs, chromaStep |-> step,
         dataCb |-> IF cbFirst THEN 0 ELSE secondAt,
         dataCr |-> IF cbFirst THEN secondAt ELSE 0]

(* The MediaImage2 of a codec input buffer of w x h pixels whose rows    *)
(* the codec pads by pad bytes: I420 and YV12 are planar (U then V, or V  *)
(* then U), NV12 and NV21 semiplanar; "bad" is one copyOneYuvTile         *)
(* rejects (no image-data, not 8-bit YUV, or not three planes).           *)
CodecLayouts == {"I420", "YV12", "NV12", "NV21", "bad"}

CodecImage(kind, w, h, pad) ==
    LET sY == w + pad
        ySize == sY * h
        sC == sY \div 2
        cSize == sC * (h \div 2)
        P(off, rowInc, colInc) == [off |-> off, rowInc |-> rowInc, colInc |-> colInc]
        planar == kind \in {"I420", "YV12"}
        first == IF planar THEN P(ySize, sC, 1) ELSE P(ySize, sY, 2)
        second == IF planar THEN P(ySize + cSize, sC, 1) ELSE P(ySize + 1, sY, 2)
        uFirst == kind \in {"I420", "NV12"}
    IN  [valid |-> kind # "bad", mHeight |-> h, capacity |-> ySize + 2 * cSize,
         Y |-> P(0, sY, 1),
         U |-> IF uFirst THEN first ELSE second,
         V |-> IF uFirst THEN second ELSE first]

-----------------------------------------------------------------------------
(* configureCodecs: with a grid the tiles are kGridWidth x kGridHeight    *)
(* and their number rounds up; without one (the HDR gainmap path feeds    *)
(* YUV without a grid) the whole image is a single tile.                  *)
\* Mutant of GridOf: the tile counts round down.
GridOfRoundDown(useGrid, width, height) ==
    IF useGrid
    THEN [w |-> TileW, h |-> TileH, rows |-> height \div TileH, cols |-> width \div TileW]
    ELSE [w |-> width, h |-> height, rows |-> 1, cols |-> 1]

GridOf(useGrid, width, height) ==
    IF useGrid
    THEN [w |-> TileW, h |-> TileH,
          rows |-> (height + TileH - 1) \div TileH,
          cols |-> (width + TileW - 1) \div TileW]
    ELSE [w |-> width, h |-> height, rows |-> 1, cols |-> 1]

\* The rectangle of tile tileIndex (processCodecInputFrame).
TileGeometry(t) ==
    LET tileX == t % mGridCols
        tileY == t \div mGridCols
    IN  [top |-> mGridHeight * tileY,
         left |-> mGridWidth * tileX,
         width |-> IF tileX = mGridCols - 1
                   THEN mOutputWidth - tileX * mGridWidth ELSE mGridWidth,
         height |-> IF tileY = mGridRows - 1
                    THEN mOutputHeight - tileY * mGridHeight ELSE mGridHeight]

-----------------------------------------------------------------------------
(* copyOneYuvTile as the set of <<address, sample>> writes it makes into  *)
(* the codec buffer.  mFnCopyRow(src, dst, n) copies n bytes.             *)
CopyRow(mem, src, dst, n) == {<<dst + i, Read(mem, src + i)>> : i \in 0..n - 1}

CodecUPlaneFirst(info) == info.V.off > info.U.off

CodecUvOffsetDiff(info) ==
    IF CodecUPlaneFirst(info) THEN info.V.off - info.U.off
    ELSE info.U.off - info.V.off

IsCodecUvSemiplannar(info) ==
    /\ CodecUvOffsetDiff(info) = 1
    /\ info.U.rowInc = info.V.rowInc
    /\ info.U.colInc = 2 /\ info.V.colInc = 2

IsCodecUvPlannar(info) ==
    /\ \/ CodecUPlaneFirst(info)
          /\ CodecUvOffsetDiff(info) >= (info.U.rowInc * info.mHeight) \div 2
       \/ ~CodecUPlaneFirst(info)
          /\ CodecUvOffsetDiff(info) >= (info.V.rowInc * info.mHeight) \div 2
    /\ info.U.colInc = 1 /\ info.V.colInc = 1

\* Mutant of UseSemiplanarCopy: the Cb/Cr order is not compared.
UseSemiplanarCopyAnyOrder(cam, info) ==
    /\ IsCodecUvSemiplannar(info)
    /\ cam.chromaStep = 2

\* The first branch: both sides interleave Cb and Cr in the same order.
UseSemiplanarCopy(cam, info) ==
    /\ IsCodecUvSemiplannar(info)
    /\ cam.chromaStep = 2
    /\ CodecUPlaneFirst(info) = (cam.dataCr > cam.dataCb)

LumaRows(cam, info, top, left, width, height) ==
    UNION {CopyRow(cam.data, row * cam.stride + left,
                   info.Y.off + info.Y.rowInc * (row - top), width) :
           row \in top..top + height - 1}

ChromaRows(top, height) == (top \div 2)..((top + height) \div 2 - 1)

SemiplanarChroma(cam, info, top, left, width, height) ==
    LET src == IF cam.dataCb < cam.dataCr THEN cam.dataCb ELSE cam.dataCr
        dst == IF CodecUPlaneFirst(info) THEN info.U ELSE info.V
    IN  UNION {CopyRow(cam.chroma, src + row * cam.chromaStride + left,
                       dst.off + dst.rowInc * (row - top \div 2), width) :
               row \in ChromaRows(top, height)}

\* Mutant of PlanarChroma: the V rows copy width bytes, not width / 2.
PlanarChromaFullWidth(cam, info, top, left, width, height) ==
    UNION {CopyRow(cam.chroma, cam.dataCb + row * cam.chromaStride + left \div 2,
                   info.U.off + info.U.rowInc * (row - top \div 2), width \div 2)
           \cup
           CopyRow(cam.chroma, cam.dataCr + row * cam.chromaStride + left \div 2,
                   info.V.off + info.V.rowInc * (row - top \div 2), width) :
           row \in ChromaRows(top, height)}

PlanarChroma(cam, info, top, left, width, height) ==
    UNION {CopyRow(cam.chroma, cam.dataCb + row * cam.chromaStride + left \div 2,
                   info.U.off + info.U.rowInc * (row - top \div 2), width \div 2)
           \cup
           CopyRow(cam.chroma, cam.dataCr + row * cam.chromaStride + left \div 2,
                   info.V.off + info.V.rowInc * (row - top \div 2), width \div 2) :
           row \in ChromaRows(top, height)}

\* The last branch converts sample by sample.
ConvertChroma(cam, info, top, left, width, height) ==
    LET Dst(P, row, col) ==
            P.off + P.rowInc * (row - top \div 2) + P.colInc * (col - left \div 2)
        Src(row, col) == row * cam.chromaStride + cam.chromaStep * col
    IN  UNION {{<<Dst(info.U, row, col), Read(cam.chroma, cam.dataCb + Src(row, col))>>,
                <<Dst(info.V, row, col), Read(cam.chroma, cam.dataCr + Src(row, col))>>} :
               row \in ChromaRows(top, height),
               col \in (left \div 2)..((left + width) \div 2 - 1)}

CopyOneYuvTile(cam, info, top, left, width, height) ==
    LumaRows(cam, info, top, left, width, height) \cup
    CASE UseSemiplanarCopy(cam, info) ->
            SemiplanarChroma(cam, info, top, left, width, height)
      [] IsCodecUvPlannar(info) /\ cam.chromaStep = 1 ->
            PlanarChroma(cam, info, top, left, width, height)
      [] OTHER -> ConvertChroma(cam, info, top, left, width, height)

\* The buffer after the writes ws, and whether one fell outside it.
Apply(mem, ws) ==
    [a \in DOMAIN mem |->
        IF \E w \in ws : w[1] = a THEN (CHOOSE w \in ws : w[1] = a)[2] ELSE mem[a]]

Outside(mem, ws) == \E w \in ws : w[1] \notin DOMAIN mem

-----------------------------------------------------------------------------
(* One frame: configureCodecs has set the grid; the capture is the HAL's  *)
(* YUV buffer, or on the HDR gainmap path the planar SDR base image       *)
(* generateBaseImageAndGainmap makes (that path has the YUV input even    *)
(* without a grid).  The codec input buffers start with stale contents.   *)
Init ==
    \E w \in Widths, h \in Heights, useGrid, gainmap \in BOOLEAN,
       camPad, codecPad \in Pads, step \in {1, 2}, cbFirst \in BOOLEAN,
       kind \in CodecLayouts :
       LET g == GridOf(useGrid, w, h)
           info == CodecImage(kind, g.w, g.h, codecPad)
       IN  /\ useGrid \/ gainmap
           /\ gainmap => step = 1
           /\ mOutputWidth = w /\ mOutputHeight = h
           /\ mGridWidth = g.w /\ mGridHeight = g.h
           /\ mGridRows = g.rows /\ mGridCols = g.cols
           /\ yuv = CameraBuffer(w, h, camPad, step, cbFirst)
           /\ imageInfo = info
           /\ codecBuffers = [t \in 0..g.rows * g.cols - 1 |->
                                 [a \in 0..info.capacity - 1 |-> UNSET]]
           /\ tileIndex = 0
           /\ status = "run"
           /\ overrun = FALSE

Config == <<mOutputWidth, mOutputHeight, mGridWidth, mGridHeight, mGridRows,
            mGridCols, yuv, imageInfo>>

\* The frame's next codec input buffer is the tile tileIndex.
Pending == status = "run" /\ tileIndex < mGridRows * mGridCols

Fail ==
    /\ status' = "error"
    /\ UNCHANGED <<Config, codecBuffers, tileIndex, overrun>>

\* mCodec->getInputBuffer fails: the frame fails.
GetInputBufferFails == Pending /\ Fail

\* copyOneYuvTile rejects the codec's image description.
CopyOneYuvTileFails == Pending /\ ~imageInfo.valid /\ Fail

\* The tile is copied; queueInputBuffer then hands it to the codec, or
\* fails and fails the frame with the copy already made.
CopyTile(queued) ==
    /\ Pending
    /\ imageInfo.valid
    /\ LET g == TileGeometry(tileIndex)
           ws == CopyOneYuvTile(yuv, imageInfo, g.top, g.left, g.width, g.height)
       IN  /\ codecBuffers' = [codecBuffers EXCEPT
                                  ![tileIndex] = Apply(@, ws)]
           /\ overrun' = (overrun \/ Outside(codecBuffers[tileIndex], ws))
    /\ IF queued
       THEN tileIndex' = tileIndex + 1 /\ UNCHANGED status
       ELSE status' = "error" /\ UNCHANGED tileIndex
    /\ UNCHANGED Config

QueueTile == CopyTile(TRUE)
QueueInputBufferFails == CopyTile(FALSE)

\* Every buffer of the frame is queued: codecInputBuffers.clear().
FinishFrame ==
    /\ status = "run"
    /\ tileIndex = mGridRows * mGridCols
    /\ status' = "done"
    /\ UNCHANGED <<Config, codecBuffers, tileIndex, overrun>>

Next ==
    \/ GetInputBufferFails
    \/ CopyOneYuvTileFails
    \/ QueueTile
    \/ QueueInputBufferFails
    \/ FinishFrame

Spec == Init /\ [][Next]_vars

-----------------------------------------------------------------------------
(* The HEIF grid image the encoder's tiles make up: tiles of the          *)
(* configured size in row-major order, the last row and column cropped    *)
(* to the image.                                                           *)
RefCols == CeilDiv(mOutputWidth, mGridWidth)
RefRows == CeilDiv(mOutputHeight, mGridHeight)

\* Codec buffer t, read through its plane descriptors, holds exactly the
\* samples of grid cell t of the capture.
TileContent(t) ==
    LET c == codecBuffers[t]
        x0 == (t % RefCols) * mGridWidth
        y0 == (t \div RefCols) * mGridHeight
        tw == MinOf(mGridWidth, mOutputWidth - x0)
        th == MinOf(mGridHeight, mOutputHeight - y0)
        At(P, i, j) == Read(c, P.off + P.rowInc * j + P.colInc * i)
    IN  /\ \A i \in 0..tw - 1, j \in 0..th - 1 :
              At(imageInfo.Y, i, j) = <<"Y", x0 + i, y0 + j>>
        /\ \A i \in 0..tw \div 2 - 1, j \in 0..th \div 2 - 1 :
              /\ At(imageInfo.U, i, j) = <<"Cb", x0 \div 2 + i, y0 \div 2 + j>>
              /\ At(imageInfo.V, i, j) = <<"Cr", x0 \div 2 + i, y0 \div 2 + j>>

TypeOK ==
    /\ mGridRows \in Nat \ {0} /\ mGridCols \in Nat \ {0}
    /\ status \in {"run", "done", "error"}
    /\ tileIndex \in 0..mGridRows * mGridCols
    /\ overrun \in BOOLEAN
    /\ DOMAIN codecBuffers = 0..mGridRows * mGridCols - 1

\* Every tile processCodecInputFrame has queued carries its grid cell of
\* the capture, luma and both chroma components in place and Cb not
\* swapped with Cr, whatever the camera's and the codec's YUV layouts; and
\* a frame that finishes has queued a tile for every cell of the grid.
TilesMatchImage ==
    LET queued == IF status = "done" THEN RefRows * RefCols ELSE tileIndex
    IN  \A t \in 0..queued - 1 : t \in DOMAIN codecBuffers /\ TileContent(t)

\* copyOneYuvTile never writes outside the codec input buffer, for any
\* tile, including the cropped last row and column.
CodecWritesInBounds == ~overrun

=============================================================================
