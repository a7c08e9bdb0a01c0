------------------------- MODULE HeicCompositeStream -------------------------
(***************************************************************************)
(* The HEIC composite stream of src/api2/HeicCompositeStream.cpp in HEVC   *)
(* YUV-tiling mode (mUseGrid, no HDR gainmap): the state guarded by        *)
(* mMutex, the callbacks that fill its intake queues, the worker thread    *)
(* (threadLoop) that correlates everything by frame number in              *)
(* compilePendingInputLocked, and processInputFrame, which feeds encoder   *)
(* tiles, runs the muxer and queues the finished blob.                     *)
(*                                                                         *)
(* Data is abstracted to what the properties tell apart: a camera buffer   *)
(* is its timestamp, an encoder tile is the frame number of the image it   *)
(* was cut from (a ghost the real buffer carries in its pixels), a muxer   *)
(* is a flag.  Orientation, quality and EXIF contents are left out.        *)
(*                                                                         *)
(* Besides the stream's own members the module keeps the state of the      *)
(* objects the stream calls synchronously: the two CpuConsumers (queued   *)
(* and locked buffers), the encoder's input queue, and what was handed to  *)
(* the output surface or reported through notifyError.                     *)
(***************************************************************************)
EXTENDS Integers, SequencesExt

CONSTANTS
    FrameNumbers,          \* frame numbers of capture requests, 1..N
    GridTiles,             \* mGridRows * mGridCols
    CodecInputBufferCount, \* input buffers the HEVC encoder owns
    mAppSegmentSupported,  \* ANDROID_HEIC_INFO_SUPPORTED
    TimestampBase,         \* sensor timestamps are TimestampBase + frame number
    FaultSites,            \* which library failures the model may inject
    MaxFaults              \* bound on injected failures per behaviour

ASSUME /\ FrameNumbers \subseteq Nat \ {0}
       /\ GridTiles \in Nat \ {0}
       /\ CodecInputBufferCount \in Nat \ {0}
       /\ mAppSegmentSupported \in BOOLEAN
       /\ TimestampBase \in Nat /\ \A f \in FrameNumbers : TimestampBase > f
       /\ FaultSites \subseteq {"lock", "process", "codecError", "badSegment"}
       /\ MaxFaults \in Nat

\* Code constants (HeicCompositeStream.h, createInternalStreams).
kMaxOutputSurfaceProducerCount == 1
kMaxAcquiredAppSegment == 8
kMainImageMaxLockedBuffers == 1      \* CpuConsumer::create(1) for the YUV input

NoBuffer == 0                         \* LockedBuffer.data == nullptr
Ts(f) == TimestampBase + f            \* shutter timestamp of frame f
SourceFrame(ts) == ts - TimestampBase \* the capture a buffer holds
EmptyMap == [x \in {} |-> 0]

VARIABLES
    \* members of HeicCompositeStream guarded by mMutex
    mSettingsByFrameNumber,      \* frame -> [shutterNotified, timestamp]
    mPendingInputFrames,         \* key -> InputFrame
    mInputAppSegmentBuffers,     \* timestamps of arrived APP segment buffers
    mAppSegmentFrameNumbers,     \* frame numbers of released APP segment buffers
    mInputYuvBuffers,            \* timestamps of arrived YUV buffers
    mMainImageFrameNumbers,      \* frame numbers of released YUV buffers
    mYuvBufferAcquired,
    mCodecOutputBuffers,         \* encoder outputs not yet attributed
    mCodecOutputBufferFrameNumbers,
    mCodecOutputCounter,
    mNumOutputTiles,
    mFormat,                     \* mFormat != nullptr
    mCodecInputBuffers,          \* count of announced encoder input buffers
    mCaptureResults,             \* timestamp -> frame number (CompositeStream)
    mErrorFrameNumbers,
    mExifErrorFrameNumbers,
    mErrorState,
    mDequeuedOutputBufferCnt,
    trackerActive,               \* StatusTracker component state of mStatusId
    workerPc,                    \* "loop" | "process" | "exited"
    workerFrame,                 \* frame number chosen by getNextReadyInputLocked
    \* collaborators the stream calls synchronously
    appSegQueue, appSegLocked,   \* APP segment CpuConsumer: queued, locked
    yuvQueue, yuvLocked,         \* main image CpuConsumer: queued, locked
    codecInputQueue,             \* tiles queued to the encoder (source frame)
    malformedSegments,           \* APP segment buffers with broken markers
    \* what left the stream
    delivered,                   \* blobs queued to the output surface
    notified,                    \* frame numbers passed to notifyError
    faults                       \* injected library failures so far

streamVars == <<mSettingsByFrameNumber, mPendingInputFrames,
    mInputAppSegmentBuffers, mAppSegmentFrameNumbers, mInputYuvBuffers,
    mMainImageFrameNumbers, mYuvBufferAcquired, mCodecOutputBuffers,
    mCodecOutputBufferFrameNumbers, mCodecOutputCounter, mNumOutputTiles,
    mFormat, mCodecInputBuffers, mCaptureResults, mErrorFrameNumbers,
    mExifErrorFrameNumbers, mErrorState, mDequeuedOutputBufferCnt,
    trackerActive, workerPc, workerFrame>>
peerVars == <<appSegQueue, appSegLocked, yuvQueue, yuvLocked,
    codecInputQueue, malformedSegments, delivered, notified, faults>>

CanFault(site) == site \in FaultSites /\ faults < MaxFaults

-----------------------------------------------------------------------------
(* InputFrame and std::map<int64_t, InputFrame> access.                    *)

\* InputFrame() constructor; muxed is a ghost: tiles written to the muxer.
NewInputFrame ==
    [appSegmentBuffer |-> NoBuffer, codecOutputBuffers |-> <<>>,
     result |-> FALSE, yuvBuffer |-> NoBuffer, codecInputBuffers |-> 0,
     error |-> FALSE, exifError |-> FALSE, timestamp |-> -1,
     format |-> FALSE, muxer |-> FALSE, anb |-> FALSE,
     appSegmentWritten |-> FALSE, pendingOutputTiles |-> 0,
     codecInputCounter |-> 0, muxed |-> <<>>]

\* mPendingInputFrames[k] on a std::map default-constructs a missing entry.
FrameAt(m, k) == IF k \in DOMAIN m THEN m[k] ELSE NewInputFrame
PutFrame(m, k, fr) == (k :> fr) @@ m
FlagError(m, k) == PutFrame(m, k, [FrameAt(m, k) EXCEPT !.error = TRUE])
EraseKey(m, k) == Restrict(m, DOMAIN m \ {k})

\* The whole shared state as one record, so that the worker's locked
\* sections can be written as functions from state to state.
Now == [mSettingsByFrameNumber |-> mSettingsByFrameNumber,
        mPendingInputFrames |-> mPendingInputFrames,
        mInputAppSegmentBuffers |-> mInputAppSegmentBuffers,
        mAppSegmentFrameNumbers |-> mAppSegmentFrameNumbers,
        mInputYuvBuffers |-> mInputYuvBuffers,
        mMainImageFrameNumbers |-> mMainImageFrameNumbers,
        mYuvBufferAcquired |-> mYuvBufferAcquired,
        mCodecOutputBuffers |-> mCodecOutputBuffers,
        mCodecOutputBufferFrameNumbers |-> mCodecOutputBufferFrameNumbers,
        mCodecOutputCounter |-> mCodecOutputCounter,
        mCodecInputBuffers |-> mCodecInputBuffers,
        mCaptureResults |-> mCaptureResults,
        mErrorFrameNumbers |-> mErrorFrameNumbers,
        mExifErrorFrameNumbers |-> mExifErrorFrameNumbers,
        mDequeuedOutputBufferCnt |-> mDequeuedOutputBufferCnt,
        trackerActive |-> trackerActive,
        appSegQueue |-> appSegQueue, appSegLocked |-> appSegLocked,
        yuvQueue |-> yuvQueue, yuvLocked |-> yuvLocked,
        codecInputQueue |-> codecInputQueue,
        delivered |-> delivered, notified |-> notified, faults |-> faults]

Store(s) ==
    /\ mSettingsByFrameNumber' = s.mSettingsByFrameNumber
    /\ mPendingInputFrames' = s.mPendingInputFrames
    /\ mInputAppSegmentBuffers' = s.mInputAppSegmentBuffers
    /\ mAppSegmentFrameNumbers' = s.mAppSegmentFrameNumbers
    /\ mInputYuvBuffers' = s.mInputYuvBuffers
    /\ mMainImageFrameNumbers' = s.mMainImageFrameNumbers
    /\ mYuvBufferAcquired' = s.mYuvBufferAcquired
    /\ mCodecOutputBuffers' = s.mCodecOutputBuffers
    /\ mCodecOutputBufferFrameNumbers' = s.mCodecOutputBufferFrameNumbers
    /\ mCodecOutputCounter' = s.mCodecOutputCounter
    /\ mCodecInputBuffers' = s.mCodecInputBuffers
    /\ mCaptureResults' = s.mCaptureResults
    /\ mErrorFrameNumbers' = s.mErrorFrameNumbers
    /\ mExifErrorFrameNumbers' = s.mExifErrorFrameNumbers
    /\ mDequeuedOutputBufferCnt' = s.mDequeuedOutputBufferCnt
    /\ trackerActive' = s.trackerActive
    /\ appSegQueue' = s.appSegQueue
    /\ appSegLocked' = s.appSegLocked
    /\ yuvQueue' = s.yuvQueue
    /\ yuvLocked' = s.yuvLocked
    /\ codecInputQueue' = s.codecInputQueue
    /\ delivered' = s.delivered
    /\ notified' = s.notified
    /\ faults' = s.faults

\* Variables only callbacks write.
callbackOnlyVars == <<mNumOutputTiles, mFormat, mErrorState, malformedSegments>>
workerVars == <<workerPc, workerFrame>>

-----------------------------------------------------------------------------
(* Producer callbacks.  Each holds mMutex for its whole body and touches   *)
(* only intake queues, never an InputFrame.  Most are written as functions *)
(* of the state, so that the thread calling them can be composed with the  *)
(* call in one step (Callback).                                            *)

Callback(s) == Store(s) /\ UNCHANGED <<callbackOnlyVars, workerVars>>

\* The camera device asks this stream for a buffer of request f.
OnBufferRequestForFrameNumber(s, f) ==
    [s EXCEPT !.mSettingsByFrameNumber =
        IF mErrorState THEN @
        ELSE (f :> [shutterNotified |-> FALSE, timestamp |-> 0]) @@ @]

OnShutter(s, f, ts) ==
    [s EXCEPT !.mSettingsByFrameNumber =
        IF ~mErrorState /\ f \in DOMAIN @
        THEN [@ EXCEPT ![f] = [shutterNotified |-> TRUE, timestamp |-> ts]]
        ELSE @]

\* A buffer queued into the APP segment CpuConsumer, whose listener is
\* onFrameAvailable (kAppSegmentDataSpace branch).
OnFrameAvailableAppSegment(s, ts) ==
    [s EXCEPT !.appSegQueue = Append(@, ts),
              !.mInputAppSegmentBuffers = IF mErrorState THEN @ ELSE Append(@, ts)]

\* A buffer queued into the main image (YUV) CpuConsumer.  Grid mode, so
\* the !mUseGrid early return is not taken.
OnFrameAvailableYuv(s, ts) ==
    [s EXCEPT !.yuvQueue = Append(@, ts),
              !.mInputYuvBuffers = IF mErrorState THEN @ ELSE Append(@, ts)]

\* The camera device released a filled buffer of an internal stream (a
\* buffer returned with mError returns early: that call changes nothing).
OnBufferReleased(s, stream, f) ==
    IF stream = "main"
    THEN [s EXCEPT !.mMainImageFrameNumbers = Append(@, f),
                   !.mCodecOutputBufferFrameNumbers = Append(@, f)]
    ELSE [s EXCEPT !.mAppSegmentFrameNumbers = Append(@, f)]

\* The encoder returns an input buffer; only their number matters.
OnHeicInputFrameAvailable(s) == [s EXCEPT !.mCodecInputBuffers = @ + 1]

\* The encoder produced one compressed tile cut from frame src.  In the
\* error state the buffer goes straight back to the codec.
OnHeicOutputFrameAvailable(s, src) ==
    [s EXCEPT !.mCodecOutputBuffers = IF mErrorState THEN @ ELSE Append(@, src)]

\* Buffer error on one internal stream.  The main-stream branch calls
\* CompositeStream::flagAnErrorFrameNumber, which adds f to
\* mErrorFrameNumbers under mMutex.
OnStreamBufferError(s, stream, f) ==
    IF stream = "appSegment"
    THEN [s EXCEPT !.mExifErrorFrameNumbers = @ \cup {f}]
    ELSE [s EXCEPT !.mErrorFrameNumbers = @ \cup {f}]

\* std::map::emplace: no effect when the key is present.
Emplace(m, k, v) == IF k \in DOMAIN m THEN m ELSE (k :> v) @@ m

\* CompositeStream::onResultAvailable for a final result carrying
\* ANDROID_SENSOR_TIMESTAMP ts: mCaptureResults.emplace(ts, (f, metadata)).
OnResultAvailable(s, f, ts) ==
    [s EXCEPT !.mCaptureResults = Emplace(@, ts, f)]

\* The shutter timestamp is looked up among the settings (0 before the
\* shutter), then among pending frames; -1 when neither holds f.
OnResultError(s, f) ==
    LET ts == IF f \in DOMAIN s.mSettingsByFrameNumber
              THEN s.mSettingsByFrameNumber[f].timestamp
              ELSE IF f \in DOMAIN s.mPendingInputFrames
                   THEN s.mPendingInputFrames[f].timestamp
                   ELSE -1
    IN [s EXCEPT !.mCaptureResults = IF ts = -1 THEN @ ELSE Emplace(@, ts, f)]

\* The settings are erased when no shutter came; otherwise the frame was
\* promoted and is flagged through mErrorFrameNumbers.
OnRequestError(s, f) ==
    IF f \in DOMAIN s.mSettingsByFrameNumber
    THEN [s EXCEPT !.mSettingsByFrameNumber = EraseKey(@, f)]
    ELSE [s EXCEPT !.mErrorFrameNumbers = @ \cup {f}]

\* The encoder's output format: KEY_GRID_ROWS and KEY_GRID_COLUMNS are
\* always present (the code writes its own values when the codec did not).
OnHeicFormatChanged ==
    /\ mNumOutputTiles' = GridTiles
    /\ mFormat' = TRUE
    /\ UNCHANGED <<mErrorState, malformedSegments, workerVars>>

OnHeicCodecError ==
    /\ mErrorState' = TRUE
    /\ UNCHANGED <<mNumOutputTiles, mFormat, malformedSegments, workerVars>>

-----------------------------------------------------------------------------
(* compilePendingInputLocked, stage by stage, as functions of the state.   *)

\* Settings whose shutter arrived become InputFrames.  The tracker is
\* marked active whenever a promotion leaves exactly one pending frame.
CompileSettings(s) ==
    LET S == s.mSettingsByFrameNumber
        promoted == {f \in DOMAIN S : S[f].shutterNotified}
        frames == [k \in DOMAIN s.mPendingInputFrames \cup promoted |->
                     IF k \in promoted
                     THEN [FrameAt(s.mPendingInputFrames, k) EXCEPT
                              !.timestamp = S[k].timestamp]
                     ELSE s.mPendingInputFrames[k]]
        activate == promoted # {} /\
                    DOMAIN s.mPendingInputFrames \subseteq {Min(promoted)}
    IN [s EXCEPT !.mSettingsByFrameNumber = Restrict(S, DOMAIN S \ promoted),
                 !.mPendingInputFrames = frames,
                 !.trackerActive = @ \/ activate]

\* lockNextBuffer on a CpuConsumer returns NOT_ENOUGH_DATA once its
\* maximum number of buffers is locked.
\* Faulty variants, each a plausible slip in the code it shadows; every
\* property of a passing run is shown to be violated by one of them.
AppSegmentLockable(s) ==
    s.appSegLocked < kMaxAcquiredAppSegment /\ s.appSegQueue # <<>>
YuvLockable(s) ==
    s.yuvLocked < kMainImageMaxLockedBuffers /\ s.yuvQueue # <<>>

AppSegmentLoopRuns(s) ==
    s.mInputAppSegmentBuffers # <<>> /\ s.mAppSegmentFrameNumbers # <<>>
YuvLoopRuns(s) ==
    /\ s.mInputYuvBuffers # <<>> /\ ~s.mYuvBufferAcquired
    /\ s.mMainImageFrameNumbers # <<>>

\* The APP segment loop.  lockFails: this lockNextBuffer call returns an
\* error other than NOT_ENOUGH_DATA (the buffer stays queued).  A failure
\* or a timestamp mismatch flags mPendingInputFrames[*it], a key that is
\* a timestamp, and leaves mAppSegmentFrameNumbers as it is.
RECURSIVE CompileAppSegments(_, _)
CompileAppSegments(s, lockFails) ==
    IF ~AppSegmentLoopRuns(s) \/ ~AppSegmentLockable(s) THEN s
    ELSE
    LET ts == Head(s.mInputAppSegmentBuffers)
        buf == Head(s.appSegQueue)
        fn == Head(s.mAppSegmentFrameNumbers)
        \* the locked buffer leaves the queue; unlockBuffer frees its slot
        locked(keep) == [s EXCEPT !.appSegQueue = Tail(@),
                                  !.appSegLocked = IF keep THEN @ + 1 ELSE @,
                                  !.mInputAppSegmentBuffers = Tail(@)]
    IN CompileAppSegments(
         CASE lockFails ->
                [s EXCEPT !.mPendingInputFrames = FlagError(@, ts),
                          !.mInputAppSegmentBuffers = Tail(@)]
           [] buf # ts ->
                [locked(FALSE) EXCEPT !.mPendingInputFrames = FlagError(@, ts)]
           [] fn \notin DOMAIN s.mPendingInputFrames ->
                \* popped without unlockBuffer
                [locked(TRUE) EXCEPT !.mAppSegmentFrameNumbers = Tail(@)]
           [] s.mPendingInputFrames[fn].error ->
                [locked(FALSE) EXCEPT !.mAppSegmentFrameNumbers = Tail(@)]
           [] OTHER ->
                [locked(TRUE) EXCEPT
                    !.mAppSegmentFrameNumbers = Tail(@),
                    !.mPendingInputFrames[fn].appSegmentBuffer = buf],
         FALSE)

\* The YUV loop; like the APP segment loop, except that a mismatched
\* buffer is never unlocked and a matched one sets mYuvBufferAcquired.
RECURSIVE CompileYuv(_, _)
CompileYuv(s, lockFails) ==
    IF ~YuvLoopRuns(s) \/ ~YuvLockable(s) THEN s
    ELSE
    LET ts == Head(s.mInputYuvBuffers)
        buf == Head(s.yuvQueue)
        fn == Head(s.mMainImageFrameNumbers)
        locked(keep) == [s EXCEPT !.yuvQueue = Tail(@),
                                  !.yuvLocked = IF keep THEN @ + 1 ELSE @,
                                  !.mInputYuvBuffers = Tail(@)]
    IN CompileYuv(
         CASE lockFails ->
                [s EXCEPT !.mPendingInputFrames = FlagError(@, ts),
                          !.mInputYuvBuffers = Tail(@)]
           [] buf # ts ->
                [locked(TRUE) EXCEPT !.mPendingInputFrames = FlagError(@, ts)]
           [] fn \notin DOMAIN s.mPendingInputFrames ->
                [locked(TRUE) EXCEPT !.mMainImageFrameNumbers = Tail(@)]
           [] s.mPendingInputFrames[fn].error ->
                [locked(FALSE) EXCEPT !.mMainImageFrameNumbers = Tail(@)]
           [] OTHER ->
                [locked(TRUE) EXCEPT
                    !.mMainImageFrameNumbers = Tail(@),
                    !.mYuvBufferAcquired = TRUE,
                    !.mPendingInputFrames[fn].yuvBuffer = buf],
         FALSE)

\* Encoder outputs are attributed FIFO: mNumOutputTiles consecutive outputs
\* belong to the frame at the head of mCodecOutputBufferFrameNumbers.
\* mPendingInputFrames[bufferFrameNumber] creates the entry if it is gone.
RECURSIVE CompileCodecOutputs(_)
\* Variant: the frame-number queue is popped one tile early.
CompileCodecOutputsPopEarly(s) ==
    IF s.mCodecOutputBuffers = <<>> \/ s.mCodecOutputBufferFrameNumbers = <<>>
    THEN s
    ELSE
    LET fn == Head(s.mCodecOutputBufferFrameNumbers)
        counter == s.mCodecOutputCounter + 1
        last == counter >= mNumOutputTiles - 1
        fr == FrameAt(s.mPendingInputFrames, fn)
    IN CompileCodecOutputs(
         [s EXCEPT
            !.mCodecOutputCounter = IF last THEN 0 ELSE counter,
            !.mCodecOutputBufferFrameNumbers = IF last THEN Tail(@) ELSE @,
            !.mPendingInputFrames = PutFrame(@, fn,
                [fr EXCEPT !.codecOutputBuffers =
                              Append(@, Head(s.mCodecOutputBuffers))]),
            !.mCodecOutputBuffers = Tail(@)])

CompileCodecOutputs(s) ==
    IF s.mCodecOutputBuffers = <<>> \/ s.mCodecOutputBufferFrameNumbers = <<>>
    THEN s
    ELSE
    LET fn == Head(s.mCodecOutputBufferFrameNumbers)
        counter == s.mCodecOutputCounter + 1
        last == counter = mNumOutputTiles
        fr == FrameAt(s.mPendingInputFrames, fn)
    IN CompileCodecOutputs(
         [s EXCEPT
            !.mCodecOutputCounter = IF last THEN 0 ELSE counter,
            !.mCodecOutputBufferFrameNumbers = IF last THEN Tail(@) ELSE @,
            !.mPendingInputFrames = PutFrame(@, fn,
                [fr EXCEPT !.codecOutputBuffers =
                              Append(@, Head(s.mCodecOutputBuffers))]),
            !.mCodecOutputBuffers = Tail(@)])

\* Every capture result is consumed; it is attached only to a pending frame
\* whose shutter timestamp it carries.
CompileResults(s) ==
    LET R == s.mCaptureResults
        P == s.mPendingInputFrames
        attach(k) == \E ts \in DOMAIN R :
                        R[ts] = k /\ ts >= 0 /\ P[k].timestamp = ts
    IN [s EXCEPT
          !.mPendingInputFrames =
              [k \in DOMAIN P |->
                  IF attach(k)
                  THEN [P[k] EXCEPT !.result = TRUE,
                          !.exifError = @ \/ ~mAppSegmentSupported]
                  ELSE P[k]],
          !.mCaptureResults = EmptyMap]

\* mErrorFrameNumbers and mExifErrorFrameNumbers are applied to pending
\* frames and emptied; entries for other frames are dropped.
CompileErrors(s) ==
    LET P == s.mPendingInputFrames
    IN [s EXCEPT
          !.mPendingInputFrames =
              [k \in DOMAIN P |->
                  [P[k] EXCEPT !.error = @ \/ k \in s.mErrorFrameNumbers,
                               !.exifError = @ \/ k \in s.mExifErrorFrameNumbers]],
          !.mErrorFrameNumbers = {},
          !.mExifErrorFrameNumbers = {}]

\* Announced encoder input buffers go to the first frame, in key order,
\* that still needs tiles: min(available, still needed) of them.
\* Variant: a frame is given every tile it still needs, available or not.
DistributeCodecInputsUnclamped(s) ==
    LET P == s.mPendingInputFrames
        needy == {k \in DOMAIN P : P[k].codecInputCounter < GridTiles}
        k == Min(needy)
        n == GridTiles - P[k].codecInputCounter
    IN IF s.mCodecInputBuffers = 0 \/ needy = {} THEN s
       ELSE [s EXCEPT !.mCodecInputBuffers = Max({@ - n, 0}),
                      !.mPendingInputFrames[k].codecInputBuffers = @ + n,
                      !.mPendingInputFrames[k].codecInputCounter = @ + n]

DistributeCodecInputs(s) ==
    LET P == s.mPendingInputFrames
        needy == {k \in DOMAIN P : P[k].codecInputCounter < GridTiles}
        k == Min(needy)
        n == Min({s.mCodecInputBuffers, GridTiles - P[k].codecInputCounter})
    IN IF s.mCodecInputBuffers = 0 \/ needy = {} THEN s
       ELSE [s EXCEPT !.mCodecInputBuffers = @ - n,
                      !.mPendingInputFrames[k].codecInputBuffers = @ + n,
                      !.mPendingInputFrames[k].codecInputCounter = @ + n]

\* The lock failures one compile pass may meet: at most one, at the first
\* lockNextBuffer call of one of the loops.
LockFaults(s) ==
    {"none"} \cup
    IF CanFault("lock")
    THEN {l \in {"appSegment", "yuv"} :
            IF l = "appSegment"
            THEN AppSegmentLoopRuns(s) /\ AppSegmentLockable(s)
            ELSE YuvLoopRuns(s) /\ YuvLockable(s)}
    ELSE {}

CompilePendingInputLocked(s, lockFault) ==
    LET s0 == [s EXCEPT !.faults = IF lockFault = "none" THEN @ ELSE @ + 1]
        s1 == CompileSettings(s0)
        s2 == CompileAppSegments(s1, lockFault = "appSegment")
        s3 == CompileYuv(s2, lockFault = "yuv")
    IN DistributeCodecInputs(CompileErrors(CompileResults(
           CompileCodecOutputs(s3))))

-----------------------------------------------------------------------------
(* Frame selection (getNextReadyInputLocked, getNextFailingInputLocked).   *)

\* Variant: the dequeued-buffer limit compared off by one.
HasOutputBufferOffByOne(fr, s) ==
    fr.muxer \/ s.mDequeuedOutputBufferCnt < kMaxOutputSurfaceProducerCount - 1
HasOutputBuffer(fr, s) ==
    fr.muxer \/ s.mDequeuedOutputBufferCnt < kMaxOutputSurfaceProducerCount
AppSegmentReady(fr) ==
    /\ fr.appSegmentBuffer # NoBuffer \/ fr.exifError
    /\ ~fr.appSegmentWritten /\ fr.result /\ fr.muxer
CodecOutputReady(fr) == fr.codecOutputBuffers # <<>>
CodecInputReady(fr) == fr.yuvBuffer # NoBuffer /\ fr.codecInputBuffers # 0

ReadyFrames(s) ==
    LET P == s.mPendingInputFrames
    IN {k \in DOMAIN P :
          /\ ~P[k].error
          /\ \/ AppSegmentReady(P[k])
             \/ CodecOutputReady(P[k]) /\ HasOutputBuffer(P[k], s)
             \/ CodecInputReady(P[k])}

FailingFrames(s) ==
    {k \in DOMAIN s.mPendingInputFrames : s.mPendingInputFrames[k].error}

-----------------------------------------------------------------------------
(* processInputFrame, run without mMutex.  Only the worker touches an      *)
(* InputFrame, the consumers' locked buffers and the dequeued count, so    *)
(* the unlocked section is one step.  `fail` names the library call that   *)
(* fails in this pass: [at |-> site, n |-> successful calls before it].    *)

NoFailure == [at |-> "none", n |-> 0]

\* Library failures processInputFrame can meet for frame fr.
ProcessFailures(fr) ==
    {NoFailure} \cup
    IF ~CanFault("process") THEN {}
    ELSE {[at |-> "codecInput", n |-> i] : i \in 0 .. fr.codecInputBuffers - 1}
         \cup {[at |-> a, n |-> 0] :
                 a \in {"dequeueBuffer", "startMuxer", "appSegment", "complete"}}
         \cup {[at |-> "codecOutput", n |-> i] :
                 i \in 0 .. Len(fr.codecOutputBuffers) - 1}

\* getInputBuffer/copyOneYuvTile/queueInputBuffer per assigned tile; the
\* vector is cleared only when every tile was queued.
ProcessCodecInputFrame(s, k, fail) ==
    LET fr == s.mPendingInputFrames[k]
        queued == IF fail.at = "codecInput" THEN fail.n ELSE fr.codecInputBuffers
    IN [s EXCEPT
          !.codecInputQueue =
              @ \o [i \in 1 .. queued |-> SourceFrame(fr.yuvBuffer)],
          !.mPendingInputFrames[k].codecInputBuffers =
              IF fail.at = "codecInput" THEN @ ELSE 0]

\* dequeueBuffer then memfd, MediaMuxer::create, addTrack and start; a
\* failure after dequeueBuffer leaves anb held.  addTrack is given the
\* format copied at selection, which is present: a muxer is only started
\* for a frame with an encoder output, and the encoder announces its format
\* before its first output.
\* Variant: the muxer waits for one tile fewer than the grid has.
StartMuxerForInputFrameShort(s, k, fail) ==
    IF fail.at = "dequeueBuffer" THEN s
    ELSE [s EXCEPT
            !.mDequeuedOutputBufferCnt = @ + 1,
            !.mPendingInputFrames[k].anb = TRUE,
            !.mPendingInputFrames[k].muxer = fail.at # "startMuxer",
            !.mPendingInputFrames[k].pendingOutputTiles =
                IF fail.at = "startMuxer" THEN @ ELSE mNumOutputTiles - 1]

StartMuxerForInputFrame(s, k, fail) ==
    IF fail.at = "dequeueBuffer" THEN s
    ELSE [s EXCEPT
            !.mDequeuedOutputBufferCnt = @ + 1,
            !.mPendingInputFrames[k].anb = TRUE,
            !.mPendingInputFrames[k].muxer = fail.at # "startMuxer",
            !.mPendingInputFrames[k].pendingOutputTiles =
                IF fail.at = "startMuxer" THEN @ ELSE mNumOutputTiles]

\* findAppSegmentsSize returns 0 for a buffer with broken markers, and
\* processAppSegment then fails with NO_INIT.
AppSegmentFails(s, k, fail) ==
    LET fr == s.mPendingInputFrames[k]
    IN \/ ~fr.exifError /\ fr.appSegmentBuffer \in malformedSegments
       \/ fail.at = "appSegment"

\* The APP1 sample is written; a real APP segment buffer is unlocked.
ProcessAppSegment(s, k) ==
    LET fr == s.mPendingInputFrames[k]
    IN IF fr.exifError
       THEN [s EXCEPT !.mPendingInputFrames[k].appSegmentWritten = TRUE]
       ELSE [s EXCEPT !.appSegLocked = @ - 1,
                      !.mPendingInputFrames[k].appSegmentWritten = TRUE,
                      !.mPendingInputFrames[k].appSegmentBuffer = NoBuffer]

\* processOneCodecOutputFrame for the first n outputs: each is written
\* and released, and pendingOutputTiles drops unless it is already 0.
ProcessCodecOutputs(s, k, n) ==
    LET fr == s.mPendingInputFrames[k]
    IN [s EXCEPT
          !.mPendingInputFrames[k].muxed = @ \o SubSeq(fr.codecOutputBuffers, 1, n),
          !.mPendingInputFrames[k].pendingOutputTiles =
              IF @ > n THEN @ - n ELSE 0,
          !.mPendingInputFrames[k].codecOutputBuffers =
              SubSeq(@, n + 1, Len(@))]

\* Muxer stop, copy into the dequeued buffer, timestamp, queueBuffer.
\* Variant: the queued output buffer is not taken off the dequeued count.
ProcessCompletedInputFrameKeepCount(s, k) ==
    LET fr == s.mPendingInputFrames[k]
    IN [s EXCEPT
          !.delivered = Append(@, [frame |-> k, tiles |-> fr.muxed,
                                   timestamp |-> fr.timestamp]),
          !.mPendingInputFrames[k].anb = FALSE]

ProcessCompletedInputFrame(s, k) ==
    LET fr == s.mPendingInputFrames[k]
    IN [s EXCEPT
          !.delivered = Append(@, [frame |-> k, tiles |-> fr.muxed,
                                   timestamp |-> fr.timestamp]),
          !.mPendingInputFrames[k].anb = FALSE,
          !.mDequeuedOutputBufferCnt = @ - 1]

\* The result of processInputFrame: the state and whether it returned OK.
ProcessInputFrame(s, k, fail) ==
    LET fr == s.mPendingInputFrames[k]
        appSegmentReady == AppSegmentReady(fr)
        codecOutputReady == CodecOutputReady(fr)
        codecInputReady == CodecInputReady(fr)
        hasOutputBuffer == HasOutputBuffer(fr, s)
        s1 == IF codecInputReady THEN ProcessCodecInputFrame(s, k, fail) ELSE s
        s2 == IF fr.muxer THEN s1 ELSE StartMuxerForInputFrame(s1, k, fail)
        segmentFails == appSegmentReady /\ AppSegmentFails(s2, k, fail)
        s3 == IF appSegmentReady THEN ProcessAppSegment(s2, k) ELSE s2
        nOut == Len(fr.codecOutputBuffers)
        s4 == ProcessCodecOutputs(s3, k,
                  IF fail.at = "codecOutput" THEN fail.n ELSE nOut)
        done == s4.mPendingInputFrames[k].pendingOutputTiles = 0 /\
                s4.mPendingInputFrames[k].appSegmentWritten
    IN CASE codecInputReady /\ fail.at = "codecInput" -> [st |-> s1, ok |-> FALSE]
         [] ~(codecOutputReady /\ hasOutputBuffer) /\ ~appSegmentReady ->
                [st |-> s1, ok |-> TRUE]
         [] ~fr.muxer /\ fail.at \in {"dequeueBuffer", "startMuxer"} ->
                [st |-> s2, ok |-> FALSE]
         [] segmentFails -> [st |-> s2, ok |-> FALSE]
         [] fail.at = "codecOutput" -> [st |-> s4, ok |-> FALSE]
         [] done /\ fail.at = "complete" -> [st |-> s4, ok |-> FALSE]
         [] done -> [st |-> ProcessCompletedInputFrame(s4, k), ok |-> TRUE]
         [] OTHER -> [st |-> s4, ok |-> TRUE]

-----------------------------------------------------------------------------
(* Releasing frames.                                                       *)

\* Variant: the dequeued count drops for every released frame, whether
\* or not it holds an output buffer.
ReleaseInputFrameLockedAlwaysCancel(s, k) ==
    LET fr == s.mPendingInputFrames[k]
        yuvHeld == fr.yuvBuffer # NoBuffer
    IN [s EXCEPT
          !.appSegLocked = IF fr.appSegmentBuffer # NoBuffer THEN @ - 1 ELSE @,
          !.yuvLocked = IF yuvHeld THEN @ - 1 ELSE @,
          !.mYuvBufferAcquired = IF yuvHeld THEN FALSE ELSE @,
          !.notified = IF fr.error \/ mErrorState THEN Append(@, k) ELSE @,
          !.mDequeuedOutputBufferCnt = @ - 1]

\* Variant: notifyError is sent for every released frame.
ReleaseInputFrameLockedAlwaysNotify(s, k) ==
    LET fr == s.mPendingInputFrames[k]
        yuvHeld == fr.yuvBuffer # NoBuffer
    IN [s EXCEPT
          !.appSegLocked = IF fr.appSegmentBuffer # NoBuffer THEN @ - 1 ELSE @,
          !.yuvLocked = IF yuvHeld THEN @ - 1 ELSE @,
          !.mYuvBufferAcquired = IF yuvHeld THEN FALSE ELSE @,
          !.notified = Append(@, k),
          !.mDequeuedOutputBufferCnt = IF fr.anb THEN @ - 1 ELSE @]

\* releaseInputFrameLocked: unlock the held camera buffers, return the
\* encoder outputs, drop (not return) the assigned encoder inputs, report
\* an error, cancel a dequeued output buffer.  The caller erases the entry.
ReleaseInputFrameLocked(s, k) ==
    LET fr == s.mPendingInputFrames[k]
        yuvHeld == fr.yuvBuffer # NoBuffer
    IN [s EXCEPT
          !.appSegLocked = IF fr.appSegmentBuffer # NoBuffer THEN @ - 1 ELSE @,
          !.yuvLocked = IF yuvHeld THEN @ - 1 ELSE @,
          !.mYuvBufferAcquired = IF yuvHeld THEN FALSE ELSE @,
          !.notified = IF fr.error \/ mErrorState THEN Append(@, k) ELSE @,
          !.mDequeuedOutputBufferCnt = IF fr.anb THEN @ - 1 ELSE @]

ReleaseAndErase(s, k) ==
    LET r == ReleaseInputFrameLocked(s, k)
    IN [r EXCEPT !.mPendingInputFrames = EraseKey(@, k)]

FrameDone(fr) == fr.error \/ (fr.appSegmentWritten /\ fr.pendingOutputTiles = 0)

RECURSIVE ReleaseEach(_, _)
ReleaseEach(s, K) ==
    IF K = {} THEN s
    ELSE ReleaseEach(ReleaseAndErase(s, Min(K)), K \ {Min(K)})

\* Variant: the tracker is never marked idle here.
ReleaseInputFramesLockedNoIdle(s) ==
    LET P == s.mPendingInputFrames
    IN ReleaseEach(s, {k \in DOMAIN P : FrameDone(P[k])})

\* releaseInputFramesLocked: release failed and completed frames in key
\* order; when that empties both maps the tracker is marked idle.
ReleaseInputFramesLocked(s) ==
    LET P == s.mPendingInputFrames
        done == {k \in DOMAIN P : FrameDone(P[k])}
        r == ReleaseEach(s, done)
    IN [r EXCEPT !.trackerActive =
           IF done # {} /\ DOMAIN r.mPendingInputFrames = {}
                        /\ DOMAIN r.mSettingsByFrameNumber = {}
           THEN FALSE ELSE @]

-----------------------------------------------------------------------------
(* The worker thread (threadLoop).                                         *)

\* The locked part of one threadLoop iteration, as the state, pc and frame
\* it leaves.  In the error state it compiles, releases and returns false:
\* the thread exits.  Otherwise it compiles and selects a ready frame;
\* failing that it releases the lowest failing frame (marking the tracker
\* idle if both maps are then empty); failing that it waits.
WorkerLoopResult(s, lockFault) ==
    LET s1 == CompilePendingInputLocked(s, lockFault)
        ready == ReadyFrames(s1)
        failing == FailingFrames(s1)
        r == ReleaseAndErase(s1, Min(failing))
    IN CASE mErrorState ->
              [st |-> ReleaseInputFramesLocked(s1), pc |-> "exited", frame |-> workerFrame]
         [] ready # {} ->
              \* the selected frame takes a copy of mFormat if it has none
              [st |-> [s1 EXCEPT !.mPendingInputFrames[Min(ready)].format =
                                     @ \/ mFormat],
               pc |-> "process", frame |-> Min(ready)]
         [] failing # {} ->
              [st |-> [r EXCEPT !.trackerActive =
                          IF DOMAIN r.mPendingInputFrames = {}
                             /\ DOMAIN r.mSettingsByFrameNumber = {}
                          THEN FALSE ELSE @],
               pc |-> "loop", frame |-> workerFrame]
         [] OTHER -> [st |-> s1, pc |-> "loop", frame |-> workerFrame]

WorkerLoop ==
    /\ workerPc = "loop"
    /\ \E lockFault \in LockFaults(Now) :
         \E r \in {WorkerLoopResult(Now, lockFault)} :
            /\ Store(r.st)
            /\ workerPc' = r.pc
            /\ workerFrame' = r.frame
    /\ UNCHANGED callbackOnlyVars

\* ENABLED <<WorkerLoop>>_v for any v holding every variable: some
\* iteration changes the state (a timed wait that finds nothing does not).
WorkerLoopCanChange ==
    /\ workerPc = "loop"
    /\ \E lockFault \in LockFaults(Now) :
         WorkerLoopResult(Now, lockFault) # [st |-> Now, pc |-> "loop", frame |-> workerFrame]

\* processInputFrame without the lock, then, under it, flag a failure
\* and releaseInputFramesLocked.
WorkerProcess ==
    /\ workerPc = "process"
    /\ LET k == workerFrame
       IN \E fail \in ProcessFailures(mPendingInputFrames[k]) :
            LET s0 == [Now EXCEPT !.faults = IF fail = NoFailure THEN @ ELSE @ + 1]
                p == ProcessInputFrame(s0, k, fail)
                s1 == IF p.ok THEN p.st
                      ELSE [p.st EXCEPT !.mPendingInputFrames[k].error = TRUE]
            IN \E r \in {ReleaseInputFramesLocked(s1)} : Store(r)
    /\ workerPc' = "loop"
    /\ UNCHANGED <<workerFrame, callbackOnlyVars>>

=============================================================================
