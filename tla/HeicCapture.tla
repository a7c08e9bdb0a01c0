----------------------------- MODULE HeicCapture -----------------------------
(***************************************************************************)
(* The HEIC composite stream between its producers: the camera device     *)
(* (HAL results, shutters, buffers of the two internal streams, errors)    *)
(* and the HEVC encoder (input buffers, format change, one output per      *)
(* queued tile in order, asynchronous error).  Each environment step is   *)
(* the producer's event together with the stream callback it invokes.     *)
(***************************************************************************)
EXTENDS HeicCompositeStream

CONSTANTS
    HalErrors   \* error notifications the camera device may send

ASSUME HalErrors \subseteq
         {"bufferMain", "bufferAppSegment", "result", "requestEarly", "requestLate"}

VARIABLES
    submitted,        \* requests the client submitted
    shuttered,        \* frames whose shutter was notified
    resultSent,       \* frames whose final result or result error was sent
    requestErrored,   \* frames that got ERROR_REQUEST
    bufState,         \* stream -> frame -> buffer progress
    codecFree,        \* encoder input buffers not yet announced
    codecFormatSent   \* the encoder announced its output format

halVars == <<submitted, shuttered, resultSent, requestErrored, bufState>>
codecVars == <<codecFree, codecFormatSent>>
vars == <<streamVars, peerVars, halVars, codecVars>>

Streams == IF mAppSegmentSupported THEN {"main", "appSegment"} ELSE {"main"}

\* Camera3Stream::returnBuffer queues a filled buffer to the consumer,
\* whose onFrameAvailable runs inside queueBuffer ("queued"), and then
\* fires onBufferReleased ("returned").  "error": returned with an error
\* status, which neither queues it nor reaches onBufferReleased.
BufStates == {"pending", "queued", "returned", "error"}

Init ==
    /\ mSettingsByFrameNumber = EmptyMap
    /\ mPendingInputFrames = EmptyMap
    /\ mInputAppSegmentBuffers = <<>> /\ mAppSegmentFrameNumbers = <<>>
    /\ mInputYuvBuffers = <<>> /\ mMainImageFrameNumbers = <<>>
    /\ mYuvBufferAcquired = FALSE
    /\ mCodecOutputBuffers = <<>> /\ mCodecOutputBufferFrameNumbers = <<>>
    /\ mCodecOutputCounter = 0
    /\ mNumOutputTiles = 1
    /\ mFormat = FALSE
    /\ mCodecInputBuffers = 0
    /\ mCaptureResults = EmptyMap
    /\ mErrorFrameNumbers = {} /\ mExifErrorFrameNumbers = {}
    /\ mErrorState = FALSE
    /\ mDequeuedOutputBufferCnt = 0
    /\ trackerActive = FALSE
    /\ workerPc = "loop" /\ workerFrame = 0
    /\ appSegQueue = <<>> /\ appSegLocked = 0
    /\ yuvQueue = <<>> /\ yuvLocked = 0
    /\ codecInputQueue = <<>>
    /\ malformedSegments = {}
    /\ delivered = <<>> /\ notified = <<>> /\ faults = 0
    /\ submitted = {} /\ shuttered = {} /\ resultSent = {}
    /\ requestErrored = {}
    /\ bufState = [st \in {"main", "appSegment"} |-> [f \in FrameNumbers |-> "pending"]]
    /\ codecFree = CodecInputBufferCount
    /\ codecFormatSent = FALSE

-----------------------------------------------------------------------------
(* The camera device.  Requests are processed in frame-number order:       *)
(* shutters in order, and each stream returns its buffers in order.        *)

Earlier(f) == {g \in FrameNumbers : g < f}

\* The client submits the next request; the device asks for its buffer.
SubmitRequest ==
    \E f \in FrameNumbers \ submitted :
      /\ Earlier(f) \subseteq submitted
      /\ submitted' = submitted \cup {f}
      /\ Callback(OnBufferRequestForFrameNumber(Now, f))
      /\ UNCHANGED <<shuttered, resultSent, requestErrored, bufState, codecVars>>

NotifyShutter(f) ==
    /\ f \in submitted \ (shuttered \cup requestErrored)
    /\ Earlier(f) \subseteq shuttered \cup requestErrored
    /\ shuttered' = shuttered \cup {f}
    /\ Callback(OnShutter(Now, f, Ts(f)))
    /\ UNCHANGED <<submitted, resultSent, requestErrored, bufState, codecVars>>

SetBuf(st, f, v) == bufState' = [bufState EXCEPT ![st][f] = v]

\* The filled buffer reaches the stream's CpuConsumer.
QueueBuffer(st, f) ==
    /\ f \in shuttered /\ st \in Streams
    /\ bufState[st][f] = "pending"
    /\ \A g \in Earlier(f) : bufState[st][g] # "pending"
    /\ SetBuf(st, f, "queued")
    /\ Callback(IF st = "main" THEN OnFrameAvailableYuv(Now, Ts(f))
                ELSE OnFrameAvailableAppSegment(Now, Ts(f)))
    /\ UNCHANGED <<submitted, shuttered, resultSent, requestErrored, codecVars>>

\* An APP segment buffer whose marker lengths disagree with its trailer.
QueueMalformedSegment(f) ==
    /\ CanFault("badSegment")
    /\ f \in shuttered /\ "appSegment" \in Streams
    /\ bufState["appSegment"][f] = "pending"
    /\ \A g \in Earlier(f) : bufState["appSegment"][g] # "pending"
    /\ SetBuf("appSegment", f, "queued")
    /\ malformedSegments' = malformedSegments \cup {Ts(f)}
    /\ Store([OnFrameAvailableAppSegment(Now, Ts(f)) EXCEPT !.faults = @ + 1])
    /\ UNCHANGED <<mNumOutputTiles, mFormat, mErrorState, workerVars>>
    /\ UNCHANGED <<submitted, shuttered, resultSent, requestErrored, codecVars>>

\* The stream's buffer listener learns the buffer was filled.
ReleaseBuffer(st, f) ==
    /\ f \in shuttered /\ st \in Streams
    /\ bufState[st][f] = "queued"
    /\ \A g \in Earlier(f) : bufState[st][g] \in {"returned", "error"}
    /\ SetBuf(st, f, "returned")
    /\ Callback(OnBufferReleased(Now, st, f))
    /\ UNCHANGED <<submitted, shuttered, resultSent, requestErrored, codecVars>>

\* ERROR_BUFFER for one internal stream; its buffer returns with an error
\* status.
BufferError(st, f) ==
    /\ (IF st = "main" THEN "bufferMain" ELSE "bufferAppSegment") \in HalErrors
    /\ f \in shuttered /\ st \in Streams
    /\ bufState[st][f] = "pending"
    /\ \A g \in Earlier(f) : bufState[st][g] \in {"returned", "error"}
    /\ SetBuf(st, f, "error")
    /\ Callback(OnStreamBufferError(Now, st, f))
    /\ UNCHANGED <<submitted, shuttered, resultSent, requestErrored, codecVars>>

SendResult(f) ==
    /\ f \in shuttered \ (resultSent \cup requestErrored)
    /\ resultSent' = resultSent \cup {f}
    /\ Callback(OnResultAvailable(Now, f, Ts(f)))
    /\ UNCHANGED <<submitted, shuttered, requestErrored, bufState, codecVars>>

SendResultError(f) ==
    /\ "result" \in HalErrors
    /\ f \in shuttered \ (resultSent \cup requestErrored)
    /\ resultSent' = resultSent \cup {f}
    /\ Callback(OnResultError(Now, f))
    /\ UNCHANGED <<submitted, shuttered, requestErrored, bufState, codecVars>>

\* ERROR_REQUEST before anything of the request came back: before the
\* shutter ("requestEarly") or after it ("requestLate").  All its buffers
\* return with an error status.
RequestError(f) ==
    /\ f \in submitted \ (requestErrored \cup resultSent)
    /\ IF f \in shuttered THEN "requestLate" \in HalErrors
       ELSE "requestEarly" \in HalErrors
    /\ \A st \in Streams : bufState[st][f] = "pending"
    /\ requestErrored' = requestErrored \cup {f}
    /\ bufState' = [st \in DOMAIN bufState |->
                      IF st \in Streams THEN [bufState[st] EXCEPT ![f] = "error"]
                      ELSE bufState[st]]
    /\ Callback(OnRequestError(Now, f))
    /\ UNCHANGED <<submitted, shuttered, resultSent, codecVars>>

-----------------------------------------------------------------------------
(* The HEVC encoder.                                                       *)

CodecInputAvailable ==
    /\ codecFree > 0
    /\ codecFree' = codecFree - 1
    /\ Callback(OnHeicInputFrameAvailable(Now))
    /\ UNCHANGED <<halVars, codecFormatSent>>

\* The output format is announced once, before the first output.
CodecFormatChanged ==
    /\ ~codecFormatSent
    /\ codecFormatSent' = TRUE
    /\ OnHeicFormatChanged
    /\ Store(Now)
    /\ UNCHANGED <<halVars, codecFree>>

\* The oldest queued tile is encoded; its input buffer returns to the codec.
CodecEncode ==
    /\ codecFormatSent /\ codecInputQueue # <<>>
    /\ codecFree' = codecFree + 1
    /\ Callback(OnHeicOutputFrameAvailable(
           [Now EXCEPT !.codecInputQueue = Tail(@)], Head(codecInputQueue)))
    /\ UNCHANGED <<halVars, codecFormatSent>>

CodecError ==
    /\ CanFault("codecError") /\ ~mErrorState
    /\ OnHeicCodecError
    /\ Store([Now EXCEPT !.faults = @ + 1])
    /\ UNCHANGED <<halVars, codecVars>>

-----------------------------------------------------------------------------

WorkerStep(A) == A /\ UNCHANGED <<halVars, codecVars>>
Worker == WorkerStep(WorkerLoop) \/ WorkerStep(WorkerProcess)

\* The camera device's steps that complete a request as asked.
HalProgress ==
    \E f \in FrameNumbers :
      \/ NotifyShutter(f) \/ SendResult(f)
      \/ \E st \in Streams : QueueBuffer(st, f) \/ ReleaseBuffer(st, f)

\* The encoder's steps other than its asynchronous error.
CodecProgress == CodecInputAvailable \/ CodecFormatChanged \/ CodecEncode

Next ==
    \/ Worker
    \/ SubmitRequest
    \/ HalProgress
    \/ \E f \in FrameNumbers :
         \/ SendResultError(f) \/ RequestError(f) \/ QueueMalformedSegment(f)
         \/ \E st \in Streams : BufferError(st, f)
    \/ CodecProgress
    \/ CodecError

\* The worker thread and the encoder keep running, and the camera device
\* completes what it was asked for; the client need not submit.  Camera
\* and encoder steps are finitely many, so weak fairness of their
\* disjunction makes each of them happen.  WF of the worker's two steps is
\* written out as its definition, []<>~ENABLED <<A>>_vars \/
\* []<><<A>>_vars, with the ENABLED term as a state predicate:
\* WorkerLoopCanChange for the locked iteration, and workerPc = "process"
\* for processInputFrame, which always moves the pc.
Fairness ==
    /\ []<>~WorkerLoopCanChange \/ []<><<WorkerStep(WorkerLoop)>>_vars
    /\ []<>(workerPc # "process") \/ []<><<WorkerStep(WorkerProcess)>>_vars
    /\ WF_vars(HalProgress)
    /\ WF_vars(CodecProgress)

Spec == Init /\ [][Next]_vars /\ Fairness

-----------------------------------------------------------------------------
(* Properties.                                                             *)

Keys == FrameNumbers \cup {Ts(f) : f \in FrameNumbers}
FrameRec == [appSegmentBuffer : {NoBuffer} \cup {Ts(f) : f \in FrameNumbers},
             codecOutputBuffers : Seq(FrameNumbers), result : BOOLEAN,
             yuvBuffer : {NoBuffer} \cup {Ts(f) : f \in FrameNumbers},
             codecInputBuffers : 0 .. GridTiles, error : BOOLEAN,
             exifError : BOOLEAN, timestamp : {-1, 0} \cup {Ts(f) : f \in FrameNumbers},
             format : BOOLEAN, muxer : BOOLEAN, anb : BOOLEAN,
             appSegmentWritten : BOOLEAN, pendingOutputTiles : 0 .. GridTiles,
             codecInputCounter : 0 .. GridTiles, muxed : Seq(FrameNumbers)]

TypeOK ==
    /\ DOMAIN mPendingInputFrames \subseteq Keys
    /\ \A k \in DOMAIN mPendingInputFrames : mPendingInputFrames[k] \in FrameRec
    /\ DOMAIN mSettingsByFrameNumber \subseteq FrameNumbers
    /\ mCodecOutputCounter \in 0 .. GridTiles
    /\ mNumOutputTiles \in {1, GridTiles}
    /\ mCodecInputBuffers \in 0 .. CodecInputBufferCount
    /\ mDequeuedOutputBufferCnt \in Nat
    /\ workerPc \in {"loop", "process", "exited"}
    /\ appSegLocked \in 0 .. kMaxAcquiredAppSegment
    /\ yuvLocked \in 0 .. kMainImageMaxLockedBuffers
    /\ bufState \in [{"main", "appSegment"} -> [FrameNumbers -> BufStates]]
    /\ codecFree \in 0 .. CodecInputBufferCount

DeliveredFrames == {delivered[i].frame : i \in DOMAIN delivered}
NotifiedFrames == Range(notified)

\* Buffers and tiles are attributed to the right capture: every pending
\* entry is keyed by a submitted frame that has not yet produced an
\* outcome, and holds only that frame's YUV and APP segment buffers and
\* encoder tiles cut from that frame's image.  It is about the FIFO
\* correlation in compilePendingInputLocked (frame-number queues against
\* timestamp lists, mCodecOutputCounter) and about entries re-created by
\* mPendingInputFrames[key] after a frame was released.
FrameAttribution ==
    \A k \in DOMAIN mPendingInputFrames :
      LET fr == mPendingInputFrames[k] IN
      /\ k \in submitted \ (DeliveredFrames \cup NotifiedFrames)
      /\ fr.yuvBuffer \in {NoBuffer, Ts(k)}
      /\ fr.appSegmentBuffer \in {NoBuffer, Ts(k)}
      /\ \A i \in DOMAIN fr.codecOutputBuffers : fr.codecOutputBuffers[i] = k
      /\ \A i \in DOMAIN fr.muxed : fr.muxed[i] = k

\* Every HEIC blob queued to the output surface holds exactly the grid's
\* tiles, all cut from its own capture, and carries that capture's shutter
\* timestamp (processCompletedInputFrame after pendingOutputTiles reached
\* zero, native_window_set_buffers_timestamp(inputFrame.timestamp)).
OutputIntegrity ==
    \A i \in DOMAIN delivered :
      /\ delivered[i].tiles = [j \in 1 .. GridTiles |-> delivered[i].frame]
      /\ delivered[i].timestamp = Ts(delivered[i].frame)

\* Each frame has at most one outcome: it is queued to the output surface
\* at most once, reported through notifyError at most once, and never
\* both (releaseInputFrameLocked's notifyError against
\* processCompletedInputFrame).
SingleOutcome ==
    /\ IsInjective(notified)
    /\ IsInjective([i \in DOMAIN delivered |-> delivered[i].frame])
    /\ DeliveredFrames \cap NotifiedFrames = {}

\* Every locked camera buffer and dequeued output buffer is held by a
\* pending frame, and the output surface never has more than
\* kMaxOutputSurfaceProducerCount buffers dequeued (lockNextBuffer,
\* unlockBuffer, dequeueBuffer, queueBuffer and cancelBuffer against the
\* InputFrame fields that hold them).
BufferAccounting ==
    LET P == mPendingInputFrames
    IN /\ appSegLocked = Quantify(DOMAIN P, LAMBDA k : P[k].appSegmentBuffer # NoBuffer)
       /\ yuvLocked = Quantify(DOMAIN P, LAMBDA k : P[k].yuvBuffer # NoBuffer)
       /\ mYuvBufferAcquired = (yuvLocked > 0)
       /\ mDequeuedOutputBufferCnt = Quantify(DOMAIN P, LAMBDA k : P[k].anb)
       /\ mDequeuedOutputBufferCnt <= kMaxOutputSurfaceProducerCount

\* No encoder input buffer is lost: each is with the encoder, announced
\* and unassigned, assigned to a pending frame, or queued with a tile
\* (the distribution loop, processCodecInputFrame and
\* releaseInputFrameLocked).
CodecInputConservation ==
    LET P == mPendingInputFrames
    IN codecFree + mCodecInputBuffers + Len(codecInputQueue)
         + SumFunction([k \in DOMAIN P |-> P[k].codecInputBuffers])
       = CodecInputBufferCount

\* A frame has an outcome once it is in the output surface, has been
\* reported through notifyError, or the request failed before its shutter
\* (nothing is owed to the client for it then).
Resolved(f) ==
    f \in DeliveredFrames \cup NotifiedFrames \/ f \in requestErrored \ shuttered

\* Every submitted capture is eventually resolved, while the encoder and
\* the camera device keep working (threadLoop, the compile/select/process
\* cycle and the release of failed frames).
FrameEventuallyResolved ==
    \A f \in FrameNumbers : f \in submitted ~> Resolved(f)

\* Once nothing is pending, the stream is eventually reported idle to the
\* status tracker (markTrackerIdle in releaseInputFramesLocked and in the
\* failing-frame path of threadLoop).
TrackerEventuallyIdle ==
    [](  (/\ DOMAIN mPendingInputFrames = {}
          /\ DOMAIN mSettingsByFrameNumber = {})
       ~> ~trackerActive)

\* When the worker thread exits after an encoder error, no frame is left
\* pending: every remaining frame was released and reported (threadLoop's
\* mErrorState branch, which returns false after releaseInputFramesLocked).
ExitOnlyWhenDrained ==
    workerPc = "exited" => DOMAIN mPendingInputFrames = {}

\* A capture whose APP segment buffer is malformed is not failed for it:
\* the segment error stays scoped to the metadata (processAppSegment's
\* findAppSegmentsSize check).
SegmentErrorScoped ==
    \A f \in FrameNumbers : Ts(f) \in malformedSegments => f \notin NotifiedFrames

=============================================================================
