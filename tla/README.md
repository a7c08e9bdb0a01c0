# TLA+ models of the camera service

This directory holds TLA+ models of three parts of the camera service: the
shared camera session (several clients on one camera, see
[Shared session](#shared-session) below), the stream configuration of
camera clients (see [Stream configuration](#stream-configuration)), the
parser of the JPEG APP segments blob (see [APP segment parser](#app-segment-parser)), the
cutting of a capture into encoder tiles (see [Tile copy](#tile-copy)) and the
HEIC composite stream (`src/api2/HeicCompositeStream.cpp`, `.h`). It also holds the TLC
configurations that check them. The stream turns one capture into a HEIC
file. A capture arrives as a YUV image, a JPEG APP segment buffer, a
capture result and a shutter. The stream cuts the YUV image into grid
tiles, encodes them with an HEVC encoder and muxes the tiles and the APP
segment into a HEIF container. It then queues the container to the
client's output surface.

## The system and how its parts interact

| Part | Code | Thread |
|---|---|---|
| Producer callbacks | `onBufferRequestForFrameNumber`, `onShutter`, `onFrameAvailable`, `onBufferReleased`, `onResultAvailable` (base class), `onResultError`, `onRequestError`, `onStreamBufferError` | camera callback threads |
| Encoder callbacks | `CodecCallbackHandler::onMessageReceived` → `onHeicInputFrameAvailable`, `onHeicOutputFrameAvailable`, `onHeicFormatChanged`, `onHeicCodecError` | encoder looper |
| Worker | `threadLoop`: `compilePendingInputLocked`, `getNextReadyInputLocked`, `getNextFailingInputLocked`, `processInputFrame` (unlocked), `releaseInputFramesLocked` | worker thread |

All shared state is guarded by `mMutex`. Callbacks only append to queues and
sets:

- settings and results;
- frame numbers and timestamps per internal stream;
- encoder input indices and encoder outputs;
- error frame numbers.

The worker turns these into `InputFrame` entries of `mPendingInputFrames`. It
matches buffers to frames by FIFO order and checks timestamps. It attributes
encoder outputs to frames by counting tiles (`mCodecOutputCounter`). The
worker alone touches an `InputFrame` while it processes one without the lock.

## Modules

- **`HeicCompositeStream.tla`** is the stream itself.
  - **State.** VARIABLES keep the code's member names: `mSettingsByFrameNumber`, `mPendingInputFrames`, the four FIFO queues, `mCodecOutputCounter`, `mNumOutputTiles`, `mYuvBufferAcquired`, `mDequeuedOutputBufferCnt`, `mErrorState`, and so on. Some variables describe the peers and their counts:
    - `appSegQueue`, `appSegLocked`, `yuvQueue` and `yuvLocked` are the CpuConsumers' queued and locked buffers.
    - `codecInputQueue` is the tiles queued to the encoder.
    - `delivered` is the blobs queued to the output surface.
    - `notified` is the `notifyError` calls.
    - `trackerActive` is the status tracker.
  - **Callbacks.** Each callback is a state transformer `OnX(s, ...)` over a record `Now` of the shared state. The environment composes it with `Store`, which primes every field.
  - **Worker.** `compilePendingInputLocked` is one operator per stage (`CompileSettings`, `CompileAppSegments`, `CompileYuv`, `CompileCodecOutputs`, `CompileResults`, `CompileErrors`, `DistributeCodecInputs`). The loops are RECURSIVE operators. `std::map::operator[]` is modelled as `FrameAt`/`PutFrame`: a missing key is default-constructed. The worker has two actions:
    - `WorkerLoop` is the locked part of one `threadLoop` iteration: compile, select, release a failing frame, or exit in the error state.
    - `WorkerProcess` is `processInputFrame` followed by the locked release. `processInputFrame` runs unlocked, but as one step, because no other thread touches the frame.
  - **Library failures.** Failures of `getInputBuffer`/`queueInputBuffer`, `dequeueBuffer`, muxer start, `processAppSegment`, `writeSampleData` and the completion step are one nondeterministic choice, `ProcessFailures`. They are bounded by `MaxFaults`.
  - **Faulty variants.** Operators such as `ReleaseInputFrameLockedAlwaysNotify` are faulty versions of the code, each one slip away from the original. They are used to show that each property of a passing run can be violated.
- **`HeicCapture.tla`** composes the stream with its environment:
  - The camera device submits requests in order, sends shutters in order, and returns buffers per stream in order. A buffer is queued to the CpuConsumer before its release callback. The device also sends results.
  - The device sends the errors in `HalErrors`: a main or APP segment buffer error, a result error, and a request error before or after the shutter.
  - The HEVC encoder supplies `CodecInputBufferCount` input buffers. It announces its format once and encodes FIFO. It may report an async error.
  - This module holds `Init`, `Next`, the fairness and all properties.
- **`MCHeicCapture.tla`** gives the model constants: two frames, a 1x2 grid, two encoder input buffers, and shutter timestamps 11 and 12.

## Properties

| Property | States | Code |
|---|---|---|
| `FrameAttribution` | every pending entry is a submitted, unresolved frame and holds only its own buffers and tiles | FIFO matching in `compilePendingInputLocked`, `operator[]` |
| `OutputIntegrity` | a delivered blob has exactly `GridTiles` tiles of its own capture and its shutter timestamp | `processCompletedInputFrame` |
| `SingleOutcome` | each frame is delivered or notified at most once, never both (checked only with an encoder error, below) | `releaseInputFrameLocked`, `processCompletedInputFrame` |
| `BufferAccounting` | every locked buffer or dequeued output buffer is held by a pending frame, and at most one output buffer is dequeued | lock/unlock, dequeue/queue/cancel |
| `CodecInputConservation` | every encoder input buffer is with the encoder, announced, assigned, or queued | distribution loop, `processCodecInputFrame`, release |
| `FrameEventuallyResolved` | every submitted capture is eventually delivered or notified, or failed before its shutter | `threadLoop` |
| `TrackerEventuallyIdle` | once nothing is pending, the tracker is eventually idle | `markTrackerIdle` |
| `ExitOnlyWhenDrained` | the worker does not exit with frames pending | error branch of `threadLoop` |
| `SegmentErrorScoped` | a malformed APP segment does not fail the capture | `processAppSegment` |

## Runs

Passing runs:

| Run | Bounds and errors | Result |
|---|---|---|
| `pipeline` | camera drops APP segments, fails results, fails requests early | 123,957 distinct states; `TypeOK`, `FrameAttribution`, `OutputIntegrity`, `BufferAccounting` and `CodecInputConservation` hold. No `notifyError` is reachable without an encoder error, so `SingleOutcome` is not checked here |
| `liveness` | no errors, one encoder input buffer | 20,393 states; every capture delivered, tracker idle |
| `faults_library` | main-buffer error, late request error, and one failed `lockNextBuffer` or `processInputFrame` library call | 495,195 states in under a minute; `OutputIntegrity` still holds |
| `faults_async` | one encoder error or one malformed APP segment; after an encoder error the stream stops, so deadlock is not checked | 724,401 states in under a minute; `OutputIntegrity` still holds |

Violation runs. Each checks one property, and TLC finds a counterexample of
5-12 states (see `findings` in `PROJECT.json`):

- `codec_input_leak`: encoder inputs are lost on release.

Supplementary configurations. They are not among the project's listed runs,
but `tlc -config <file> MCHeicCapture` reproduces each counterexample:

- `MCHeicCapture_appseg_lock_leak.cfg` (`BufferAccounting`): a late APP segment buffer is dropped without `unlockBuffer`, although the comment at `HeicCompositeStream.cpp:823-825` says it is returned to the queue.
- `MCHeicCapture_zombie_entry.cfg` (`FrameAttribution`): `mPendingInputFrames[bufferFrameNumber]` (line 897) re-creates a released frame when its late encoder outputs arrive, against the comment at 2334-2339.

- `MCHeicCapture_lock_failure.cfg` (`FrameAttribution`): a lock failure flags an entry keyed by a timestamp.
- `MCHeicCapture_codec_error_outcome.cfg` (`SingleOutcome`): a delivered frame is also reported failed after an encoder error. This is the only configuration that checks `SingleOutcome`: it needs the encoder error, which the pipeline run leaves out.
- `MCHeicCapture_error_state_exit.cfg` (`ExitOnlyWhenDrained`): the worker exits with frames pending.
- `MCHeicCapture_malformed_segment.cfg` (`SegmentErrorScoped`): a malformed APP segment fails the whole frame.
- `MCHeicCapture_tracker_request_error.cfg` (`TrackerEventuallyIdle`): the stream is never marked idle after the last request fails early.

**Why these bounds are enough.** Two frames are the fewest that can exercise
several behaviours:

- FIFO attribution across frames;
- the single YUV slot and the single output buffer being passed on;
- a late buffer of a released frame meeting the next frame's entry.

A 1x2 grid makes tile counting (`mCodecOutputCounter`) and partial failures
meaningful. Two encoder input buffers allow one frame to hold some of its
tiles while others are queued. The liveness run uses one: liveness checking
is far more costly per state, and one buffer still makes every tile pass
through the encoder in turn. One fault per run isolates each failure path.
The faulty variants show that each property is violated by a plausible slip
under the run's own bounds.

## Fairness

- **Worker.** The worker is weakly fair in both of its actions. `threadLoop` is re-run by the thread framework until it returns false, and its timed wait (`kWaitDuration`) bounds every sleep. `WorkerLoop`'s fairness is written out as `[]<>~WorkerLoopCanChange \/ []<><<...>>_vars`. This is the definition of WF with an equivalent state predicate for ENABLED, so that TLC does not evaluate `ENABLED` through the recursive compile operators.
- **Camera device.** The device steps that complete a request (shutter, result, queue and release of buffers) are weakly fair together. The device eventually completes every request.
- **Encoder.** Encoder steps (input available, format changed, encode) are weakly fair together.
- **Errors and faults.** Errors and faults are never fair.

## Shared session

In shared mode several applications open one camera. Each has a
`CameraDeviceClient` (`src/api2/CameraDeviceClient.cpp`), and all of them use
one `AidlCamera3SharedDevice` (`src/device3/aidl/AidlCamera3SharedDevice.cpp`)
per camera id. Only the primary client may submit requests
(`submitRequestList`); every client may `startStreaming`, which joins the
running repeating request or starts a preview request. The shared device
renames every request with its own id (`mRequestIdCounter`), merges the
clients' surface maps into one repeating request, and records each client's
id and surfaces (`mClientRequestIds`, `mClientSurfaces`). Results come back
on the shared frame processor thread, which hands each one to every client's
`onResultAvailable`; errors are fanned out by the device's `notifyError`.
Each client maps the shared id back to its own request id
(`mSharedStreamingRequest`, `mSharedRequestMap`) or drops the result.

**`SharedSession.tla`**:
- **State.** Device variables keep the code's names (`sClientsPid`, `mClientRequestIds`, `mClientSurfaces`; the device's `mStreamingRequestId` and `mRequestIdCounter` are `devStreamingRequestId` and `devRequestIdCounter`). Client variables are functions of the client: `mStreamingRequestId`, `mSharedStreamingRequest`, `mSharedRequestMap`, `mRequestIdCounter`, `mStreamingRequestLastFrameNumber`, `mDeviceActive`. `Camera3Device`, which is not in the repository, is the environment: the repeating request, `mRepeatingLastFrameNumber`, the request queue, the frame counter and the requests in flight.
- **Surface maps.** A `SurfaceMap` is a function from stream to a sequence of surfaces. `mergeSurfaceMaps` appends vectors (a surface can appear twice); `removeClientSurfaceMap` erases every copy and drops a key whose vector it empties.
- **Binder calls.** Each call is split where the client's code runs unlocked with respect to the result path: the part up to and including the device call (`SubmitStreamingRequest`, `SubmitCaptureRequest`, `StartStreaming`, `CancelRequest`, `Flush`), and the rest (`StreamingReturn`, `CaptureReturn`, `CancelReturn`, `FlushReturn`). `mBinderSerializationLock` allows one call per client at a time (`pending`). `Disconnect` is `detachDevice` with `disconnectClient` (its own operator: the last pid to leave leaves an idle device); `Connect` is `getInstance`, which creates a fresh device when no pid is left. `cancelRequest` is enabled only while the client streams: the code also accepts `cancelRequest(REQUEST_ID_NONE)` with no streaming request and calls the device, but enabling that in every idle state multiplies the state space beyond the runs' budget.
- **Initial values.** `mSharedStreamingRequest` is not in the constructor's initializer list, and its declaration is not in this repository. The model starts it at `<<REQUEST_ID_NONE, REQUEST_ID_NONE>>`, the value `clearSharedStreamingRequest` restores (2653-2654) and the result path reads as "not streaming" (2697).
- **Routing.** `onResultAvailable` and `notifyError` are operators over one client's routing state. `RouteToClients` folds them over the events of one step for every connected client: the frame processor delivers a result to all listeners in one loop, and the clients' routing states are disjoint, so the fan-out loses no behaviour by being one step. `delivered` holds what the last step handed to each application.
- **Failures.** `DeviceFaults` lets `setStreamingRequestList`, `captureList` or `createDefaultRequest` fail. A failed `setSharedCaptureRequest` leaves `sharedReqID` unwritten: the value the client then uses is any of `GarbageIds`. `DeviceErrors` lets the HAL fail a request with `ERROR_CAMERA_REQUEST`.
- **Faulty variants** (`removeClientSurfaceMapKeepEmpty`, `matchSharedStreamingRequestByClientId`, `CaptureReturnSwapped`, ...) are one slip away from the code, as for the HEIC stream.

**`MCSharedSession.tla`** gives a primary `p` with surfaces `p1`, `p2` on two streams and a secondary `s` with `s1` on the first (or one surface each on one stream). `SurfaceVectorBound` cuts behaviours where a repeating request's vector passes two surfaces: a client that reconnects and joins again grows it without limit.

| Property | States | Code |
|---|---|---|
| `DeliveryAttributed` | a result or error reaches a client's application only under the id of the request that produced it | id renaming in the shared device, `onResultAvailable`, `notifyError` |
| `ClientSurfacesStreamed` | while a repeating request runs, every surface recorded for a client is in it | `mergeSurfaceMaps`, `removeClientSurfaceMap`, `mClientSurfaces` |
| `RepeatingSurfacesOwned` | every surface of the repeating request is recorded for some client (the comment in `setSharedStreamingRequest`) | `setSharedStreamingRequest` |
| `StreamingClientsMatched` | a returned client whose surfaces are in the repeating request knows its shared id | `mSharedStreamingRequest` |
| `CancelledStreamBounded` | after `cancelRequest` returned last frame L, no result past L reaches the client (the comment in `onResultAvailable`) | `sharedStreamingLastFrame` |
| `ClientEventuallyIdle` | a client with nothing left to do is eventually marked idle | `markClientIdle` |
| `CaptureResolved` | an accepted capture eventually reaches the application | `mSharedRequestMap` |

Passing runs:

| Run | Bounds | Result |
|---|---|---|
| `session` | three surfaces, two request ids per client and device, two frames, HAL errors; no flush, disconnect or device failure | 211,309 states; `DeliveryAttributed` and `ClientSurfacesStreamed` hold |
| `lifecycle` | three surfaces, every call (flush, disconnect, reconnect), every device failure, HAL errors; one request id per client and per device lifetime | 62,713 states; `ClientSurfacesStreamed` holds: a failing `setStreamingRequestList`, a disconnect or a fresh device never leaves a surface recorded for a client outside the repeating request. With one request id the flush case below is not reached. The faulty `removeClientSurfaceMapEraseKey` (the key erased with a surface still on it) breaks it |

`session` does not check deadlock: a behaviour ends when the applications
have used their request ids and the repeating request its frames, and the
service then waits for binder calls. In `lifecycle` a client can always
disconnect or reconnect, so deadlock is checked. `lifecycle` has one shared
id per device lifetime, so a garbage `sharedReqID` can never equal a later
id there, and `DeliveryAttributed` would hold by construction; it is
checked in `session`, and `failed_capture_entry` below shows what happens
when a garbage id can match.

Violation runs (findings in `PROJECT.json`):

- `reissue_orphans_secondary` (`StreamingClientsMatched`): a primary re-issue gives the repeating request a new shared id; a secondary that joined earlier drops all its results.
Supplementary configurations (not listed runs; `tlc -config <file> MCSharedSession` reproduces each):

- `MCSharedSession_capture_result_race.cfg` (`CaptureResolved`, violated): `submitRequestList` writes `mSharedRequestMap[sharedReqID]` (`CameraDeviceClient.cpp:762`) after the request is queued; a result the frame processor routes before that write finds no entry and is dropped.

- `MCSharedSession_reissue_stale_surfaces.cfg` (`RepeatingSurfacesOwned`): a re-issue merges the primary's own old surfaces, which no client then owns; the comment at `AidlCamera3SharedDevice.cpp:428-429` says only secondary clients' surfaces are merged.
- `MCSharedSession_cancel_extra_result.cfg` (`CancelledStreamBounded`): a cancelled client receives a result past the last frame number `cancelRequest` returned (comment at `CameraDeviceClient.cpp:2646-2649`).
- `MCSharedSession_failed_capture_entry.cfg` (`DeliveryAttributed`): a failed capture stores `mSharedRequestMap[sharedReqID]` with an uninitialized id, and a later request's result goes to the application as that capture's.
- `MCSharedSession_flush_stops_secondary.cfg` (`ClientSurfacesStreamed`): flush clears every client's repeating request behind the shared device's bookkeeping.
- `MCSharedSession_cancel_never_idle.cfg` (`ClientEventuallyIdle`): the last result is routed before `cancelRequest` (`CameraDeviceClient.cpp:807`) resets `mStreamingRequestId`, and the client is never marked idle. It was a listed run until the run list needed its place.
- `MCSharedSession_device_faults.cfg` (`ClientSurfacesStreamed`, passes, 147,819 states): failing device calls record no surfaces.

**Bounds.** Two clients are the fewest that share a request; two streams let the primary re-issue with other surfaces and let a cancel empty one key and not the other. Two request ids per client and per device allow a re-issue, a join after a request, or a capture after a stream. Two frames let a result fall before and after a cancel's last frame number.

**Fairness.** The request thread and the HAL (`IssueRequest`, `CompleteRequest`) are weakly fair, and so is the return of each binder call once its device part has run: the code finishes a call without waiting for anything. Applications' calls are never forced.

## Stream configuration

A `CameraDeviceClient` keeps its own view of the streams it created:
`mStreamMap` (surface key to stream id and surface id, from which every
request is built), `mConfiguredOutputs`, `mDeferredStreams`,
`mStreamInfoMap` (finalized and offline flags), `mCompositeStreamMap` and
`mInputStream`. The device holds the streams. A surface-shared stream puts
its consumers in numbered surface ids, at most `kMaxOutputs` (4), lowest
free id first. In a shared session, `AidlCamera3SharedDevice::beginConfigure`
creates one such stream per shared configuration, with an opaque consumer
in surface id 0. Each client then adds and removes its own surfaces:
`addSharedSurfaces` from `createStream`, and `removeSharedSurfaces` from
`deleteStream` and `detachDevice`.

**`StreamConfig.tla`**:
- **State.** Each client map is a function of the client (`streamMap`, `configuredOutputs`, `deferredStreams`, `streamInfoMap`, `compositeStreamMap`, `inputStream`). The device side is `devStreams`, which maps each stream id to its surface ids and consumers, whether it is updatable, its stream info and whether the HAL can keep it offline. It also holds `devInput`, `nextStreamId` and `sharedStreamInfo` (the shared device's `mStreamInfoMap`). Surfaces are model values, and an `OutputStreamInfo` is a small number: surfaces with equal numbers are compatible.
- **Actions.** There is one action per binder call, since `mBinderSerializationLock` and `mSharedDeviceLock` make each call atomic:
  - `BeginConfigure`;
  - `CreateSharedStream`, `CreateOutputStream`, `CreateCompositeStream`, `CreateDeferredStream` and `CreateInputStream` (the branches of `createStream`);
  - `DeleteStream`, `UpdateOutputConfiguration`, `FinalizeOutputConfigurations`, `EndConfigure`, `SwitchToOffline` and `Disconnect` (the stream part of `detachDevice`).
- **Error returns.** A binder call's early error returns change nothing, so they are the stuttering steps. `BeginConfigure` keeps the two outcomes that change state (success, and a failed `configureStreams` after the shared streams exist) and collapses the other error returns of 214-299 into stuttering.
- **Deferred streams.** `CreateDeferredStream` is enabled only outside a shared session. In the code the deferred check (1141) comes before the shared-mode branch, so a shared client's deferred configuration creates an unshared stream on the device; with that path the streams run's state space grows beyond its budget.
- **Outcomes of code outside this repository.** These are chosen by `\E`:
  - which streams the HAL can keep offline;
  - a failing `configureStreams`;
  - a composite `configureStream` failure;
  - the order of `updateStream`'s `outputMap`;
  - whether the offline client is registered.
- **Composite faults.** `CompositeFaults` lets `createInternalStreams` return after creating the APP segment stream, or after creating both internal streams.
- **`MCStreamConfig.tla`**:
  - client `c1` has surfaces `a1` and `a2` (compatible) and the HEIC surface `h1`;
  - client `c2` has `b1`, which is compatible with `h1`;
  - `MaxStreams` is 3, so there are three stream ids, and a configuration holds at most 2 surfaces.

| Property | States | Code |
|---|---|---|
| `ClientMatchesDevice` | every `mStreamMap` entry of a live client names a device stream that holds that surface (or the composite's internal surface) at that surface id | every call that adds or removes surfaces |
| `SharedSlotsAccounted` | the surface ids in use on a shared stream are exactly the opaque consumer's and those the attached clients record, with no id recorded twice | `addSharedSurfaces`, `removeSharedSurfaces`, `detachDevice` |
| `DeviceStreamsTracked` | every stream of a non-shared device is reachable from the client's bookkeeping | `createInternalStreams` |
| `ImplementsRegistry` | every step implements `StreamRegistry` | every binder call that creates, changes or deletes streams |

**`StreamRegistry.tla`** is the abstract specification: what the stream
configuration promises its clients, with the bookkeeping left out. Its
state is the stream ids handed out (`issued`), each stream's application
surfaces (`consumers`) and the streams pinned for a shared session. Its
steps are those of a client: `Issue` fresh ids, `Reconfigure` one stream
by removing only its own surfaces and adding only its own that no stream
has, `Detach` its surfaces from every stream at once, and `Remove` streams
that are not pinned and carry no other client's surface. `StreamConfig`
instantiates it as `Registry` with the refinement mapping
`issued <- 0..nextStreamId-1`, `consumers <-` the surfaces in each device
stream's surface ids, and `pinned <-` the streams holding the opaque
consumer, and checks `ImplementsRegistry == Registry!Spec`. Its `Next`
compares the two states first (`issued' # issued`, `consumers' # consumers`),
so it is a relation checked as a property rather than a specification TLC
runs on its own; that order keeps the check cheap on the many steps that
leave the abstract state unchanged.

The passing run `streams` covers both camera modes: one client without a
shared session, or `c1` and `c2` sharing the stream that `h1` and `b1` fit.
It reaches 321,054 states in about a minute and a half, and `TypeOK`,
`ClientMatchesDevice`, `SharedSlotsAccounted` and `ImplementsRegistry`
hold. The faulty variant `DeleteStreamWholeShared`, a shared client's
`deleteStream` deleting the whole stream, breaks the refinement. Deadlock is not
checked: a behaviour ends after `switchToOffline`, once every client has
detached, or when the stream ids are used up. Two clients are the fewest
that share a stream. Three stream ids allow a composite (two internal
streams) next to one more stream, or a failed configuration followed by a
retry. Two surfaces per configuration allow a surface-shared stream, and
`updateOutputConfiguration` removing one surface while adding another. The
model has no fairness: binder calls come when applications make them, and
only safety is checked.

Violation run `shared_surface_ids` (`ClientMatchesDevice`): the shared session
also configures a stream for `a1` and `a2`, and one `createStream` with both
records them under each other's surface ids (finding in `PROJECT.json`).
A request that names one of the two surfaces reaches the other's consumer.
`detachDevice` (2503-2511) removes all of a client's ids on the stream, so
it is not affected.

Supplementary configuration `MCStreamConfig_composite_stream_leak.cfg`
(`DeviceStreamsTracked`): a HEIC `createStream` that fails after the APP
segment stream was created leaves that stream on the device. No client
record points to it. `~HeicCompositeStream` only forgets the stream ids.
This is not a listed run because the run list is full.

## APP segment parser

`HeicCompositeStream::findAppSegmentsSize` checks the JPEG APP segments
blob the HAL fills. The blob ends in an 8-byte `CameraBlob` header: a
little-endian `blobId`, which must be `JPEG_APP_SEGMENTS` (0x100), and
`blobSizeBytes`, the size of the segments at the start of the buffer. The
segments must be an APP1 segment (`FF E1` and a big-endian 16-bit length)
followed by APPn segments with `E1 < n <= EF`, ending exactly at that size.
`processAppSegment` hands the APP1 segment to `ExifUtils` and copies the
rest of the segments after the regenerated APP1 segment.

**`AppSegments.tla`**:
- **State.** `buf` maps each position to a byte, or `UNREAD`. The header bytes are fixed by the `blobId` and size the HAL wrote (`HalBuffer`, little-endian). A data byte takes any value of `Bytes` the first time the parser reads it (`ReadFrom`) and keeps it. The states therefore enumerate every buffer over `Bytes`, sharing the prefixes the parser has read. `reads` records the positions read. `expectedSize`, `totalSize`, `app1Size`, `app1SegmentSize` and `result` are the function's variables.
- **Actions.** Each action is one step of the function: `CheckHeader` (lines 2079-2092), `CheckApp1` (2094-2107), one iteration of the APPn loop, `NextAppSegment` (2111-2125), and `FinishSegments` (2127-2134). Reads follow the code's short-circuit order: the second marker byte is read only if the first matched, and the length only after a valid marker.
- **Length field.** The 16-bit length counts itself and the payload, not the marker: after the marker (`totalSize += 2`, 2120) the loop adds the length (2124), so `NextAppSegment` advances by 2 plus the length.
- **Reference.** `SegmentsFrom(b, o, len, first)` (RECURSIVE) says the bytes from `o` to `len` can be split into segments: a marker (APP1 first, then APPn), a length of at least 2, and the segment inside `len`. An unread byte (`UNREAD`) may be any value of `Bytes` (`Poss`). `CanBeWellFormed(b, len)` is `SegmentsFrom(b, 0, len, TRUE)`.
- **`MCAppSegments.tla`**: `Bytes` holds lengths 0, 1 and 2 (either side of the 2-byte minimum), 12 (a jump from the data past the header), APP1, the APPn bounds E2 and EF, F0 just above them, and FF. `BlobIds` is `JPEG_APP_SEGMENTS` and one other id. There are 16 data bytes, enough for an APP1 segment and two APPn segments, and blob sizes up to 4 past the end of the buffer.

| Property | States | Code |
|---|---|---|
| `RejectsOnlyMalformed` | with a valid header and size, the parser returns 0 only when no value of the bytes it did not read makes the declared segments well formed: a well-formed blob is never rejected | the APPn loop at 2111-2125, its length advance in particular |
| `AcceptedWellFormed` | on success, the first `expectedSize` bytes can be well-formed APP segments | the whole function |

The passing run `parser` (`MCAppSegments_parser.cfg`) reaches 18,896 states
in seconds, and `RejectsOnlyMalformed` holds. The function returns, so every
behaviour ends and deadlock is not checked. The faulty variant
`NextAppSegmentSkipsLength` (advancing by 4 plus the length, as if the
length excluded its own two bytes) breaks it.

Supplementary configuration `MCAppSegments_segment_overrun.cfg`
(`AcceptedWellFormed`, violated): the buffer `FF E1 00 00` with blob size 2
is accepted with an APP1 segment of 2 bytes. The length field lies past
the declared size. More generally, a last segment is accepted when its
length field lies at or past `expectedSize`, or when its length is below 2.
The result then depends on bytes outside the segments, the blob header
included, and `ExifUtils::initialize` receives an APP1 segment of 2 or 3
bytes. It is not a listed run because the run list is full (hazard in
`PROJECT.json`).

## Tile copy

With a grid (`useGrid`), or on the HDR gainmap path, the HEVC encoder takes
YUV input buffers, and the worker fills them. `configureCodecs` (lines
1976-2020) chooses the grid: tiles of `kGridWidth` x `kGridHeight` and
`ceil(height / gridHeight)` x `ceil(width / gridWidth)` of them, or a single
tile of the whole image without a grid. The distribution loop gives each
frame `mGridRows * mGridCols` codec input buffers with tile indices in
order. `processCodecInputFrame` (1452-1495) then does the following for
each buffer:

- it gets the buffer;
- it computes the tile's rectangle, cropping the last column and row to the image;
- it has `copyOneYuvTile` (2137-2251) copy the tile;
- it queues the buffer.

`copyOneYuvTile` rejects a buffer whose `MediaImage2` is not 8-bit,
three-plane YUV. Otherwise it copies the luma rows, then the chroma in one
of three ways:

- verbatim interleaved rows, when both sides are semiplanar with the same Cb/Cr order;
- verbatim half-width rows, when both are planar;
- otherwise sample by sample.

**`TileCopy.tla`**:
- **State.** Memory holds sample labels, not bytes. `<<"Y", x, y>>` is the luma sample of pixel (x, y), and `<<"Cb", cx, cy>>` and `<<"Cr", cx, cy>>` are the chroma samples of a 2x2 block. Padding is `PAD`, a read outside a buffer is `OOB`, and a byte nothing wrote is `UNSET`.
  - `yuv` is the camera `LockedBuffer`: its luma plane, a chroma area, `stride`, `chromaStride`, `chromaStep`, `dataCb` and `dataCr`. `CameraBuffer` builds it for planar or semiplanar chroma, Cb or Cr first, with optional row padding. On the gainmap path the source is the planar SDR base image (lines 1385-1396).
  - `imageInfo` is the codec's `MediaImage2`: I420, YV12, NV12, NV21 with optional row padding, or one `copyOneYuvTile` rejects.
  - `codecBuffers` maps each tile index to the contents of its input buffer.
  - The grid members keep the code's names.
- **Actions.** Each action is one iteration of the loop in `processCodecInputFrame`: `GetInputBufferFails`, `CopyOneYuvTileFails`, `QueueTile` (the tile copied and queued), `QueueInputBufferFails` (copied, not queued), and `FinishFrame` (`codecInputBuffers.clear()`). A failure fails the frame (`threadLoop` sets `error`), so the model stops there. `CopyOneYuvTile` is the set of `<<address, sample>>` writes of the function. Its branch conditions (`IsCodecUvSemiplannar`, `IsCodecUvPlannar`, `UseSemiplanarCopy`) and its three branches are separate operators, with C's integer division.
- **Reference.** A HEIF grid image shows its tiles in row-major order, each of the configured tile size, cropped at the right and bottom edges (`RefCols`, `RefRows`). `TileContent(t)` reads buffer `t` back through the codec's plane descriptors, as the encoder does, and compares it with grid cell `t` of the capture.
- **`MCTileCopy.tla`**: captures 4 or 6 pixels wide and 2 or 6 high, 4x4 tiles in place of 512x512, and row padding 0 or 2 on either side. The arithmetic is the code's, and these sizes give grids of one or two rows and columns, with cropped last tiles and with an image smaller than a tile. Every combination of camera layout, codec layout and grid mode is an initial state. All three chroma branches are taken.

| Property | States | Code |
|---|---|---|
| `TypeOK` | the grid has at least one row and one column, and the loop state is well typed | `configureCodecs` |
| `TilesMatchImage` | every queued tile, read through the codec's planes, is exactly its grid cell of the capture: luma, Cb and Cr, none swapped; a finished frame has queued every cell | 1463-1470, 2175-2249 |
| `CodecWritesInBounds` | no write of `copyOneYuvTile` falls outside the codec input buffer | 2175-2249 |

The passing run `tiles` (`MCTileCopy_tiles.cfg`) reaches 3,072 states in
seconds, and all three properties hold. Each behaviour processes one frame
and ends, so deadlock is not checked. The faulty variants break the properties:

- `GridOfRoundDown` (the tile counts round down) breaks `TypeOK`;
- `UseSemiplanarCopyAnyOrder` (the fast path without the Cb/Cr order test) breaks `TilesMatchImage`;
- `PlanarChromaFullWidth` (a planar V row of `width` bytes) breaks `CodecWritesInBounds`.

The grid is fixed when the codec is configured. `onHeicFormatChanged`
(611-640) may overwrite it with the grid the encoder reports, but the
encoder reports the grid it was configured with. The gainmap encoder's
loop (`processCodecGainmapInputFrame`) is the same code over the gainmap
grid.

## Not modelled

- **Not yet modelled**, with the reason recorded in `PROJECT.json` `components`:
  - the HDR gainmap path and non-grid mode;
  - quality updates;
  - stream teardown (`deleteInternalStreams`, `deinitCodec`) beyond the device streams it deletes;
  - the gainmap encoder's tile loop (the same code as `TileCopy` over the gainmap grid) and a codec that reports a grid other than the configured one;
  - the container bytes and the capacity check;
  - of `CameraDeviceClient` and `AidlCamera3SharedDevice`: `notifyRepeatingRequestError`, the `notifyActive`/`notifyIdle`/`notifyShutter` fan-outs, and the data race on the static `sClientsPid` (two locks guard it; the model's steps are atomic);
  - the injection manager and the H264 decoder.
- **Not modelled because they are I/O or helpers:**
  - `SharedSessionConfigReader` and `SharedSessionConfigUtils` parse the shared session XML file into a configuration, through tinyxml2 and string splitting. They do not interact with other threads, and their results only feed stream creation, whose inputs `StreamConfig` already enumerates.
  - `AttributionAndPermissionUtils` wraps permission-checker and app-ops binder calls. Its results are yes-or-no answers from other system services, with no state of their own in the camera service to check.
  - The watchdog, `Utils` and the tests.
- **Planned next:**
  - an abstract "frame outcome" specification that `HeicCapture` refines;
  - composing `AppSegments` with `HeicCapture`, so that the parser's outcome, rather than a free input, decides `malformedSegments`;
  - the gainmap path;
  - an abstract specification of request routing that `SharedSession` refines.
