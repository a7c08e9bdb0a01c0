---------------------------- MODULE StreamConfig ----------------------------
(***************************************************************************)
(* Output stream configuration of CameraDeviceClient                       *)
(* (src/api2/CameraDeviceClient.cpp) over the camera device, including the *)
(* shared-session device AidlCamera3SharedDevice                           *)
(* (src/device3/aidl/AidlCamera3SharedDevice.cpp).                         *)
(*                                                                         *)
(* Each client keeps its own view of the streams it created:               *)
(*   mStreamMap          surface key -> (stream id, surface id)            *)
(*   mConfiguredOutputs  stream id -> the OutputConfiguration's surfaces   *)
(*   mDeferredStreams    streams created without a consumer surface        *)
(*   mStreamInfoMap      stream id -> finalized / supportsOffline flags    *)
(*   mCompositeStreamMap surface key -> HEIC composite stream              *)
(*   mInputStream        the reprocessing input stream                     *)
(* The device holds the streams themselves.  A stream's consumer surfaces  *)
(* sit in numbered slots (the surface ids of Camera3SharedOutputStream,    *)
(* at most kMaxOutputs); a shared-session stream keeps an opaque consumer  *)
(* in one slot and the surfaces of every client in the others.             *)
(*                                                                         *)
(* Every binder call holds mBinderSerializationLock, and the shared device *)
(* serialises its own calls with mSharedDeviceLock, so each call is one    *)
(* step.  The device classes that are not in this repository              *)
(* (Camera3Device, Camera3SharedOutputStream, CompositeStream) are the     *)
(* environment: the outcomes they may return are chosen by \E.             *)
(***************************************************************************)
EXTENDS Integers, Sequences, FiniteSets, Functions, FiniteSetsExt, TLC

CONSTANTS
    Clients,            \* CameraDeviceClient instances on one camera
    Surfaces,           \* application surfaces (their SurfaceKey)
    Owner,              \* Owner[s]: the client whose application owns s
    HeicSurfaces,       \* surfaces isHeicCompositeStream accepts
    InfoOf,             \* InfoOf[s]: the OutputStreamInfo createConfiguredSurface derives
    SharedConfigs,      \* mSharedOutputConfigurations, as their stream infos
    Opaque,             \* the opaque consumer beginConfigure attaches to a shared stream
    Internal,           \* a composite stream's own internal consumer surface
    MaxStreams,         \* bound on Camera3Device::mNextStreamId
    MaxConfigSurfaces,  \* bound on the surfaces of one OutputConfiguration
    CompositeFaults,    \* whether a composite stream's creation may fail midway
    Modes               \* the values of sharedMode the camera may be opened with

ASSUME /\ Owner \in [Surfaces -> Clients]
       /\ HeicSurfaces \subseteq Surfaces
       /\ InfoOf \in [Surfaces -> Nat]
       /\ MaxStreams \in Nat /\ MaxConfigSurfaces \in Nat \ {0}
       /\ Modes \subseteq BOOLEAN /\ Modes # {}

\* Camera3SharedOutputStream.h: the surface id array of a shared stream.
kMaxOutputs == 4

\* CameraService::ERROR_... early returns leave every variable unchanged;
\* only calls that change state are actions.  A stream id is a number
\* handed out by the device; NONE is camera3::CAMERA3_STREAM_ID_INVALID.
NONE == -1
StreamIds == 0..(MaxStreams - 1)
Slots == 0..(kMaxOutputs - 1)

VARIABLES
    sharedMode,         \* whether the camera was opened for a shared session
    streamMap,          \* streamMap[c]: mStreamMap of client c
    configuredOutputs,  \* configuredOutputs[c]: mConfiguredOutputs of client c
    deferredStreams,    \* deferredStreams[c]: mDeferredStreams of client c
    streamInfoMap,      \* streamInfoMap[c]: mStreamInfoMap of client c
    compositeStreamMap, \* compositeStreamMap[c]: HEIC composites of client c
    inputStream,        \* inputStream[c]: mInputStream of client c
    attached,           \* clients not yet detached (detachDevice)
    devStreams,         \* the device's streams: id -> [slots, updatable, offline]
    devInput,           \* the device's input stream id, or NONE
    nextStreamId,       \* Camera3Device::mNextStreamId
    devConfigured,      \* mStatus of the device is past STATUS_UNCONFIGURED
    sharedStreamInfo,   \* AidlCamera3SharedDevice::mStreamInfoMap
    offlineDone         \* switchToOffline handed streams to an offline session

clientVars == <<streamMap, configuredOutputs, deferredStreams, streamInfoMap,
                compositeStreamMap, inputStream, attached>>
deviceVars == <<devStreams, devInput, nextStreamId, devConfigured,
                sharedStreamInfo, offlineDone>>
vars == <<sharedMode, clientVars, deviceVars>>

-----------------------------------------------------------------------------
(* Helpers over the variables.                                             *)

\* Client c may still call into the device: it has not detached, and the
\* device was not handed to an offline session (the application closes it
\* after switchToOffline).
Live(c) == c \in attached /\ ~offlineDone

\* The surfaces of client c that map to stream id in mStreamMap.
SurfacesOf(c, id) == {s \in DOMAIN streamMap[c] : streamMap[c][s].stream = id}

\* The stream infos the application's surfaces and configurations carry.
Infos == Range(InfoOf)

\* OutputStreamInfo as stored in mStreamInfoMap: the stream's info, both
\* flags false.
FreshInfo(info) == [info |-> info, finalized |-> FALSE, supportsOffline |-> FALSE]

\* A device stream; slots maps a surface id to the consumer in it, and
\* info is what updateStream checks new surfaces against.
DevStream(slots, updatable, info) ==
    [slots |-> slots, updatable |-> updatable, info |-> info, offline |-> FALSE]

FreeSlots(id) == Slots \ DOMAIN devStreams[id].slots

\* The n lowest of the surface ids free: getNextSurfaceIdLocked takes the
\* lowest free one for each surface attached.
LowestFree(free, n) == {k \in free : Cardinality({j \in free : j < k}) < n}

\* Add the entries of f to a function with a dynamic domain.
Extend(g, f) == [x \in DOMAIN g \cup DOMAIN f |->
                    IF x \in DOMAIN f THEN f[x] ELSE g[x]]

\* Remove keys from a function with a dynamic domain.
Drop(g, keys) == Restrict(g, DOMAIN g \ keys)

\* The OutputConfigurations the application of c may pass: nonempty sets
\* of its own surfaces; a HEIC surface is configured on its own.
OutputConfigs(c) ==
    {cfg \in SUBSET {s \in Surfaces : Owner[s] = c} :
        /\ cfg # {}
        /\ Cardinality(cfg) <= MaxConfigSurfaces
        /\ cfg \cap HeicSurfaces # {} => Cardinality(cfg) = 1}

\* createConfiguredSurface fails unless every surface of a configuration
\* yields the stream info of the first (isStreamInfoValid).
SameInfo(cfg) == \A s, t \in cfg : InfoOf[s] = InfoOf[t]

Init ==
    /\ sharedMode \in Modes
    /\ streamMap = [c \in Clients |-> <<>>]
    /\ configuredOutputs = [c \in Clients |-> <<>>]
    /\ deferredStreams = [c \in Clients |-> {}]
    /\ streamInfoMap = [c \in Clients |-> <<>>]
    /\ compositeStreamMap = [c \in Clients |-> <<>>]
    /\ inputStream = [c \in Clients |-> [configured |-> FALSE, id |-> NONE]]
    \* A non-shared camera has exactly one client.
    /\ attached \in IF sharedMode THEN {Clients}
                                  ELSE {{c} : c \in Clients}
    /\ devStreams = <<>>
    /\ devInput = NONE
    /\ nextStreamId = 0
    /\ devConfigured = FALSE
    /\ sharedStreamInfo = <<>>
    /\ offlineDone = FALSE

-----------------------------------------------------------------------------
(* Stream creation.                                                        *)

\* CameraDeviceClient::beginConfigure calls AidlCamera3SharedDevice::
\* beginConfigure, which, while the device is unconfigured, clears
\* mStreamInfoMap and creates one Camera3SharedOutputStream per shared
\* output configuration with the opaque consumer as its surface 0, then
\* configures the device.  configureStreams may fail; Camera3Device then
\* returns to STATUS_UNCONFIGURED, and the streams it created stay in
\* mOutputStreams.  Camera3Device::beginConfigure of a non-shared camera
\* does nothing.
BeginConfigure(c) ==
    /\ sharedMode
    /\ Live(c)
    /\ ~devConfigured
    /\ nextStreamId + Len(SharedConfigs) <= MaxStreams
    /\ LET ids == nextStreamId..(nextStreamId + Len(SharedConfigs) - 1)
       IN /\ devStreams' = Extend(devStreams,
                             [id \in ids |-> DevStream(0 :> Opaque, TRUE,
                                                     SharedConfigs[id - nextStreamId + 1])])
          /\ sharedStreamInfo' =
                [id \in ids |-> SharedConfigs[id - nextStreamId + 1]]
    /\ nextStreamId' = nextStreamId + Len(SharedConfigs)
    /\ devConfigured' \in BOOLEAN
    /\ UNCHANGED <<sharedMode, clientVars, devInput, offlineDone>>

\* Faulty variant: each surface is recorded with its position in the
\* configuration instead of the surface id the device returned.
RecordStreamByIndex(c, cfg, id, ids) ==
    /\ \E pos \in Bijection(cfg, 0..(Cardinality(cfg) - 1)) :
          streamMap' = [streamMap EXCEPT ![c] =
                           Extend(@, [s \in cfg |-> [stream |-> id, sid |-> pos[s]]])]
    /\ configuredOutputs' = [configuredOutputs EXCEPT ![c] = Extend(@, id :> cfg)]
    /\ streamInfoMap' = [streamInfoMap EXCEPT ![c] =
                            Extend(@, id :> FreshInfo(InfoOf[CHOOSE s \in cfg : TRUE]))]

\* The mStreamMap, mConfiguredOutputs and mStreamInfoMap updates of a
\* successful createStream: surface s of cfg is recorded with surface id
\* ids[s].
RecordStream(c, cfg, id, ids) ==
    /\ streamMap' = [streamMap EXCEPT ![c] =
                        Extend(@, [s \in cfg |-> [stream |-> id, sid |-> ids[s]]])]
    /\ configuredOutputs' = [configuredOutputs EXCEPT ![c] = Extend(@, id :> cfg)]
    /\ streamInfoMap' = [streamInfoMap EXCEPT ![c] =
                            Extend(@, id :> FreshInfo(InfoOf[CHOOSE s \in cfg : TRUE]))]

\* createStream of a shared-session client: getSharedStreamId finds a
\* shared stream whose info matches (any of several equal ones: it walks
\* an unordered_map), and addSharedSurfaces has the stream's updateStream
\* attach the surfaces to free surface ids.  addSharedSurfaces returns the
\* ids in the order of updateStream's outputMap, a KeyedVector sorted by
\* the Surface pointers, and createStream pairs them with the surfaces in
\* the order of the OutputConfiguration: any pairing is possible.
CreateSharedStream(c, cfg) ==
    /\ sharedMode
    /\ Live(c)
    /\ cfg \cap DOMAIN streamMap[c] = {}
    /\ SameInfo(cfg)
    /\ \E id \in DOMAIN sharedStreamInfo \cap DOMAIN devStreams :
       \E attach \in Bijection(cfg, LowestFree(FreeSlots(id), Cardinality(cfg))) :
          /\ \A s \in cfg : sharedStreamInfo[id] = InfoOf[s]
          /\ devStreams' = [devStreams EXCEPT ![id].slots =
                               Extend(@, [k \in Range(attach) |->
                                            CHOOSE s \in cfg : attach[s] = k])]
          /\ \E returned \in Bijection(cfg, Range(attach)) :
                RecordStream(c, cfg, id, returned)
    /\ UNCHANGED <<sharedMode, deferredStreams, compositeStreamMap, inputStream,
                   attached, devInput, nextStreamId, devConfigured,
                   sharedStreamInfo, offlineDone>>

\* createStream of a regular output stream: Camera3Device::createStream
\* gives it the next stream id and numbers its surfaces from 0 in order
\* (a configuration of several surfaces is a surface-shared stream, which
\* updateStream can change later).
CreateOutputStream(c, cfg, isShared) ==
    /\ ~sharedMode
    /\ Live(c)
    /\ cfg \cap (DOMAIN streamMap[c] \cup HeicSurfaces) = {}
    /\ SameInfo(cfg)
    /\ Cardinality(cfg) > 1 => isShared
    /\ nextStreamId < MaxStreams
    /\ \E ids \in Bijection(cfg, 0..(Cardinality(cfg) - 1)) :
          /\ devStreams' = Extend(devStreams, nextStreamId :>
                DevStream([k \in Range(ids) |-> CHOOSE s \in cfg : ids[s] = k],
                          isShared, InfoOf[CHOOSE s \in cfg : TRUE]))
          /\ RecordStream(c, cfg, nextStreamId, ids)
    /\ nextStreamId' = nextStreamId + 1
    /\ UNCHANGED <<sharedMode, deferredStreams, compositeStreamMap, inputStream,
                   attached, devInput, devConfigured, sharedStreamInfo,
                   offlineDone>>

\* createStream of a HEIC surface: HeicCompositeStream::createInternalStreams
\* creates the APP segment stream, then starts the codec and creates the
\* main image stream, whose id is the composite's stream id and whose
\* internal surface id is recorded for the application's surface.  When a
\* step after the APP segment stream fails (codec start, input surface,
\* main stream), createInternalStreams returns the error and nothing
\* deletes the APP segment stream it already created; when registering
\* the stream listeners fails, both streams stay (the destructor only
\* forgets their ids).
CreateCompositeStream(c, h) ==
    /\ ~sharedMode
    /\ Live(c)
    /\ h \in HeicSurfaces /\ Owner[h] = c
    /\ h \notin DOMAIN streamMap[c]
    /\ nextStreamId + 2 <= MaxStreams
    /\ LET app == nextStreamId
           main == nextStreamId + 1
       IN \/ /\ devStreams' = Extend(devStreams,
                    (app :> DevStream(0 :> Internal, FALSE, NONE)) @@
                    (main :> DevStream(0 :> Internal, FALSE, InfoOf[h])))
             /\ nextStreamId' = nextStreamId + 2
             /\ RecordStream(c, {h}, main, h :> 0)
             /\ compositeStreamMap' = [compositeStreamMap EXCEPT ![c] =
                                          Extend(@, h :> [main |-> main, app |-> app])]
          \/ /\ CompositeFaults
             /\ \/ /\ devStreams' = Extend(devStreams, app :> DevStream(0 :> Internal, FALSE, NONE))
                   /\ nextStreamId' = nextStreamId + 1
                \/ /\ devStreams' = Extend(devStreams,
                          (app :> DevStream(0 :> Internal, FALSE, NONE)) @@
                          (main :> DevStream(0 :> Internal, FALSE, InfoOf[h])))
                   /\ nextStreamId' = nextStreamId + 2
             /\ UNCHANGED <<streamMap, configuredOutputs, streamInfoMap,
                            compositeStreamMap>>
    /\ UNCHANGED <<sharedMode, deferredStreams, inputStream, attached, devInput,
                   devConfigured, sharedStreamInfo, offlineDone>>

\* Faulty variant: the client records the stream id after the device's
\* increment.
CreateDeferredStreamNextId(c, isShared, info) ==
    /\ ~sharedMode
    /\ Live(c)
    /\ nextStreamId < MaxStreams
    /\ devStreams' = Extend(devStreams, nextStreamId :> DevStream(<<>>, isShared, info))
    /\ nextStreamId' = nextStreamId + 1
    /\ deferredStreams' = [deferredStreams EXCEPT ![c] = @ \cup {nextStreamId + 1}]
    /\ streamInfoMap' = [streamInfoMap EXCEPT ![c] = Extend(@, nextStreamId + 1 :> FreshInfo(info))]
    /\ UNCHANGED <<sharedMode, streamMap, configuredOutputs, compositeStreamMap,
                   inputStream, attached, devInput, devConfigured,
                   sharedStreamInfo, offlineDone>>

\* createDeferredSurfaceStreamLocked: a stream without consumer, kept in
\* mDeferredStreams until finalizeOutputConfigurations attaches surfaces;
\* its info comes from the configuration's size.  Left out: the deferred
\* check comes before the shared-mode branch (1141), so in a shared session
\* the same path creates an unshared Camera3Device stream; with it the
\* shared-session state space grows beyond what the streams run explores.
CreateDeferredStream(c, isShared, info) ==
    /\ ~sharedMode
    /\ Live(c)
    /\ nextStreamId < MaxStreams
    /\ devStreams' = Extend(devStreams, nextStreamId :> DevStream(<<>>, isShared, info))
    /\ nextStreamId' = nextStreamId + 1
    /\ deferredStreams' = [deferredStreams EXCEPT ![c] = @ \cup {nextStreamId}]
    /\ streamInfoMap' = [streamInfoMap EXCEPT ![c] = Extend(@, nextStreamId :> FreshInfo(info))]
    /\ UNCHANGED <<sharedMode, streamMap, configuredOutputs, compositeStreamMap,
                   inputStream, attached, devInput, devConfigured,
                   sharedStreamInfo, offlineDone>>

\* createInputStream: one input stream per client, and Camera3Device
\* refuses a second one.
CreateInputStream(c) ==
    /\ Live(c)
    /\ ~inputStream[c].configured
    /\ devInput = NONE
    /\ nextStreamId < MaxStreams
    /\ devInput' = nextStreamId
    /\ nextStreamId' = nextStreamId + 1
    /\ inputStream' = [inputStream EXCEPT ![c] = [configured |-> TRUE, id |-> nextStreamId]]
    /\ UNCHANGED <<sharedMode, streamMap, configuredOutputs, deferredStreams,
                   streamInfoMap, compositeStreamMap, attached, devStreams,
                   devConfigured, sharedStreamInfo, offlineDone>>

-----------------------------------------------------------------------------
(* Changing and deleting streams.                                          *)

\* The composites of client c whose main image stream is id.
CompositesOf(c, id) ==
    {h \in DOMAIN compositeStreamMap[c] : compositeStreamMap[c][h].main = id}

\* Faulty variant: a shared-session client's deleteStream deletes the
\* whole shared stream (Camera3Device::deleteStream) instead of its surfaces.
DeleteStreamWholeShared(c, id) ==
    LET isInput == inputStream[c].configured /\ inputStream[c].id = id
        surfaces == IF isInput THEN {} ELSE SurfacesOf(c, id)
        removedSurfaceIds == {streamMap[c][s].sid : s \in surfaces}
        composites == IF isInput THEN {} ELSE CompositesOf(c, id)
        apps == {compositeStreamMap[c][h].app : h \in composites}
    IN /\ Live(c)
       /\ isInput \/ surfaces # {} \/ id \in deferredStreams[c]
       /\ IF sharedMode
             THEN /\ id \in DOMAIN devStreams
                  /\ devStreams[id].updatable
                  /\ devStreams' = Drop(devStreams, {id})
                  /\ UNCHANGED devInput
             ELSE IF isInput
                  THEN /\ devInput = id
                       /\ devInput' = NONE
                       /\ UNCHANGED devStreams
                  ELSE /\ id \in DOMAIN devStreams
                       /\ devStreams' = Drop(devStreams, {id} \cup apps)
                       /\ UNCHANGED devInput
       /\ IF isInput
             THEN /\ inputStream' = [inputStream EXCEPT ![c].configured = FALSE]
                  /\ UNCHANGED <<streamMap, configuredOutputs, deferredStreams,
                                 compositeStreamMap>>
             ELSE /\ streamMap' = [streamMap EXCEPT ![c] = Drop(@, surfaces)]
                  /\ configuredOutputs' = [configuredOutputs EXCEPT ![c] = Drop(@, {id})]
                  /\ deferredStreams' = [deferredStreams EXCEPT ![c] = @ \ {id}]
                  /\ compositeStreamMap' = [compositeStreamMap EXCEPT ![c] =
                                               Drop(@, composites)]
                  /\ UNCHANGED inputStream
       /\ UNCHANGED <<sharedMode, streamInfoMap, attached, nextStreamId,
                      devConfigured, sharedStreamInfo, offlineDone>>

\* deleteStream.  A shared-session client only removes its own surfaces
\* from the shared stream (removeSharedSurfaces, which fails for a stream
\* the shared device does not hold, such as an input stream); otherwise
\* Camera3Device::deleteStream deletes the stream, and a composite's
\* deleteStream (deleteInternalStreams) then deletes its APP segment stream.
\* mStreamInfoMap keeps the deleted stream's entry.
DeleteStream(c, id) ==
    LET isInput == inputStream[c].configured /\ inputStream[c].id = id
        surfaces == IF isInput THEN {} ELSE SurfacesOf(c, id)
        removedSurfaceIds == {streamMap[c][s].sid : s \in surfaces}
        composites == IF isInput THEN {} ELSE CompositesOf(c, id)
        apps == {compositeStreamMap[c][h].app : h \in composites}
    IN /\ Live(c)
       /\ isInput \/ surfaces # {} \/ id \in deferredStreams[c]
       /\ IF sharedMode
             THEN /\ id \in DOMAIN devStreams
                  /\ devStreams[id].updatable
                  /\ devStreams' = [devStreams EXCEPT ![id].slots =
                                       Drop(@, removedSurfaceIds)]
                  /\ UNCHANGED devInput
             ELSE IF isInput
                  THEN /\ devInput = id
                       /\ devInput' = NONE
                       /\ UNCHANGED devStreams
                  ELSE /\ id \in DOMAIN devStreams
                       /\ devStreams' = Drop(devStreams, {id} \cup apps)
                       /\ UNCHANGED devInput
       /\ IF isInput
             THEN /\ inputStream' = [inputStream EXCEPT ![c].configured = FALSE]
                  /\ UNCHANGED <<streamMap, configuredOutputs, deferredStreams,
                                 compositeStreamMap>>
             ELSE /\ streamMap' = [streamMap EXCEPT ![c] = Drop(@, surfaces)]
                  /\ configuredOutputs' = [configuredOutputs EXCEPT ![c] = Drop(@, {id})]
                  /\ deferredStreams' = [deferredStreams EXCEPT ![c] = @ \ {id}]
                  /\ compositeStreamMap' = [compositeStreamMap EXCEPT ![c] =
                                               Drop(@, composites)]
                  /\ UNCHANGED inputStream
       /\ UNCHANGED <<sharedMode, streamInfoMap, attached, nextStreamId,
                      devConfigured, sharedStreamInfo, offlineDone>>

\* updateOutputConfiguration: the configuration's first surface names the
\* stream; surfaces of the stream missing from the configuration are
\* removed, new ones are attached by the stream's updateStream, and the
\* outputMap it returns is keyed by surface.  A surface of another stream
\* is refused; a configuration that changes nothing returns at once.
UpdateOutputConfiguration(c, id, cfg, first) ==
    LET removed == SurfacesOf(c, id) \ cfg
        added == cfg \ DOMAIN streamMap[c]
        keptSlots == DOMAIN devStreams[id].slots \ {streamMap[c][s].sid : s \in removed}
    IN /\ Live(c)
       /\ first \in cfg /\ first \in DOMAIN streamMap[c]
       /\ streamMap[c][first].stream = id
       /\ \A s \in cfg \cap DOMAIN streamMap[c] : streamMap[c][s].stream = id
       /\ removed # {} \/ added # {}
       /\ id \in DOMAIN devStreams /\ devStreams[id].updatable
       /\ \A s \in added : InfoOf[s] = devStreams[id].info
       /\ \E attach \in Bijection(added, LowestFree(Slots \ keptSlots, Cardinality(added))) :
             /\ devStreams' = [devStreams EXCEPT ![id].slots =
                   Extend(Restrict(@, keptSlots),
                          [k \in Range(attach) |-> CHOOSE s \in added : attach[s] = k])]
             /\ streamMap' = [streamMap EXCEPT ![c] =
                   Extend(Drop(@, removed),
                          [s \in added |-> [stream |-> id, sid |-> attach[s]]])]
       /\ configuredOutputs' = [configuredOutputs EXCEPT ![c] = Extend(@, id :> cfg)]
       /\ UNCHANGED <<sharedMode, deferredStreams, streamInfoMap, compositeStreamMap,
                      inputStream, attached, devInput, nextStreamId, devConfigured,
                      sharedStreamInfo, offlineDone>>

\* mStreamInfoMap[streamId]: operator[] default-constructs a missing entry.
InfoAt(c, id) == IF id \in DOMAIN streamInfoMap[c] THEN streamInfoMap[c][id]
                                                   ELSE FreshInfo(NONE)

\* finalizeOutputConfigurations: for a stream with surfaces or a deferred
\* one, not yet finalized.  Surfaces that already have a stream (this or
\* any other) are skipped; with none left the stream is only marked
\* finalized.  Otherwise setConsumerSurfaces attaches them (a plain
\* output stream takes a single consumer), the stream leaves
\* mDeferredStreams and its configuration is recorded.
FinalizeOutputConfigurations(c, id, cfg) ==
    LET added == cfg \ DOMAIN streamMap[c]
        markFinalized == streamInfoMap' = [streamInfoMap EXCEPT ![c] =
                            Extend(@, id :> [InfoAt(c, id) EXCEPT !.finalized = TRUE])]
    IN /\ Live(c)
       /\ SurfacesOf(c, id) # {} \/ id \in deferredStreams[c]
       /\ ~InfoAt(c, id).finalized
       /\ \/ /\ added = {}
             /\ markFinalized
             /\ UNCHANGED <<streamMap, configuredOutputs, deferredStreams, devStreams>>
          \/ /\ added # {}
             /\ \A s \in added : InfoOf[s] = InfoAt(c, id).info
             /\ id \in DOMAIN devStreams
             /\ devStreams[id].updatable \/ (Cardinality(added) = 1 /\ devStreams[id].slots = <<>>)
             /\ \E attach \in Bijection(added, LowestFree(FreeSlots(id), Cardinality(added))) :
                   /\ devStreams' = [devStreams EXCEPT ![id].slots =
                         Extend(@, [k \in Range(attach) |-> CHOOSE s \in added : attach[s] = k])]
                   /\ streamMap' = [streamMap EXCEPT ![c] =
                         Extend(@, [s \in added |-> [stream |-> id, sid |-> attach[s]]])]
             /\ deferredStreams' = [deferredStreams EXCEPT ![c] = @ \ {id}]
             /\ markFinalized
             /\ configuredOutputs' = [configuredOutputs EXCEPT ![c] = Extend(@, id :> cfg)]
       /\ UNCHANGED <<sharedMode, compositeStreamMap, inputStream, attached, devInput,
                      nextStreamId, devConfigured, sharedStreamInfo, offlineDone>>

-----------------------------------------------------------------------------
(* Configuration, offline switch and detach.                               *)

\* endConfigure of a non-shared client (a shared one returns before
\* configuring: beginConfigure did it).  configureStreams reports the
\* streams the HAL can keep offline (never a surface-shared stream).  A
\* composite's configureStream may fail, which stops the loop; otherwise
\* its internal streams leave the list, and its own id joins it when all
\* of them could go offline.  Every id left in the list gets
\* supportsOffline; no flag is ever cleared.  A configureStreams failure
\* changes nothing.
EndConfigure(c) ==
    /\ ~sharedMode
    /\ Live(c)
    /\ \E offline \in SUBSET {id \in DOMAIN devStreams : ~devStreams[id].updatable},
          compositeConfigured \in BOOLEAN :
          LET offlineStreamIds ==
                IF compositeStreamMap[c] = <<>> \/ ~compositeConfigured
                THEN offline
                ELSE LET cs == compositeStreamMap[c][CHOOSE h \in DOMAIN compositeStreamMap[c] : TRUE]
                         internalStreams == {cs.app, cs.main}
                     IN (offline \ internalStreams) \cup
                        (IF internalStreams \subseteq offline THEN {cs.main} ELSE {})
          IN /\ streamInfoMap' = [streamInfoMap EXCEPT ![c] = Extend(@,
                   [id \in offlineStreamIds |-> [InfoAt(c, id) EXCEPT !.supportsOffline = TRUE]])]
             /\ devStreams' = [id \in DOMAIN devStreams |->
                                 [devStreams[id] EXCEPT !.offline = id \in offline]]
    /\ devConfigured' = TRUE
    /\ UNCHANGED <<sharedMode, streamMap, configuredOutputs, deferredStreams,
                   compositeStreamMap, inputStream, attached, devInput, nextStreamId,
                   sharedStreamInfo, offlineDone>>

\* The device streams switchToOffline asks for when the application names
\* stream id: a composite's internal streams (insertCompositeStreamIds),
\* or the stream itself.
OfflineStreamsOf(c, id) ==
    LET hs == configuredOutputs[c][id] \cap DOMAIN compositeStreamMap[c]
    IN IF hs = {} THEN {id}
       ELSE UNION {{compositeStreamMap[c][h].app, compositeStreamMap[c][h].main} : h \in hs}

\* switchToOffline: every named stream must be configured and flagged
\* supportsOffline.  Camera3Device::switchToOffline hands the streams to an
\* offline session if the HAL keeps them all; the application then closes
\* this device.  When the offline client is registered, the client drops
\* all its stream bookkeeping; when registration fails it keeps it.
SwitchToOffline(c, ids) ==
    LET streams == UNION {OfflineStreamsOf(c, id) : id \in ids}
    IN /\ Live(c)
       /\ ids # {} /\ ids \subseteq DOMAIN configuredOutputs[c]
       /\ \A id \in ids : InfoAt(c, id).supportsOffline
       /\ \A x \in streams : x \in DOMAIN devStreams /\ devStreams[x].offline
       /\ devStreams' = Drop(devStreams, streams)
       /\ offlineDone' = TRUE
       /\ \/ /\ streamMap' = [streamMap EXCEPT ![c] = <<>>]
             /\ configuredOutputs' = [configuredOutputs EXCEPT ![c] = <<>>]
             /\ deferredStreams' = [deferredStreams EXCEPT ![c] = {}]
             /\ streamInfoMap' = [streamInfoMap EXCEPT ![c] = <<>>]
             /\ compositeStreamMap' = [compositeStreamMap EXCEPT ![c] = <<>>]
             /\ inputStream' = [inputStream EXCEPT ![c] = [configured |-> FALSE, id |-> 0]]
          \/ UNCHANGED <<streamMap, configuredOutputs, deferredStreams, streamInfoMap,
                         compositeStreamMap, inputStream>>
       /\ UNCHANGED <<sharedMode, attached, devInput, nextStreamId, devConfigured,
                      sharedStreamInfo>>

\* Faulty variant: detachDevice leaves the client's surfaces attached.
DisconnectKeepsSurfaces(c) ==
    /\ sharedMode
    /\ Live(c)
    /\ attached' = attached \ {c}
    /\ UNCHANGED <<sharedMode, streamMap, configuredOutputs, deferredStreams,
                   streamInfoMap, compositeStreamMap, inputStream, devStreams, devInput,
                   nextStreamId, devConfigured, sharedStreamInfo, offlineDone>>

\* detachDevice of a shared-session client: for every stream in its
\* mStreamInfoMap, removeSharedSurfaces takes out the surface ids it has in
\* mStreamMap (a failure is only logged).
Disconnect(c) ==
    /\ sharedMode
    /\ Live(c)
    /\ devStreams' = [id \in DOMAIN devStreams |->
          IF id \in DOMAIN streamInfoMap[c] /\ devStreams[id].updatable
          THEN [devStreams[id] EXCEPT !.slots =
                   Drop(@, {streamMap[c][s].sid : s \in SurfacesOf(c, id)})]
          ELSE devStreams[id]]
    /\ attached' = attached \ {c}
    /\ UNCHANGED <<sharedMode, streamMap, configuredOutputs, deferredStreams,
                   streamInfoMap, compositeStreamMap, inputStream, devInput,
                   nextStreamId, devConfigured, sharedStreamInfo, offlineDone>>

\* Each binder call of each client; once the device is handed to an
\* offline session, or every client has detached, nothing more happens.
Next ==
    \E c \in Clients :
    \/ BeginConfigure(c)
    \/ \E cfg \in OutputConfigs(c) :
          \/ CreateSharedStream(c, cfg)
          \/ \E isShared \in BOOLEAN : CreateOutputStream(c, cfg, isShared)
    \/ \E h \in HeicSurfaces : CreateCompositeStream(c, h)
    \/ \E isShared \in BOOLEAN, info \in Infos : CreateDeferredStream(c, isShared, info)
    \/ CreateInputStream(c)
    \/ \E id \in StreamIds : DeleteStream(c, id)
    \/ \E id \in StreamIds, cfg \in OutputConfigs(c), first \in Surfaces :
          UpdateOutputConfiguration(c, id, cfg, first)
    \/ \E id \in StreamIds, cfg \in OutputConfigs(c) :
          FinalizeOutputConfigurations(c, id, cfg)
    \/ EndConfigure(c)
    \/ \E ids \in SUBSET StreamIds : SwitchToOffline(c, ids)
    \/ Disconnect(c)

\* Binder calls come when applications make them: no fairness.
Spec == Init /\ [][Next]_vars

-----------------------------------------------------------------------------
(* Properties.                                                             *)

\* The abstract view: the device's streams with their application
\* surfaces as consumers, the ids handed out, and the streams that carry
\* the opaque consumer of a shared session.
Registry == INSTANCE StreamRegistry WITH
    issued <- 0..(nextStreamId - 1),
    consumers <- [id \in DOMAIN devStreams |-> Range(devStreams[id].slots) \cap Surfaces],
    pinned <- {id \in DOMAIN devStreams : Opaque \in Range(devStreams[id].slots)}

\* createStream, createDeferredStream, createInputStream, composite
\* creation, updateOutputConfiguration, finalizeOutputConfigurations,
\* deleteStream, switchToOffline, detachDevice and beginConfigure of every
\* client implement StreamRegistry: stream ids are fresh, a surface is on
\* at most one stream, each client changes only its own surfaces, and no
\* client takes down a shared-session stream or another client's.
ImplementsRegistry == Registry!Spec

StreamEntry == [stream : StreamIds, sid : Slots]

TypeOK ==
    /\ sharedMode \in BOOLEAN
    /\ attached \subseteq Clients
    /\ \A c \in Clients :
          /\ DOMAIN streamMap[c] \subseteq Surfaces
          /\ \A s \in DOMAIN streamMap[c] : streamMap[c][s] \in StreamEntry
          /\ DOMAIN configuredOutputs[c] \subseteq StreamIds
          /\ \A id \in DOMAIN configuredOutputs[c] : configuredOutputs[c][id] \subseteq Surfaces
          /\ deferredStreams[c] \subseteq StreamIds
          /\ DOMAIN streamInfoMap[c] \subseteq StreamIds
          /\ DOMAIN compositeStreamMap[c] \subseteq HeicSurfaces
          /\ inputStream[c].configured \in BOOLEAN
    /\ DOMAIN devStreams \subseteq StreamIds
    /\ \A id \in DOMAIN devStreams :
          /\ DOMAIN devStreams[id].slots \subseteq Slots
          /\ Range(devStreams[id].slots) \subseteq Surfaces \cup {Opaque, Internal}
    /\ devInput \in StreamIds \cup {NONE}
    /\ nextStreamId \in 0..MaxStreams
    /\ DOMAIN sharedStreamInfo \subseteq StreamIds

\* Requests are built from mStreamMap (insertSurfaceLocked): a surface the
\* application targets goes to the stream and surface id recorded for it.
\* While the device is open, every entry of an attached client names a
\* stream the device has, and that stream holds the same surface (a
\* composite's internal surface for a HEIC surface) at that surface id.
ClientMatchesDevice ==
    ~offlineDone =>
        \A c \in attached : \A s \in DOMAIN streamMap[c] :
            LET e == streamMap[c][s]
            IN /\ e.stream \in DOMAIN devStreams
               /\ e.sid \in DOMAIN devStreams[e.stream].slots
               /\ devStreams[e.stream].slots[e.sid] =
                     IF s \in DOMAIN compositeStreamMap[c] THEN Internal ELSE s

\* A shared stream is used by several clients at once, each adding and
\* removing only its own surfaces (createStream, deleteStream,
\* updateOutputConfiguration, detachDevice).  The surface ids in use on a
\* shared stream are exactly its opaque consumer's and those attached
\* clients record, and no two recorded surfaces share one.
SharedSlotsAccounted ==
    \A id \in DOMAIN sharedStreamInfo \cap DOMAIN devStreams :
        LET users == {<<c, s>> \in attached \X Surfaces :
                         s \in SurfacesOf(c, id)}
        IN /\ DOMAIN devStreams[id].slots =
                 {0} \cup {streamMap[u[1]][u[2]].sid : u \in users}
           /\ \A u, v \in users :
                 u # v => streamMap[u[1]][u[2]].sid # streamMap[v[1]][v[2]].sid

\* A non-shared client owns every stream of its device: each one is
\* reachable from its bookkeeping (mStreamMap, mDeferredStreams, a
\* composite's APP segment stream), so that deleteStream, reconfiguration
\* and disconnect can find it.
DeviceStreamsTracked ==
    ~offlineDone /\ ~sharedMode =>
        \A id \in DOMAIN devStreams : \E c \in attached :
            \/ SurfacesOf(c, id) # {}
            \/ id \in deferredStreams[c]
            \/ \E h \in DOMAIN compositeStreamMap[c] : compositeStreamMap[c][h].app = id

=============================================================================
