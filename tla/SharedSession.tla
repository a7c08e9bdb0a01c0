---------------------------- MODULE SharedSession ----------------------------
(***************************************************************************)
(* Shared-mode camera sessions: several CameraDeviceClient objects         *)
(* (src/api2/CameraDeviceClient.cpp) drive one AidlCamera3SharedDevice     *)
(* (src/device3/aidl/AidlCamera3SharedDevice.cpp).  The device merges the  *)
(* clients' surfaces into one repeating request; every result and error    *)
(* of the device is fanned out to every client, and each client maps the   *)
(* device's request id back to its own (mSharedStreamingRequest,           *)
(* mSharedRequestMap) or drops it.                                         *)
(*                                                                         *)
(* The base Camera3Device (its request thread and repeating request) is    *)
(* not part of this repository; it is the environment here, with the       *)
(* semantics the shared device relies on: setStreamingRequestList          *)
(* replaces the repeating request and forgets its last frame number,       *)
(* updateOngoingRepeatingRequestLocked keeps the request id and replaces   *)
(* its surfaces, clearing returns the repeating request's last frame       *)
(* number, and the request queue is served before the repeating request.  *)
(*                                                                         *)
(* A binder call of a client is two steps: the device part, under          *)
(* mSharedDeviceLock, and the client's bookkeeping after the device call   *)
(* returns.  The frame processor and the notify path deliver results and   *)
(* errors to the client between the two.                                   *)
(***************************************************************************)
EXTENDS Integers, Sequences, SequencesExt, Functions, FiniteSets, TLC

CONSTANTS
    Clients,         \* client pids of the shared camera
    Primary,         \* the client CameraService made primary
    Surfaces,        \* output surface ids of all clients
    SurfaceOwner,    \* [Surfaces -> Clients]
    SurfaceStream,   \* [Surfaces -> stream ids]: the shared stream it feeds
    MaxRequestId,    \* bound on every mRequestIdCounter
    MaxFrameNumber,  \* bound on the frames the repeating request produces
    ClientCalls,     \* binder calls the clients make in this model
    DeviceFaults,    \* Camera3Device calls that may fail
    DeviceErrors     \* TRUE: the HAL may fail a request (ERROR_CAMERA_REQUEST)

ASSUME Primary \in Clients
ASSUME SurfaceOwner \in [Surfaces -> Clients]
ASSUME MaxRequestId \in Nat /\ MaxFrameNumber \in Nat
ASSUME ClientCalls \subseteq
        {"submitStreaming", "submitCapture", "startStreaming", "cancel",
         "flush", "disconnect"}
ASSUME DeviceFaults \subseteq
        {"setStreamingRequestList", "captureList", "createDefaultRequest"}
ASSUME DeviceErrors \in BOOLEAN

REQUEST_ID_NONE == -1
NO_IN_FLIGHT_REPEATING_FRAMES == -1

Streams == Range(SurfaceStream)

-----------------------------------------------------------------------------
(* SurfaceMap: stream id -> vector of surface ids of that stream.          *)

EmptySurfaceMap == [k \in {} |-> <<>>]

SurfacesOf(m) == UNION {ToSet(m[k]) : k \in DOMAIN m}

\* The map a client builds from a set of its own outputs
\* (insertSurfaceLocked in startStreaming / submitRequestList).
SurfaceMapOf(S) ==
    [k \in {SurfaceStream[x] : x \in S} |->
        SetToSeq({x \in S : SurfaceStream[x] = k})]

ClientSurfaceMaps(c) ==
    {SurfaceMapOf(S) :
        S \in SUBSET {x \in Surfaces : SurfaceOwner[x] = c} \ {{}}}

\* Faulty variant: a key present in both maps is erased whole.
removeClientSurfaceMapEraseKey(map1, map2) ==
    [k \in DOMAIN map1 \ DOMAIN map2 |-> map1[k]]

\* Faulty variant: a vector emptied by the removal keeps its key.
removeClientSurfaceMapKeepEmpty(map1, map2) ==
    [k \in DOMAIN map1 |->
        IF k \in DOMAIN map2
        THEN SelectSeq(map1[k], LAMBDA v : v \notin ToSet(map2[k]))
        ELSE map1[k]]

\* Faulty variant: a key of map2 overwrites map1's vector instead of
\* extending it.
mergeSurfaceMapsOverwrite(map1, map2) ==
    [k \in DOMAIN map1 \cup DOMAIN map2 |->
        IF k \in DOMAIN map2 THEN map2[k] ELSE map1[k]]

\* Appends the vectors of map2 to those of map1, key by key; a surface in
\* both maps appears twice.
mergeSurfaceMaps(map1, map2) ==
    [k \in DOMAIN map1 \cup DOMAIN map2 |->
        (IF k \in DOMAIN map1 THEN map1[k] ELSE <<>>)
        \o (IF k \in DOMAIN map2 THEN map2[k] ELSE <<>>)]

\* Erases every copy of map2's values from map1's vectors; a key whose
\* vector this empties is erased.
removeClientSurfaceMap(map1, map2) ==
    LET kept(k) == IF k \in DOMAIN map2
                   THEN SelectSeq(map1[k], LAMBDA v : v \notin ToSet(map2[k]))
                   ELSE map1[k]
    IN  [k \in {k \in DOMAIN map1 : k \notin DOMAIN map2 \/ kept(k) # <<>>}
            |-> kept(k)]


-----------------------------------------------------------------------------
VARIABLES
    \* AidlCamera3SharedDevice (one camera id)
    sClientsPid,            \* sClientsPid[mId]
    devStreamingRequestId,  \* mStreamingRequestId of the device
    devRequestIdCounter,    \* mRequestIdCounter of the device
    mClientRequestIds,      \* pid -> client request id, REQUEST_ID_NONE if absent
    mClientSurfaces,        \* pid -> SurfaceMap; absent reads as the empty map
    \* Camera3Device, the environment
    repeating,              \* the repeating request: [id, surfaces]
    repeatingLastFrame,     \* mRepeatingLastFrameNumber
    requestQueue,           \* queued capture requests: Seq([id, surfaces])
    frameCounter,           \* next frame number
    inFlight,               \* Seq([id, frame]) submitted to the HAL
    \* CameraDeviceClient, one per pid
    connected,
    mStreamingRequestId,
    mSharedStreamingRequest,  \* <<shared request id, client request id>>
    mSharedRequestMap,        \* shared capture id -> client request id
    mRequestIdCounter,
    mStreamingRequestLastFrameNumber,
    mDeviceActive,
    pending,                \* the binder call between its device part and return
    \* history
    issued,                 \* <<client, client id, device request id, kind>>
    delivered,              \* client -> what the last step handed to its application
    cancelled               \* <<client, client id, last frame number>>

deviceVars == <<sClientsPid, devStreamingRequestId, devRequestIdCounter,
                mClientRequestIds, mClientSurfaces>>
baseVars == <<repeating, repeatingLastFrame, requestQueue, frameCounter,
              inFlight>>
clientVars == <<connected, mStreamingRequestId, mSharedStreamingRequest,
                mSharedRequestMap, mRequestIdCounter,
                mStreamingRequestLastFrameNumber, mDeviceActive, pending>>
historyVars == <<issued, cancelled>>
vars == <<deviceVars, baseVars, clientVars, historyVars, delivered>>

NoRequest == [id |-> REQUEST_ID_NONE, surfaces |-> EmptySurfaceMap]

NoCall == [call |-> "none", cid |-> REQUEST_ID_NONE, sid |-> REQUEST_ID_NONE,
           actual |-> REQUEST_ID_NONE, ok |-> FALSE,
           last |-> NO_IN_FLIGHT_REPEATING_FRAMES]

EmptyRequestMap == [k \in {} |-> REQUEST_ID_NONE]

\* A step that makes no application callback.
NothingDelivered == delivered' = [c \in Clients |-> {}]


\* A new AidlCamera3SharedDevice (getInstance with no connected pid).
FreshDevice ==
    /\ devStreamingRequestId' = REQUEST_ID_NONE
    /\ devRequestIdCounter' = 0
    /\ mClientRequestIds' = [c \in Clients |-> REQUEST_ID_NONE]
    /\ mClientSurfaces' = [c \in Clients |-> EmptySurfaceMap]
    /\ repeating' = NoRequest
    /\ repeatingLastFrame' = NO_IN_FLIGHT_REPEATING_FRAMES
    /\ requestQueue' = <<>>
    /\ frameCounter' = 0
    /\ inFlight' = <<>>

\* The CameraDeviceClient constructor's values.  mSharedStreamingRequest is
\* not in its initializer list; its initial value comes from the class
\* declaration, which is not in this repository.  The model takes
\* <<REQUEST_ID_NONE, REQUEST_ID_NONE>>, the value clearing a shared stream
\* restores (2653-2654) and the one markClientIdle's test (2697) reads as
\* "not streaming".
FreshClient(c) ==
    /\ mStreamingRequestId' = [mStreamingRequestId EXCEPT ![c] = REQUEST_ID_NONE]
    /\ mSharedStreamingRequest' =
        [mSharedStreamingRequest EXCEPT ![c] = <<REQUEST_ID_NONE, REQUEST_ID_NONE>>]
    /\ mSharedRequestMap' = [mSharedRequestMap EXCEPT ![c] = EmptyRequestMap]
    /\ mRequestIdCounter' = [mRequestIdCounter EXCEPT ![c] = 0]
    /\ mStreamingRequestLastFrameNumber' =
        [mStreamingRequestLastFrameNumber EXCEPT ![c] = NO_IN_FLIGHT_REPEATING_FRAMES]
    /\ mDeviceActive' = [mDeviceActive EXCEPT ![c] = FALSE]
    /\ pending' = [pending EXCEPT ![c] = NoCall]

\* Every client is connected to a new shared device.
Init ==
    /\ sClientsPid = Clients
    /\ devStreamingRequestId = REQUEST_ID_NONE
    /\ devRequestIdCounter = 0
    /\ mClientRequestIds = [c \in Clients |-> REQUEST_ID_NONE]
    /\ mClientSurfaces = [c \in Clients |-> EmptySurfaceMap]
    /\ repeating = NoRequest
    /\ repeatingLastFrame = NO_IN_FLIGHT_REPEATING_FRAMES
    /\ requestQueue = <<>>
    /\ frameCounter = 0
    /\ inFlight = <<>>
    /\ connected = [c \in Clients |-> TRUE]
    /\ mStreamingRequestId = [c \in Clients |-> REQUEST_ID_NONE]
    /\ mSharedStreamingRequest = [c \in Clients |-> <<REQUEST_ID_NONE, REQUEST_ID_NONE>>]
    /\ mSharedRequestMap = [c \in Clients |-> EmptyRequestMap]
    /\ mRequestIdCounter = [c \in Clients |-> 0]
    /\ mStreamingRequestLastFrameNumber = [c \in Clients |-> NO_IN_FLIGHT_REPEATING_FRAMES]
    /\ mDeviceActive = [c \in Clients |-> FALSE]
    /\ pending = [c \in Clients |-> NoCall]
    /\ issued = {}
    /\ delivered = [c \in Clients |-> {}]
    /\ cancelled = {}

\* A client that can start a binder call: connected, and its
\* mBinderSerializationLock is free.
CanCall(c, call) ==
    /\ call \in ClientCalls
    /\ connected[c]
    /\ pending[c] = NoCall

\* The client's mRequestIdCounter++ before its device call.
NextClientRequestId(c) ==
    /\ mRequestIdCounter[c] < MaxRequestId
    /\ mRequestIdCounter' = [mRequestIdCounter EXCEPT ![c] = @ + 1]


Call(kind, cid, sid, actual, ok, last) ==
    [call |-> kind, cid |-> cid, sid |-> sid, actual |-> actual, ok |-> ok,
     last |-> last]

\* Values an uninitialized int32_t sharedReqID can hold when the device
\* call fails without writing it.
GarbageIds == REQUEST_ID_NONE .. MaxRequestId

-----------------------------------------------------------------------------
(* Device parts of the binder calls.                                       *)

\* Faulty variant: the client's surfaces and id are recorded before the
\* Camera3Device call, and kept when it fails.
setSharedStreamingRequestRecordsOnFailure(c, m) ==
    LET requestID == devRequestIdCounter
        newSurfaceMap == IF repeating.id # REQUEST_ID_NONE
                         THEN mergeSurfaceMaps(m, repeating.surfaces)
                         ELSE m
    IN
    /\ devRequestIdCounter < MaxRequestId
    /\ devRequestIdCounter' = devRequestIdCounter + 1
    /\ mClientRequestIds' = [mClientRequestIds EXCEPT ![c] = mRequestIdCounter[c]]
    /\ mClientSurfaces' = [mClientSurfaces EXCEPT ![c] = m]
    /\ \/ /\ "setStreamingRequestList" \in DeviceFaults
          /\ pending' = [pending EXCEPT ![c] =
                Call("streaming", mRequestIdCounter[c], REQUEST_ID_NONE,
                     REQUEST_ID_NONE, FALSE, NO_IN_FLIGHT_REPEATING_FRAMES)]
          /\ UNCHANGED <<devStreamingRequestId, repeating, repeatingLastFrame>>
       \/ /\ repeating' = [id |-> requestID, surfaces |-> newSurfaceMap]
          /\ repeatingLastFrame' = NO_IN_FLIGHT_REPEATING_FRAMES
          /\ devStreamingRequestId' = requestID
          /\ pending' = [pending EXCEPT ![c] =
                Call("streaming", mRequestIdCounter[c], requestID, requestID,
                     TRUE, NO_IN_FLIGHT_REPEATING_FRAMES)]

\* AidlCamera3SharedDevice::setSharedStreamingRequest: the client's map is
\* merged with the ongoing repeating request's surfaces and replaces it
\* under a new shared id; the counter advances even when the
\* Camera3Device call fails.
setSharedStreamingRequest(c, m) ==
    LET requestID == devRequestIdCounter
        newSurfaceMap == IF repeating.id # REQUEST_ID_NONE
                         THEN mergeSurfaceMaps(m, repeating.surfaces)
                         ELSE m
    IN
    /\ devRequestIdCounter < MaxRequestId
    /\ devRequestIdCounter' = devRequestIdCounter + 1
    /\ \/ /\ "setStreamingRequestList" \in DeviceFaults
          /\ pending' = [pending EXCEPT ![c] =
                Call("streaming", mRequestIdCounter[c], REQUEST_ID_NONE,
                     REQUEST_ID_NONE, FALSE, NO_IN_FLIGHT_REPEATING_FRAMES)]
          /\ UNCHANGED <<devStreamingRequestId, mClientRequestIds,
                         mClientSurfaces, repeating, repeatingLastFrame>>
       \/ /\ repeating' = [id |-> requestID, surfaces |-> newSurfaceMap]
          /\ repeatingLastFrame' = NO_IN_FLIGHT_REPEATING_FRAMES
          /\ devStreamingRequestId' = requestID
          /\ mClientRequestIds' = [mClientRequestIds EXCEPT ![c] = mRequestIdCounter[c]]
          /\ mClientSurfaces' = [mClientSurfaces EXCEPT ![c] = m]
          /\ pending' = [pending EXCEPT ![c] =
                Call("streaming", mRequestIdCounter[c], requestID, requestID,
                     TRUE, NO_IN_FLIGHT_REPEATING_FRAMES)]

\* AidlCamera3SharedDevice::setSharedCaptureRequest: queues a capture
\* under a new shared id.  On failure *sharedReqID is left unwritten.
setSharedCaptureRequest(c, m) ==
    LET newReqID == devRequestIdCounter IN
    /\ devRequestIdCounter < MaxRequestId
    /\ devRequestIdCounter' = devRequestIdCounter + 1
    /\ \/ /\ requestQueue' = Append(requestQueue, [id |-> newReqID, surfaces |-> m])
          /\ pending' = [pending EXCEPT ![c] =
                Call("capture", mRequestIdCounter[c], newReqID, newReqID, TRUE,
                     NO_IN_FLIGHT_REPEATING_FRAMES)]
       \/ /\ "captureList" \in DeviceFaults
          /\ UNCHANGED requestQueue
          /\ \E g \in GarbageIds :
                pending' = [pending EXCEPT ![c] =
                    Call("capture", mRequestIdCounter[c], g, REQUEST_ID_NONE,
                         FALSE, NO_IN_FLIGHT_REPEATING_FRAMES)]

\* AidlCamera3SharedDevice::startStreaming: joins the ongoing repeating
\* request, or starts a preview request of its own.
startStreaming(c, m) ==
    LET reqId == mRequestIdCounter[c]
        requestID == devRequestIdCounter
        Joined(sid) ==
            /\ mClientRequestIds' = [mClientRequestIds EXCEPT ![c] = reqId]
            /\ mClientSurfaces' = [mClientSurfaces EXCEPT ![c] = m]
            /\ pending' = [pending EXCEPT ![c] =
                  Call("startStreaming", reqId, sid, repeating'.id, TRUE,
                       NO_IN_FLIGHT_REPEATING_FRAMES)]
        Failed ==
            /\ pending' = [pending EXCEPT ![c] =
                  Call("startStreaming", reqId, REQUEST_ID_NONE,
                       REQUEST_ID_NONE, FALSE, NO_IN_FLIGHT_REPEATING_FRAMES)]
            /\ UNCHANGED <<devStreamingRequestId, mClientRequestIds,
                           mClientSurfaces, repeating, repeatingLastFrame>>
    IN
    \/ /\ repeating.id # REQUEST_ID_NONE
       \* updateOngoingRepeatingRequestLocked; its status is ignored
       /\ repeating' = [repeating EXCEPT !.surfaces = mergeSurfaceMaps(m, @)]
       /\ Joined(devStreamingRequestId)
       /\ UNCHANGED <<devStreamingRequestId, devRequestIdCounter,
                      repeatingLastFrame>>
    \/ /\ repeating.id = REQUEST_ID_NONE
       /\ "createDefaultRequest" \in DeviceFaults
       /\ Failed
       /\ UNCHANGED devRequestIdCounter
    \/ /\ repeating.id = REQUEST_ID_NONE
       /\ devRequestIdCounter < MaxRequestId
       /\ devRequestIdCounter' = devRequestIdCounter + 1
       /\ \/ /\ "setStreamingRequestList" \in DeviceFaults
             /\ Failed
          \/ /\ repeating' = [id |-> requestID, surfaces |-> m]
             /\ repeatingLastFrame' = NO_IN_FLIGHT_REPEATING_FRAMES
             /\ devStreamingRequestId' = requestID
             /\ Joined(requestID)

\* AidlCamera3SharedDevice::clearSharedStreamingRequest: removes the
\* caller's recorded surfaces from the repeating request, and clears the
\* request when none is left.
clearSharedStreamingRequest(c) ==
    LET newSurfaceMap == removeClientSurfaceMap(repeating.surfaces, mClientSurfaces[c])
        cid == mStreamingRequestId[c]
    IN
    \/ /\ repeating.id = REQUEST_ID_NONE
       /\ pending' = [pending EXCEPT ![c] =
             Call("cancel", cid, REQUEST_ID_NONE, REQUEST_ID_NONE, FALSE,
                  NO_IN_FLIGHT_REPEATING_FRAMES)]
       /\ UNCHANGED <<mClientRequestIds, mClientSurfaces, repeating,
                      repeatingLastFrame>>
    \/ /\ repeating.id # REQUEST_ID_NONE
       /\ mClientRequestIds' = [mClientRequestIds EXCEPT ![c] = REQUEST_ID_NONE]
       /\ mClientSurfaces' = [mClientSurfaces EXCEPT ![c] = EmptySurfaceMap]
       /\ pending' = [pending EXCEPT ![c] =
             Call("cancel", cid, REQUEST_ID_NONE, REQUEST_ID_NONE, TRUE,
                  repeatingLastFrame)]
       /\ IF DOMAIN newSurfaceMap = {}
          THEN \* clearStreamingRequest
               /\ repeating' = NoRequest
               /\ repeatingLastFrame' = NO_IN_FLIGHT_REPEATING_FRAMES
          ELSE \* updateOngoingRepeatingRequestLocked
               /\ repeating' = [repeating EXCEPT !.surfaces = newSurfaceMap]
               /\ UNCHANGED repeatingLastFrame

-----------------------------------------------------------------------------
(* The client's routing of results and errors.  The frame processor thread *)
(* calls onResultAvailable of every registered client in turn, and the     *)
(* device's notifyError calls every client listener in turn; a client's    *)
(* routing state is its own, so the fan-out is one step.  A routing state  *)
(* is [streaming, map, active, out]: mSharedStreamingRequest,              *)
(* mSharedRequestMap, mDeviceActive and what reached the application.      *)

RoutingOf(c) ==
    [streaming |-> mSharedStreamingRequest[c], map |-> mSharedRequestMap[c],
     active |-> mDeviceActive[c], out |-> {}]

\* Faulty variant: compares with the client's own request id.
matchSharedStreamingRequestByClientId(st, reqId) == reqId = st.streaming[2]

matchSharedStreamingRequest(st, reqId) == reqId = st.streaming[1]

\* Only the primary client sends captures, so only it looks them up.
matchSharedCaptureRequest(c, st, reqId) ==
    c = Primary /\ reqId \in DOMAIN st.map

EraseRequest(map, reqId) == Restrict(map, DOMAIN map \ {reqId})

Delivery(c, st, ev) ==
    [client |-> c, id |-> ev.id, frame |-> ev.frame, kind |-> ev.kind,
     cid |-> IF matchSharedStreamingRequest(st, ev.id) THEN st.streaming[2]
             ELSE st.map[ev.id]]

\* onResultAvailable: a result of the client's streaming request keeps its
\* shared entry until the first frame at or past the cancel's last frame
\* number, which clears it; a capture result erases its map entry.  The
\* result goes to the application under the client's own request id, and
\* the client is marked idle when it has no request left.  An unmatched
\* result is dropped.
onResultAvailable(c, st, ev) ==
    LET matchStreaming == matchSharedStreamingRequest(st, ev.id)
        sharedStreamingLastFrame ==
            /\ mStreamingRequestId[c] = REQUEST_ID_NONE
            /\ ev.frame >= mStreamingRequestLastFrameNumber[c]
        streaming == IF matchStreaming /\ sharedStreamingLastFrame
                     THEN <<REQUEST_ID_NONE, REQUEST_ID_NONE>>
                     ELSE st.streaming
        map == IF matchStreaming THEN st.map ELSE EraseRequest(st.map, ev.id)
    IN
    IF matchStreaming \/ matchSharedCaptureRequest(c, st, ev.id)
    THEN [streaming |-> streaming, map |-> map,
          \* markClientIdle
          active |-> IF streaming[1] = REQUEST_ID_NONE /\ DOMAIN map = {}
                     THEN FALSE ELSE st.active,
          out |-> st.out \cup {Delivery(c, st, ev)}]
    ELSE st

\* notifyError: routed like a result, a capture's entry is erased, and the
\* error goes to the application; the streaming entry is left as it is and
\* the client is not marked idle.
notifyError(c, st, ev) ==
    IF matchSharedStreamingRequest(st, ev.id)
    THEN [st EXCEPT !.out = @ \cup {Delivery(c, st, ev)}]
    ELSE IF matchSharedCaptureRequest(c, st, ev.id)
    THEN [st EXCEPT !.map = EraseRequest(@, ev.id),
                    !.out = @ \cup {Delivery(c, st, ev)}]
    ELSE st

Route(c, st, ev) ==
    IF ev.kind = "result" THEN onResultAvailable(c, st, ev)
    ELSE notifyError(c, st, ev)

\* Hands the events, in order, to every connected client.
RouteToClients(events) ==
    LET new == [c \in Clients |->
                  IF connected[c]
                  THEN FoldLeft(LAMBDA st, ev : Route(c, st, ev), RoutingOf(c), events)
                  ELSE RoutingOf(c)]
    IN
    /\ mSharedStreamingRequest' = [c \in Clients |-> new[c].streaming]
    /\ mSharedRequestMap' = [c \in Clients |-> new[c].map]
    /\ mDeviceActive' = [c \in Clients |-> new[c].active]
    /\ delivered' = [c \in Clients |-> new[c].out]

-----------------------------------------------------------------------------
(* Binder calls of CameraDeviceClient: the part up to and including the    *)
(* device call.                                                            *)

\* submitRequestList(streaming = true); rejected for a non-primary client.
SubmitStreamingRequest(c) ==
    /\ CanCall(c, "submitStreaming")
    /\ c = Primary
    /\ NextClientRequestId(c)
    /\ \E m \in ClientSurfaceMaps(c) : setSharedStreamingRequest(c, m)
    /\ UNCHANGED <<sClientsPid, requestQueue, frameCounter, inFlight,
                   connected, mStreamingRequestId, mSharedStreamingRequest,
                   mSharedRequestMap, mStreamingRequestLastFrameNumber,
                   mDeviceActive, issued, cancelled>>
    /\ NothingDelivered

\* submitRequestList(streaming = false); rejected for a non-primary client.
SubmitCaptureRequest(c) ==
    /\ CanCall(c, "submitCapture")
    /\ c = Primary
    /\ NextClientRequestId(c)
    /\ \E m \in ClientSurfaceMaps(c) : setSharedCaptureRequest(c, m)
    /\ UNCHANGED <<sClientsPid, devStreamingRequestId, mClientRequestIds,
                   mClientSurfaces, repeating, repeatingLastFrame,
                   frameCounter, inFlight, connected, mStreamingRequestId,
                   mSharedStreamingRequest, mSharedRequestMap,
                   mStreamingRequestLastFrameNumber, mDeviceActive,
                   issued, cancelled>>
    /\ NothingDelivered

\* startStreaming(streamIds, surfaceIds), open to every shared client.
StartStreaming(c) ==
    /\ CanCall(c, "startStreaming")
    /\ NextClientRequestId(c)
    /\ \E m \in ClientSurfaceMaps(c) : startStreaming(c, m)
    /\ UNCHANGED <<sClientsPid, requestQueue, frameCounter, inFlight,
                   connected, mStreamingRequestId, mSharedStreamingRequest,
                   mSharedRequestMap, mStreamingRequestLastFrameNumber,
                   mDeviceActive, issued, cancelled>>
    /\ NothingDelivered

\* cancelRequest(mStreamingRequestId); any other id is rejected before a
\* change.  mStreamingRequestIdLock is held, but the result path does not
\* take it.  Left out: with no streaming request, cancelRequest
\* (REQUEST_ID_NONE) matches too and calls the device; enabling it in every
\* idle state multiplies the state space beyond the runs' budget.
CancelRequest(c) ==
    /\ CanCall(c, "cancel")
    /\ mStreamingRequestId[c] # REQUEST_ID_NONE
    /\ clearSharedStreamingRequest(c)
    /\ UNCHANGED <<sClientsPid, devStreamingRequestId, devRequestIdCounter,
                   requestQueue, frameCounter, inFlight, connected,
                   mStreamingRequestId, mSharedStreamingRequest,
                   mSharedRequestMap, mRequestIdCounter,
                   mStreamingRequestLastFrameNumber, mDeviceActive,
                   issued, cancelled>>
    /\ NothingDelivered

\* flush(): mStreamingRequestId is reset, then Camera3Device::flush clears
\* the repeating request and the request queue of every client, with an
\* ERROR_CAMERA_REQUEST for each dropped request under a fresh frame number.
Flush(c) ==
    LET dropped == [i \in 1 .. Len(requestQueue) |->
                      [kind |-> "error", id |-> requestQueue[i].id,
                       frame |-> frameCounter + i - 1]]
    IN
    /\ CanCall(c, "flush")
    /\ mStreamingRequestId' = [mStreamingRequestId EXCEPT ![c] = REQUEST_ID_NONE]
    /\ repeating' = NoRequest
    /\ repeatingLastFrame' = NO_IN_FLIGHT_REPEATING_FRAMES
    /\ requestQueue' = <<>>
    /\ frameCounter' = frameCounter + Len(requestQueue)
    /\ RouteToClients(dropped)
    /\ pending' = [pending EXCEPT ![c] =
          Call("flush", REQUEST_ID_NONE, REQUEST_ID_NONE, REQUEST_ID_NONE,
               TRUE, repeatingLastFrame)]
    /\ UNCHANGED <<deviceVars, inFlight, connected, mRequestIdCounter,
                   mStreamingRequestLastFrameNumber, issued, cancelled>>

\* AidlCamera3SharedDevice::disconnectClient: the pid is erased, and the
\* last one disconnects the Camera3Device, which drops its repeating
\* request and every queued and in-flight request.
disconnectClient(c) ==
    /\ sClientsPid' = sClientsPid \ {c}
    /\ IF sClientsPid' = {}
       THEN /\ repeating' = NoRequest
            /\ repeatingLastFrame' = NO_IN_FLIGHT_REPEATING_FRAMES
            /\ requestQueue' = <<>>
            /\ inFlight' = <<>>
       ELSE UNCHANGED <<repeating, repeatingLastFrame, requestQueue, inFlight>>

\* Client disconnect: detachDevice removes the client's frame-processor
\* listener and its shared surfaces from the streams (not from the
\* repeating request); if it is the only client it also flushes and
\* drains the device.  disconnectClient erases its pid and disconnects the
\* Camera3Device when no pid is left.  The client object is discarded.
Disconnect(c) ==
    /\ CanCall(c, "disconnect")
    /\ connected' = [connected EXCEPT ![c] = FALSE]
    /\ disconnectClient(c)
    /\ FreshClient(c)
    /\ issued' = {x \in issued : x[1] # c}
    /\ NothingDelivered
    /\ cancelled' = {x \in cancelled : x[1] # c}
    /\ UNCHANGED <<devStreamingRequestId, devRequestIdCounter,
                   mClientRequestIds, mClientSurfaces, frameCounter>>

\* A new CameraDeviceClient of pid c: getInstance creates a new shared
\* device when no pid is connected, and inserts the pid.
Connect(c) ==
    /\ "disconnect" \in ClientCalls
    /\ ~connected[c]
    /\ connected' = [connected EXCEPT ![c] = TRUE]
    /\ sClientsPid' = sClientsPid \cup {c}
    /\ IF sClientsPid = {}
       THEN FreshDevice
       ELSE UNCHANGED <<devStreamingRequestId, devRequestIdCounter,
                        mClientRequestIds, mClientSurfaces, baseVars>>
    /\ UNCHANGED <<mStreamingRequestId, mSharedStreamingRequest,
                   mSharedRequestMap, mRequestIdCounter,
                   mStreamingRequestLastFrameNumber, mDeviceActive, pending,
                   issued, cancelled>>
    /\ NothingDelivered

-----------------------------------------------------------------------------
(* The rest of each binder call, after the device call returned.           *)

\* startStreaming and submitRequestList(streaming): on success the client
\* records its request and the shared id, and markClientActive.
StreamingReturn(c) ==
    LET p == pending[c] IN
    /\ p.call \in {"streaming", "startStreaming"}
    /\ pending' = [pending EXCEPT ![c] = NoCall]
    /\ IF p.ok
       THEN /\ mStreamingRequestId' = [mStreamingRequestId EXCEPT ![c] = p.cid]
            /\ mSharedStreamingRequest' =
                  [mSharedStreamingRequest EXCEPT ![c] = <<p.sid, p.cid>>]
            /\ mDeviceActive' = [mDeviceActive EXCEPT ![c] = TRUE]
            /\ issued' = issued \cup {<<c, p.cid, p.actual, "streaming">>}
       ELSE UNCHANGED <<mStreamingRequestId, mSharedStreamingRequest,
                        mDeviceActive, issued>>
    /\ UNCHANGED <<deviceVars, baseVars, connected, mSharedRequestMap,
                   mRequestIdCounter, mStreamingRequestLastFrameNumber,
                   cancelled>>
    /\ NothingDelivered

\* Faulty variant: the map entry is written the wrong way round.
CaptureReturnSwapped(c) ==
    LET p == pending[c] IN
    /\ p.call = "capture"
    /\ pending' = [pending EXCEPT ![c] = NoCall]
    /\ mSharedRequestMap' =
          [mSharedRequestMap EXCEPT ![c] = (p.cid :> p.sid) @@ @]
    /\ mDeviceActive' = [mDeviceActive EXCEPT ![c] = TRUE]
    /\ issued' = IF p.ok THEN issued \cup {<<c, p.cid, p.actual, "capture">>}
               ELSE issued
    /\ UNCHANGED <<deviceVars, baseVars, connected, mStreamingRequestId,
                   mSharedStreamingRequest, mRequestIdCounter,
                   mStreamingRequestLastFrameNumber, cancelled>>
    /\ NothingDelivered

\* submitRequestList(capture): mSharedRequestMap[sharedReqID] is written
\* and markClientActive runs whether or not the device call succeeded.
CaptureReturn(c) ==
    LET p == pending[c] IN
    /\ p.call = "capture"
    /\ pending' = [pending EXCEPT ![c] = NoCall]
    /\ mSharedRequestMap' =
          [mSharedRequestMap EXCEPT ![c] = (p.sid :> p.cid) @@ @]
    /\ mDeviceActive' = [mDeviceActive EXCEPT ![c] = TRUE]
    /\ issued' = IF p.ok THEN issued \cup {<<c, p.cid, p.actual, "capture">>}
               ELSE issued
    /\ UNCHANGED <<deviceVars, baseVars, connected, mStreamingRequestId,
                   mSharedStreamingRequest, mRequestIdCounter,
                   mStreamingRequestLastFrameNumber, cancelled>>
    /\ NothingDelivered

\* cancelRequest: on success the streaming id is reset and the last frame
\* number the device returned is kept for the result path.
CancelReturn(c) ==
    LET p == pending[c] IN
    /\ p.call = "cancel"
    /\ pending' = [pending EXCEPT ![c] = NoCall]
    /\ IF p.ok
       THEN /\ mStreamingRequestId' = [mStreamingRequestId EXCEPT ![c] = REQUEST_ID_NONE]
            /\ mStreamingRequestLastFrameNumber' =
                  [mStreamingRequestLastFrameNumber EXCEPT ![c] = p.last]
            /\ cancelled' = cancelled \cup {<<c, p.cid, p.last>>}
       ELSE UNCHANGED <<mStreamingRequestId, mStreamingRequestLastFrameNumber,
                        cancelled>>
    /\ UNCHANGED <<deviceVars, baseVars, connected, mSharedStreamingRequest,
                   mSharedRequestMap, mRequestIdCounter, mDeviceActive,
                   issued>>
    /\ NothingDelivered

\* flush: in shared mode the capture map is cleared and the last frame
\* number kept.
FlushReturn(c) ==
    LET p == pending[c] IN
    /\ p.call = "flush"
    /\ pending' = [pending EXCEPT ![c] = NoCall]
    /\ mSharedRequestMap' = [mSharedRequestMap EXCEPT ![c] = EmptyRequestMap]
    /\ mStreamingRequestLastFrameNumber' =
          [mStreamingRequestLastFrameNumber EXCEPT ![c] = p.last]
    /\ UNCHANGED <<deviceVars, baseVars, connected, mStreamingRequestId,
                   mSharedStreamingRequest, mRequestIdCounter, mDeviceActive,
                   issued, cancelled>>
    /\ NothingDelivered

-----------------------------------------------------------------------------
(* Camera3Device and the HAL.                                              *)

\* The request thread submits the next queued capture, or else the next
\* frame of the repeating request.
IssueRequest ==
    /\ \/ /\ requestQueue # <<>>
          /\ inFlight' = Append(inFlight, [id |-> Head(requestQueue).id,
                                           frame |-> frameCounter])
          /\ requestQueue' = Tail(requestQueue)
          /\ UNCHANGED <<repeating, repeatingLastFrame>>
       \/ /\ requestQueue = <<>>
          /\ repeating.id # REQUEST_ID_NONE
          /\ frameCounter < MaxFrameNumber
          /\ inFlight' = Append(inFlight, [id |-> repeating.id,
                                           frame |-> frameCounter])
          /\ repeatingLastFrame' = frameCounter
          /\ UNCHANGED <<repeating, requestQueue>>
    /\ frameCounter' = frameCounter + 1
    /\ UNCHANGED <<deviceVars, clientVars, issued, cancelled>>
    /\ NothingDelivered

\* The HAL completes the oldest frame.  The frame processor hands its result
\* to every registered client, or the device fans its ERROR_CAMERA_REQUEST
\* out to every client listener.
CompleteRequest ==
    /\ inFlight # <<>>
    /\ \E kind \in IF DeviceErrors THEN {"result", "error"} ELSE {"result"} :
          RouteToClients(<<[kind |-> kind, id |-> Head(inFlight).id,
                            frame |-> Head(inFlight).frame]>>)
    /\ inFlight' = Tail(inFlight)
    /\ UNCHANGED <<deviceVars, repeating, repeatingLastFrame, requestQueue,
                   frameCounter, connected, mStreamingRequestId,
                   mRequestIdCounter, mStreamingRequestLastFrameNumber,
                   pending, issued, cancelled>>

-----------------------------------------------------------------------------
ClientCall(c) ==
    \/ SubmitStreamingRequest(c)
    \/ SubmitCaptureRequest(c)
    \/ StartStreaming(c)
    \/ CancelRequest(c)
    \/ Flush(c)
    \/ Disconnect(c)
    \/ Connect(c)

CallReturn(c) ==
    \/ StreamingReturn(c)
    \/ CaptureReturn(c)
    \/ CancelReturn(c)
    \/ FlushReturn(c)

Next ==
    \/ \E c \in Clients : ClientCall(c) \/ CallReturn(c)
    \/ IssueRequest
    \/ CompleteRequest

\* A started binder call returns, and the request thread, the HAL and the
\* frame processor keep working.
\* The application's calls are never forced.
Fairness ==
    /\ WF_vars(IssueRequest)
    /\ WF_vars(CompleteRequest)
    /\ \A c \in Clients : WF_vars(CallReturn(c))

Spec == Init /\ [][Next]_vars /\ Fairness

-----------------------------------------------------------------------------
(* Properties.                                                             *)

IsSurfaceMap(m) ==
    /\ DOMAIN m \subseteq Streams
    /\ \A k \in DOMAIN m : m[k] \in Seq(Surfaces) /\ m[k] # <<>>

RequestIds == REQUEST_ID_NONE .. MaxRequestId

Delivery_T == [client : Clients, id : RequestIds, frame : Nat,
               kind : {"result", "error"}, cid : RequestIds]

\* Types; a surface vector is never empty (removeClientSurfaceMap erases a
\* key whose vector it empties), and a repeating request has surfaces.
TypeOK ==
    /\ sClientsPid \subseteq Clients
    /\ devStreamingRequestId \in RequestIds
    /\ devRequestIdCounter \in 0 .. MaxRequestId
    /\ mClientRequestIds \in [Clients -> RequestIds]
    /\ \A c \in Clients : IsSurfaceMap(mClientSurfaces[c])
    /\ repeating.id \in RequestIds
    /\ IsSurfaceMap(repeating.surfaces)
    /\ (repeating.id = REQUEST_ID_NONE) = (DOMAIN repeating.surfaces = {})
    /\ repeatingLastFrame \in NO_IN_FLIGHT_REPEATING_FRAMES .. frameCounter
    /\ \A i \in DOMAIN requestQueue : IsSurfaceMap(requestQueue[i].surfaces)
    /\ frameCounter \in Nat
    /\ connected \in [Clients -> BOOLEAN]
    /\ mStreamingRequestId \in [Clients -> RequestIds]
    /\ mSharedStreamingRequest \in [Clients -> RequestIds \X RequestIds]
    /\ \A c \in Clients : mSharedRequestMap[c] \in [DOMAIN mSharedRequestMap[c] -> RequestIds]
    /\ mRequestIdCounter \in [Clients -> 0 .. MaxRequestId]
    /\ mDeviceActive \in [Clients -> BOOLEAN]
    /\ \A c \in Clients : delivered[c] \subseteq Delivery_T

\* Routing (onResultAvailable, notifyError, and the shared id each device
\* call hands back): the application of a client receives a result or an
\* error under its request id x only for a frame of the device request
\* that carries x.
DeliveryAttributed ==
    \A c \in Clients : \A d \in delivered[c] :
        \E k \in {"streaming", "capture"} : <<c, d.cid, d.id, k>> \in issued

\* Surface bookkeeping (mergeSurfaceMaps, removeClientSurfaceMap,
\* mClientSurfaces): while a repeating request runs, every surface the
\* device records for a client is still part of it, whatever the other
\* clients joined, re-issued or cancelled in between.
ClientSurfacesStreamed ==
    repeating.id # REQUEST_ID_NONE =>
        \A c \in Clients :
            SurfacesOf(mClientSurfaces[c]) \subseteq SurfacesOf(repeating.surfaces)

\* The comment of setSharedStreamingRequest: only the surfaces of other
\* clients' ongoing streaming are merged into a new repeating request, so
\* every surface of the repeating request is recorded for some client.
RepeatingSurfacesOwned ==
    SurfacesOf(repeating.surfaces)
        \subseteq UNION {SurfacesOf(mClientSurfaces[c]) : c \in Clients}

\* A client whose surfaces are in the running repeating request maps that
\* request's id to its own (mSharedStreamingRequest), so that its results
\* reach it.
StreamingClientsMatched ==
    \A c \in Clients :
        ( /\ connected[c]
          /\ pending[c] = NoCall
          /\ repeating.id # REQUEST_ID_NONE
          /\ SurfacesOf(mClientSurfaces[c]) \cap SurfacesOf(repeating.surfaces) # {} )
        => mSharedStreamingRequest[c][1] = repeating.id

\* The comment in onResultAvailable: after cancelRequest the client still
\* gets the results of its streaming request up to the last frame number
\* cancelRequest returned, and none after it.
CancelledStreamBounded ==
    \A x \in cancelled :
        \A d \in delivered[x[1]] : d.cid = x[2] => d.frame <= x[3]

\* Nothing of the client is left to do.
Quiescent(c) ==
    /\ connected[c]
    /\ pending[c] = NoCall
    /\ mStreamingRequestId[c] = REQUEST_ID_NONE
    /\ requestQueue = <<>>
    /\ inFlight = <<>>

\* markClientActive / markClientIdle: a client marked active with nothing
\* left to do is eventually marked idle (finishCameraStreamingOps).
ClientEventuallyIdle ==
    \A c \in Clients :
        (Quiescent(c) /\ mDeviceActive[c]) ~> (~mDeviceActive[c] \/ ~connected[c])

\* A capture the device accepted for the primary client eventually reaches
\* its application as a result or an error, unless the client disconnects.
CaptureResolved ==
    \A x \in 0 .. MaxRequestId - 1 :
        (\E sid \in RequestIds : <<Primary, x, sid, "capture">> \in issued)
            ~> (\/ \E d \in delivered[Primary] : d.cid = x
                \/ ~connected[Primary])

=============================================================================
