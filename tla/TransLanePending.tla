-------------------------- MODULE TransLanePending --------------------------
(***************************************************************************)
(* The Lane Pending Controller of trans_lane_pending_ctl.c: the sync and   *)
(* async pending lists, the requesting threads, the Lane Manager that      *)
(* answers through listener callbacks, and the async callback thread that  *)
(* opens the channel (TransAsyncOpenChannelProc).                          *)
(*                                                                         *)
(* Each request is minted its own laneHandle, so a request names its       *)
(* handle.  Every locked section of the code is one atomic step; the       *)
(* condition wait of TransWaitingRequestCallback releases the lock and is  *)
(* split into entering the wait and waking from it.                        *)
(***************************************************************************)
EXTENDS Naturals, Sequences, FiniteSets, Functions, TLC

CONSTANTS
    Req,             \* the lane requests (laneHandle values), model values
    LinkKinds,       \* LaneLinkType values the Lane Manager may report
    ChannelTypes,    \* channel types FillAppInfo may choose
    SpuriousWakeup,  \* may SoftBusCondWait (pthread_cond_wait) return unsignalled
    LoseCallback,    \* may the Lane Manager never answer an accepted request
    AppInfoMayFail,  \* may TransCommonGetAppInfo return NULL in a callback
    MayDeinit,       \* may TransReqLanePendingDeinit run while requests are live
    SessionParams,   \* SessionParam values callers pass (RequestShaper form)
    Envs             \* ledger / uid-pid answers the shaping reads

CO == INSTANCE ConnectOpt
RS == INSTANCE RequestShaper

ASSUME /\ Req # {}
       /\ LinkKinds \subseteq CO!LaneLinkTypes
       /\ "CHANNEL_TYPE_TCP_DIRECT" \in ChannelTypes
       /\ {SpuriousWakeup, LoseCallback, AppInfoMayFail, MayDeinit} \subseteq BOOLEAN

NoLink == "NO_LINK"

VARIABLES
    pc,            \* requesting thread's control point
    req,           \* request shape: mode, caller's isQosLane, shaped isQosLane
    syncPending,   \* g_reqLanePendingList: laneHandle -> TransReqLaneItem
    asyncPending,  \* g_asyncReqLanePendingList: laneHandle -> copied param
    ret,           \* value returned to the requester
    retConn,       \* connInfo copied out to a sync requester
    lmState,       \* Lane Manager: idle, pending (owes a callback), lost, done
    lmApi,         \* which API took the request: LnnRequestLane or lnnAllocLane
    result,        \* what the Lane Manager reported in its callback
    lane,          \* ownership of the lane the Lane Manager allocated
    freedVia,      \* the free calls made on it, in order: LnnFreeLane or lnnFreeLane
    cb,            \* async callback thread's control point
    view,          \* the callback's shallow copy of the pending item's param
    notified,      \* channel-open outcomes pushed to the client over IPC
    lists,         \* the pending lists not yet destroyed (non-NULL globals)
    paramBufs,     \* heap buffers of each request's async param copy still allocated
    woken          \* waiters a SoftBusCondSignal has released and that have not yet run

vars == <<pc, req, syncPending, asyncPending, ret, retConn, lmState, lmApi,
          result, lane, freedVia, cb, view, notified, lists, paramBufs, woken>>

Modes     == {"sync", "async"}
ReqShape  == [mode : Modes, callerQos : BOOLEAN, isQosLane : BOOLEAN]
NoShape   == [mode |-> "none", callerQos |-> FALSE, isQosLane |-> FALSE]
ErrCodes  == {"SOFTBUS_OK", "SOFTBUS_ERR", "LANE_FAIL_REASON"}
SyncItem  == [bSucc : BOOLEAN, isFinished : BOOLEAN, errCode : ErrCodes,
              connInfo : LinkKinds \cup {NoLink}]
AsyncItem == [isQosLane : BOOLEAN]
Results   == [ok : BOOLEAN, link : LinkKinds \cup {NoLink}]
NoResult  == [ok |-> FALSE, link |-> "NONE"]
Notice    == [kind : {"OnChannelOpenFailed", "SetChannelInfo"}, code : ErrCodes]

-----------------------------------------------------------------------------
(* Pending-list helpers.                                                   *)

\* TransDelLaneReqFromPendingList: unlink the item if present, else no-op.
DelPending(tbl, h) == Restrict(tbl, DOMAIN tbl \ {h})

\* TransAddLaneReqFromPendingList's freshly initialised sync item.
NewSyncItem == [bSucc |-> FALSE, isFinished |-> FALSE, errCode |-> "SOFTBUS_ERR",
                connInfo |-> NoLink]

\* Insert a fresh item under the list lock.
TransAddLaneReqFromPendingList(h) == syncPending' = syncPending @@ (h :> NewSyncItem)

\* The buffers CopyAsyncReqItemSessionParam and CopyAsyncReqItemSessionParamIds
\* allocate for an async item's param, in the order they allocate them.
ParamCopyOrder == <<"sessionName", "peerSessionName", "peerDeviceId", "groupId", "attr">>
ParamBuffers   == Range(ParamCopyOrder)

\* CopyAsyncReqItemSessionParam (ending in ...Ids) as the set of its endings:
\* whether it returned SOFTBUS_OK and which buffers it left assigned to the
\* target param.  A failed SoftBusCalloc or strcpy_s of the i-th buffer
\* returns with the buffers before it assigned (a buffer whose strcpy_s
\* failed is freed on the spot); a failed memcpy_s of the QoS array returns
\* an error with every buffer assigned.
CopyAsyncReqItemSessionParam ==
    {[ok |-> FALSE, held |-> Range(SubSeq(ParamCopyOrder, 1, i - 1))] : i \in DOMAIN ParamCopyOrder}
    \cup {[ok |-> ok, held |-> ParamBuffers] : ok \in BOOLEAN}

\* DestroyAsyncReqItemParam: free each of the five fields that is not NULL.
DestroyAsyncReqItemParam(held) == held \ ParamBuffers

\* TransAddAsyncLaneReqFromPendingList after the item's calloc, given how the
\* deep copy ended and whether the list lock was taken: insert an item that
\* owns the copied param (of which the model keeps param->isQosLane, copied
\* as the caller passed it), or, on a failed copy or lock, destroy what the
\* copy assigned and free the item.
TransAddAsyncLaneReqFromPendingList(h, isQosLane, copy, locked) ==
    IF copy.ok /\ locked
      THEN /\ asyncPending' = asyncPending @@ (h :> [isQosLane |-> isQosLane])
           /\ paramBufs' = [paramBufs EXCEPT ![h] = copy.held]
      ELSE /\ paramBufs' = [paramBufs EXCEPT ![h] = DestroyAsyncReqItemParam(copy.held)]
           /\ UNCHANGED asyncPending

\* TransDelLaneReqFromPendingList(h, true): unlink the async item and
\* DestroyAsyncReqItemParam its param; an unknown handle is a no-op.
DelAsyncPending(h) ==
    /\ asyncPending' = DelPending(asyncPending, h)
    /\ paramBufs' = IF h \in DOMAIN asyncPending
                      THEN [paramBufs EXCEPT ![h] = DestroyAsyncReqItemParam(@)]
                      ELSE paramBufs

\* The free API matching the path: lnnFreeLane for QoS, LnnFreeLane otherwise.
FreeApi(isQos) == IF isQos THEN "qos" ELSE "legacy"

\* n calls of LnnFreeLane / GetLaneManager()->lnnFreeLane on the async
\* channel path, each recorded in the order made.
FreeLane(h, isQos, n) ==
    /\ lane' = [lane EXCEPT ![h] = "freed"]
    /\ freedVia' = [freedVia EXCEPT ![h] = @ \o [i \in 1..n |-> FreeApi(isQos)]]

-----------------------------------------------------------------------------
(* Requesting thread.                                                      *)

\* The shaping both entry points share, up to the choice of path:
\* *isQosLane starts as param->isQosLane, GetRequestOptionBySessionParam may
\* clear it (ModuleLaneAdapter), and on the QoS path
\* GetAllocInfoBySessionParam runs too; a shaping error returns before any
\* handle is used.
GetLaneInfo(r, mode) ==
    /\ pc[r] = "idle"
    /\ \E param \in SessionParams, env \in Envs :
          LET opt   == RS!GetRequestOptionBySessionParam(param, env)
              alloc == RS!GetAllocInfoBySessionParam(param, env, opt.isQosLane)
              ok    == opt.ret = "SOFTBUS_OK" /\ (opt.isQosLane => alloc.ret = "SOFTBUS_OK")
          IN
          /\ req' = [req EXCEPT ![r] = [mode |-> mode, callerQos |-> param.isQosLane,
                                         isQosLane |-> opt.isQosLane]]
          /\ IF ok
               THEN pc' = [pc EXCEPT ![r] = "add"] /\ UNCHANGED ret
               ELSE pc' = [pc EXCEPT ![r] = "done"] /\ ret' = [ret EXCEPT ![r] = "SOFTBUS_ERR"]
    /\ UNCHANGED <<paramBufs, woken, syncPending, asyncPending, retConn, lmState, lmApi, result,
                   lane, freedVia, cb, view, notified>>

\* TransGetLaneInfo: the blocking entry point, on to
\* TransGetLaneInfoByOption or TransGetLaneInfoByQos.
TransGetLaneInfo(r) == GetLaneInfo(r, "sync")

\* TransAsyncGetLaneInfo: the same shaping, on to
\* TransAsyncGetLaneInfoByOption or TransAsyncGetLaneInfoByQos.
TransAsyncGetLaneInfo(r) == GetLaneInfo(r, "async")

\* TransAddLaneReqFromPendingList (sync) or TransAddAsyncLaneReqFromPendingList
\* (async, which deep-copies the caller's param, isQosLane included).  Either
\* may fail (list destroyed, calloc, copy, lock, cond init) and the request
\* returns an error.
AddPending(r) ==
    /\ pc[r] = "add"
    /\ \/ /\ req[r].mode = "sync"
          /\ "sync" \in lists
          /\ TransAddLaneReqFromPendingList(r)
          /\ pc' = [pc EXCEPT ![r] = "submit"]
          /\ UNCHANGED <<asyncPending, ret, paramBufs>>
       \/ /\ req[r].mode = "async"
          /\ "async" \in lists
          /\ \E copy \in CopyAsyncReqItemSessionParam, locked \in BOOLEAN :
               LET added == copy.ok /\ locked IN
               /\ TransAddAsyncLaneReqFromPendingList(r, req[r].callerQos, copy, locked)
               /\ pc' = [pc EXCEPT ![r] = IF added THEN "submit" ELSE "done"]
               /\ ret' = IF added THEN ret ELSE [ret EXCEPT ![r] = "SOFTBUS_ERR"]
          /\ UNCHANGED syncPending
       \/ /\ pc' = [pc EXCEPT ![r] = "done"]
          /\ ret' = [ret EXCEPT ![r] = "SOFTBUS_ERR"]
          /\ UNCHANGED <<syncPending, asyncPending, paramBufs>>
    /\ UNCHANGED <<woken, req, retConn, lmState, lmApi, result, lane, freedVia, cb, view, notified>>

\* Mutant: the rejection path returns without TransDelLaneReqFromPendingList.
SubmitLaneKeepsItem(r) ==
    /\ pc[r] = "submit"
    /\ lmApi' = [lmApi EXCEPT ![r] = FreeApi(req[r].isQosLane)]
    /\ \/ /\ lmState' = [lmState EXCEPT ![r] = "pending"]
          /\ IF req[r].mode = "sync"
               THEN pc' = [pc EXCEPT ![r] = "wait"] /\ UNCHANGED ret
               ELSE /\ pc' = [pc EXCEPT ![r] = "done"]
                    /\ ret' = [ret EXCEPT ![r] = "SOFTBUS_OK"]
       \/ /\ pc' = [pc EXCEPT ![r] = "done"]
          /\ ret' = [ret EXCEPT ![r] = "SOFTBUS_ERR"]
          /\ UNCHANGED lmState
    /\ UNCHANGED <<paramBufs, woken, req, syncPending, asyncPending, retConn, result, lane,
                   freedVia, cb, view, notified>>

\* LnnRequestLane (legacy) or lnnAllocLane (QoS) with the mode's listener.
\* On rejection the item is deleted and the error returned; on acceptance an
\* async request returns SOFTBUS_OK and a sync one goes on to wait.
SubmitLane(r) ==
    /\ pc[r] = "submit"
    /\ lmApi' = [lmApi EXCEPT ![r] = FreeApi(req[r].isQosLane)]
    /\ \/ /\ lmState' = [lmState EXCEPT ![r] = "pending"]
          /\ IF req[r].mode = "sync"
               THEN pc' = [pc EXCEPT ![r] = "wait"] /\ UNCHANGED ret
               ELSE /\ pc' = [pc EXCEPT ![r] = "done"]
                    /\ ret' = [ret EXCEPT ![r] = "SOFTBUS_OK"]
          /\ UNCHANGED <<syncPending, asyncPending, paramBufs>>
       \/ /\ pc' = [pc EXCEPT ![r] = "done"]
          /\ ret' = [ret EXCEPT ![r] = "SOFTBUS_ERR"]
          /\ syncPending' = DelPending(syncPending, r)
          /\ DelAsyncPending(r)
          /\ UNCHANGED lmState
    /\ UNCHANGED <<woken, req, retConn, result, lane, freedVia, cb, view, notified>>

\* Mutant: the isFinished test and the cond wait are dropped.
WaitingRequestCallbackNoWait(r) ==
    /\ pc[r] = "wait"
    /\ pc' = [pc EXCEPT ![r] = "read"]
    /\ UNCHANGED <<paramBufs, woken, req, syncPending, asyncPending, ret, retConn, lmState, lmApi,
                   result, lane, freedVia, cb, view, notified>>

\* Mutant: the isFinished test is dropped and the thread always waits.
WaitingRequestCallbackAlwaysWaits(r) ==
    /\ pc[r] = "wait"
    /\ IF r \in DOMAIN syncPending
         THEN /\ pc' = [pc EXCEPT ![r] = "waiting"]
              /\ UNCHANGED ret
         ELSE /\ pc' = [pc EXCEPT ![r] = "done"]
              /\ ret' = [ret EXCEPT ![r] = "SOFTBUS_ERR"]
    /\ UNCHANGED <<paramBufs, woken, req, syncPending, asyncPending, retConn, lmState, lmApi,
                   result, lane, freedVia, cb, view, notified>>

\* TransWaitingRequestCallback under the list lock: if it is not finished the
\* thread waits on the item's cond with timeMillis 0, i.e. with no timeout.
\* A missing item (the list was destroyed) returns SOFTBUS_ERR, and so does
\* the requester after its (no-op) TransDelLaneReqFromPendingList.
WaitingRequestCallback(r) ==
    /\ pc[r] = "wait"
    /\ IF r \in DOMAIN syncPending
         THEN /\ pc' = [pc EXCEPT ![r] = IF syncPending[r].isFinished THEN "read" ELSE "waiting"]
              /\ UNCHANGED ret
         ELSE /\ pc' = [pc EXCEPT ![r] = "done"]
              /\ ret' = [ret EXCEPT ![r] = "SOFTBUS_ERR"]
    /\ UNCHANGED <<paramBufs, woken, req, syncPending, asyncPending, retConn, lmState, lmApi,
                   result, lane, freedVia, cb, view, notified>>

\* Return from SoftBusCondWait: after a signal that found the thread
\* waiting, or, where the platform allows it, spuriously.  The code tests
\* isFinished with `if`, not `while`, so it does not wait again.  Once
\* deinit has destroyed the item and its cond nothing signals it; a
\* spurious return then would unlock the freed list's mutex, a crash the
\* model does not follow.
CondWakeup(r) ==
    /\ pc[r] = "waiting"
    /\ r \in DOMAIN syncPending
    /\ r \in woken \/ SpuriousWakeup
    /\ pc' = [pc EXCEPT ![r] = "read"]
    /\ woken' = woken \ {r}
    /\ UNCHANGED <<paramBufs, req, syncPending, asyncPending, ret, retConn, lmState, lmApi,
                   result, lane, freedVia, cb, view, notified>>

\* TransGetLaneReqItemByLaneHandle: under the lock, copy out the item's
\* errCode and connInfo.  An unknown handle, or a destroyed list, returns
\* SOFTBUS_ERR and leaves the caller's errCode at its SOFTBUS_ERR default.
TransGetLaneReqItemByLaneHandle(h) ==
    IF h \in DOMAIN syncPending
      THEN [ret |-> "SOFTBUS_OK", errCode |-> syncPending[h].errCode,
            connInfo |-> syncPending[h].connInfo]
      ELSE [ret |-> "SOFTBUS_ERR", errCode |-> "SOFTBUS_ERR", connInfo |-> NoLink]

\* TransGetLaneReqItemByLaneHandle then TransDelLaneReqFromPendingList:
\* delete the item and return the errCode read.  On success the caller now
\* holds the lane.  (Nothing else writes the item between the two locked
\* sections that the caller could observe, so they are one step.)
ReadAndDelete(r) ==
    /\ pc[r] = "read"
    /\ LET got == TransGetLaneReqItemByLaneHandle(r) IN
       /\ ret' = [ret EXCEPT ![r] = got.errCode]
       /\ IF got.ret = "SOFTBUS_OK"
            THEN /\ retConn' = [retConn EXCEPT ![r] = got.connInfo]
                 /\ lane' = [lane EXCEPT ![r] = IF got.errCode = "SOFTBUS_OK" THEN "caller" ELSE @]
            ELSE UNCHANGED <<retConn, lane>>
    /\ syncPending' = DelPending(syncPending, r)
    /\ pc' = [pc EXCEPT ![r] = "done"]
    /\ UNCHANGED <<paramBufs, woken, req, asyncPending, lmState, lmApi, result, freedVia, cb, view, notified>>

-----------------------------------------------------------------------------
(* Lane Manager and the sync listener.                                     *)

\* The Lane Manager allocates (or fails to) and calls the sync listener:
\* TransOnLaneRequestSuccess/AllocSuccess/RequestFail/AllocFail, which run
\* TransUpdateLaneConnInfoByLaneHandle: under the lock, write the result,
\* set isFinished and signal; an unknown handle is dropped.  The signal
\* releases the requester only if it is already waiting on the cond; one
\* sent before it waits is lost, and isFinished is what it then reads.
SyncLaneCallback(r) ==
    /\ lmState[r] = "pending"
    /\ req[r].mode = "sync"
    /\ \E res \in Results :
          /\ (res.ok <=> res.link # NoLink)
          /\ result' = [result EXCEPT ![r] = res]
          /\ lane' = [lane EXCEPT ![r] = IF res.ok THEN "alloc" ELSE @]
          /\ syncPending' =
               IF r \in DOMAIN syncPending
                 THEN [syncPending EXCEPT ![r] =
                         [bSucc |-> res.ok, isFinished |-> TRUE,
                          errCode |-> IF res.ok THEN "SOFTBUS_OK" ELSE "LANE_FAIL_REASON",
                          connInfo |-> IF res.ok THEN res.link ELSE @.connInfo]]
                 ELSE syncPending
    /\ woken' = IF r \in DOMAIN syncPending /\ pc[r] = "waiting" THEN woken \cup {r} ELSE woken
    /\ lmState' = [lmState EXCEPT ![r] = "done"]
    /\ UNCHANGED <<paramBufs, pc, req, asyncPending, ret, retConn, lmApi, freedVia, cb, view, notified>>

\* The Lane Manager calls the async listener; the callback thread starts.
AsyncLaneCallback(r) ==
    /\ lmState[r] = "pending"
    /\ req[r].mode = "async"
    /\ \E res \in Results :
          /\ (res.ok <=> res.link # NoLink)
          /\ result' = [result EXCEPT ![r] = res]
          /\ lane' = [lane EXCEPT ![r] = IF res.ok THEN "alloc" ELSE @]
    /\ lmState' = [lmState EXCEPT ![r] = "done"]
    /\ cb' = [cb EXCEPT ![r] = "lookup"]
    /\ UNCHANGED <<paramBufs, woken, pc, req, syncPending, asyncPending, ret, retConn, lmApi, freedVia,
                   view, notified>>

\* A Lane Manager that never answers an accepted request.
LoseLaneCallback(r) ==
    /\ LoseCallback
    /\ lmState[r] = "pending"
    /\ lmState' = [lmState EXCEPT ![r] = "lost"]
    /\ UNCHANGED <<paramBufs, woken, pc, req, syncPending, asyncPending, ret, retConn, lmApi, result,
                   lane, freedVia, cb, view, notified>>

-----------------------------------------------------------------------------
(* Async callback thread (TransOnAsyncLane{Request,Alloc}{Success,Fail}).  *)

\* Mutant: the lookup unlinks the item it copies (a take, not a peek).
AsyncGetParamUnlinks(r) ==
    /\ cb[r] = "lookup"
    /\ IF r \in DOMAIN asyncPending
         THEN /\ view' = [view EXCEPT ![r] = asyncPending[r]]
              /\ asyncPending' = DelPending(asyncPending, r)
              /\ cb' = [cb EXCEPT ![r] = "appInfo"]
         ELSE /\ cb' = [cb EXCEPT ![r] = "end"]
              /\ UNCHANGED <<view, asyncPending>>
    /\ UNCHANGED <<paramBufs, woken, pc, req, syncPending, ret, retConn, lmState, lmApi,
                   result, lane, freedVia, notified>>

\* TransGetLaneReqItemParamByLaneHandle: under the lock, memcpy the item's
\* param out.  The copy is shallow: its strings still point into the item.
\* An unknown handle is "deleted" (a no-op) and the callback returns.
AsyncGetParam(r) ==
    /\ cb[r] = "lookup"
    /\ IF r \in DOMAIN asyncPending
         THEN /\ view' = [view EXCEPT ![r] = asyncPending[r]]
              /\ cb' = [cb EXCEPT ![r] = "appInfo"]
         ELSE /\ cb' = [cb EXCEPT ![r] = "end"]
              /\ UNCHANGED view
    /\ UNCHANGED <<paramBufs, woken, pc, req, syncPending, asyncPending, ret, retConn, lmState, lmApi,
                   result, lane, freedVia, notified>>

\* TransCommonGetAppInfo(&param).  On NULL the callback returns at
\* TRANS_CHECK_AND_RETURN_LOGW: the item stays listed and the lane allocated.
AsyncGetAppInfo(r) ==
    /\ cb[r] = "appInfo"
    /\ \/ cb' = [cb EXCEPT ![r] = IF result[r].ok THEN "open" ELSE "fail"]
       \/ AppInfoMayFail /\ cb' = [cb EXCEPT ![r] = "end"]
    /\ UNCHANGED <<paramBufs, woken, pc, req, syncPending, asyncPending, ret, retConn, lmState, lmApi,
                   result, lane, freedVia, view, notified>>

\* The client notices of an async open.
OpenFailed(code) == [kind |-> "OnChannelOpenFailed", code |-> code]
ChannelInfo      == [kind |-> "SetChannelInfo", code |-> "SOFTBUS_OK"]

\* Mutant: a failed TransLaneMgrAddLane also calls CallBackOpenChannelFailed.
TransAsyncOpenChannelProcDoubleNotice(conn, channelType) ==
    IF conn = CO!ConnErr
      THEN {[notices |-> <<OpenFailed("SOFTBUS_ERR")>>, frees |-> 1]}
      ELSE {[notices |-> <<OpenFailed("SOFTBUS_ERR")>>, frees |-> 1],
            [notices |-> <<OpenFailed("SOFTBUS_OK")>>, frees |-> 1]}
           \cup
           IF channelType = "CHANNEL_TYPE_TCP_DIRECT" /\ conn # "CONNECT_P2P"
             THEN {[notices |-> <<ChannelInfo>>, frees |-> 1]}
             ELSE {[notices |-> <<ChannelInfo>>, frees |-> 0],
                   [notices |-> <<ChannelInfo, OpenFailed("SOFTBUS_ERR")>>, frees |-> 1]}

\* Mutant: the TCP_DIRECT fast path lacks its return and runs EXIT_ERR too.
TransAsyncOpenChannelProcFreeTwice(conn, channelType) ==
    IF conn = CO!ConnErr
      THEN {[notices |-> <<OpenFailed("SOFTBUS_ERR")>>, frees |-> 1]}
      ELSE {[notices |-> <<OpenFailed("SOFTBUS_ERR")>>, frees |-> 1],
            [notices |-> <<OpenFailed("SOFTBUS_OK")>>, frees |-> 1]}
           \cup
           IF channelType = "CHANNEL_TYPE_TCP_DIRECT" /\ conn # "CONNECT_P2P"
             THEN {[notices |-> <<ChannelInfo>>, frees |-> 2]}
             ELSE {[notices |-> <<ChannelInfo>>, frees |-> 0],
                   [notices |-> <<ChannelInfo>>, frees |-> 1]}

\* TransAsyncOpenChannelProc as the set of its possible endings, given the
\* translated connect option and the channel type FillAppInfo chose: the
\* notices sent to the client and how many free calls it makes on the lane:
\* one (at EXIT_ERR or on the TCP_DIRECT fast path), or none when the lane
\* is bound to the channel (TransLaneMgrAddLane).
\* Every failure before TransLaneMgrAddLane calls CallBackOpenChannelFailed;
\* after a failed ClientIpcSetChannelInfo errCode still holds the SOFTBUS_OK
\* of TransOpenChannelProc.  A failed TransLaneMgrAddLane closes the channel
\* and frees the lane without a failure notice.
TransAsyncOpenChannelProc(conn, channelType) ==
    IF conn = CO!ConnErr
      THEN {[notices |-> <<OpenFailed("SOFTBUS_ERR")>>, frees |-> 1]}
      ELSE {[notices |-> <<OpenFailed("SOFTBUS_ERR")>>, frees |-> 1],
            [notices |-> <<OpenFailed("SOFTBUS_OK")>>, frees |-> 1]}
           \cup
           IF channelType = "CHANNEL_TYPE_TCP_DIRECT" /\ conn # "CONNECT_P2P"
             THEN {[notices |-> <<ChannelInfo>>, frees |-> 1]}
             ELSE {[notices |-> <<ChannelInfo>>, frees |-> 0],
                   [notices |-> <<ChannelInfo>>, frees |-> 1]}

\* TransOnAsyncLane{Request,Alloc}Success after AppInfo: translate the
\* connInfo, run TransAsyncOpenChannelProc, then TransDelLaneReqFromPendingList.
\* The lane is freed through the API the view's isQosLane names.
AsyncOpenChannel(r) ==
    /\ cb[r] = "open"
    /\ \E channelType \in ChannelTypes :
         \E o \in TransAsyncOpenChannelProc(
                     CO!TransGetConnectOptByConnInfo(result[r].link), channelType) :
            /\ notified' = [notified EXCEPT ![r] = @ \o o.notices]
            /\ IF o.frees = 0
                 THEN lane' = [lane EXCEPT ![r] = "channel"] /\ UNCHANGED freedVia
                 ELSE FreeLane(r, view[r].isQosLane, o.frees)
    /\ DelAsyncPending(r)
    /\ cb' = [cb EXCEPT ![r] = "end"]
    /\ UNCHANGED <<woken, pc, req, syncPending, ret, retConn, lmState, lmApi, result, view>>

\* The fail listener: CallBackOpenChannelFailed with the Lane Manager's
\* reason, then TransDelLaneReqFromPendingList.  No lane was allocated.
AsyncOpenFailed(r) ==
    /\ cb[r] = "fail"
    /\ notified' = [notified EXCEPT ![r] = Append(@, OpenFailed("LANE_FAIL_REASON"))]
    /\ DelAsyncPending(r)
    /\ cb' = [cb EXCEPT ![r] = "end"]
    /\ UNCHANGED <<woken, pc, req, syncPending, ret, retConn, lmState, lmApi, result, lane,
                   freedVia, view>>

-----------------------------------------------------------------------------
(* TransReqLanePendingDeinit: two locked sections, one per list.           *)

\* Free every sync item (destroying its cond, with no signal) and the list.
DeinitSyncList ==
    /\ MayDeinit
    /\ "sync" \in lists
    /\ syncPending' = <<>>
    /\ lists' = lists \ {"sync"}
    /\ UNCHANGED <<paramBufs, woken, pc, req, asyncPending, ret, retConn, lmState, lmApi, result,
                   lane, freedVia, cb, view, notified>>

\* Mutant: the async loop frees items like the sync loop, param copies left.
DeinitAsyncListNoDestroy ==
    /\ "sync" \notin lists
    /\ "async" \in lists
    /\ asyncPending' = <<>>
    /\ lists' = lists \ {"async"}
    /\ UNCHANGED <<paramBufs, woken, pc, req, syncPending, ret, retConn, lmState, lmApi, result,
                   lane, freedVia, cb, view, notified>>

\* Then free every async item, with its param copy, and the list.
DeinitAsyncList ==
    /\ "sync" \notin lists
    /\ "async" \in lists
    /\ asyncPending' = <<>>
    /\ paramBufs' = [r \in Req |-> IF r \in DOMAIN asyncPending
                                     THEN DestroyAsyncReqItemParam(paramBufs[r])
                                     ELSE paramBufs[r]]
    /\ lists' = lists \ {"async"}
    /\ UNCHANGED <<woken, pc, req, syncPending, ret, retConn, lmState, lmApi, result,
                   lane, freedVia, cb, view, notified>>

-----------------------------------------------------------------------------

\* Every request has returned and no callback is running or owed: the
\* system stops here (the bound on requests, not a deadlock).
Terminated ==
    /\ \A r \in Req : pc[r] = "done" /\ cb[r] \in {"idle", "end"} /\ lmState[r] # "pending"
    /\ "sync" \in lists \/ "async" \notin lists
    /\ UNCHANGED vars

Init ==
    /\ pc = [r \in Req |-> "idle"]
    /\ req = [r \in Req |-> NoShape]
    /\ syncPending = <<>>
    /\ asyncPending = <<>>
    /\ ret = [r \in Req |-> "NONE"]
    /\ retConn = [r \in Req |-> NoLink]
    /\ lmState = [r \in Req |-> "idle"]
    /\ lmApi = [r \in Req |-> "none"]
    /\ result = [r \in Req |-> NoResult]
    /\ lane = [r \in Req |-> "none"]
    /\ freedVia = [r \in Req |-> <<>>]
    /\ cb = [r \in Req |-> "idle"]
    /\ view = [r \in Req |-> [isQosLane |-> FALSE]]
    /\ notified = [r \in Req |-> <<>>]
    /\ lists = {"sync", "async"}
    /\ paramBufs = [r \in Req |-> {}]
    /\ woken = {}

\* The steps of request r's threads; none of them touches the list globals.
ThreadStep(r) ==
    /\ \/ TransGetLaneInfo(r) \/ TransAsyncGetLaneInfo(r) \/ AddPending(r) \/ SubmitLane(r)
       \/ WaitingRequestCallback(r) \/ CondWakeup(r) \/ ReadAndDelete(r)
       \/ AsyncGetParam(r) \/ AsyncGetAppInfo(r) \/ AsyncOpenChannel(r) \/ AsyncOpenFailed(r)
    /\ UNCHANGED lists

LaneManagerStep(r) ==
    /\ SyncLaneCallback(r) \/ AsyncLaneCallback(r)
    /\ UNCHANGED lists

Next ==
    \/ \E r \in Req : ThreadStep(r) \/ LaneManagerStep(r) \/ (LoseLaneCallback(r) /\ UNCHANGED lists)
    \/ DeinitSyncList \/ DeinitAsyncList
    \/ Terminated

\* Threads are scheduled by the OS and the Lane Manager's contract is to
\* answer every accepted request, so both are weakly fair; losing a callback
\* is an environment choice and gets no fairness.  Whether deinit runs is
\* the server's choice; once it has started, its thread finishes.
Fairness == /\ \A r \in Req : WF_vars(ThreadStep(r)) /\ WF_vars(LaneManagerStep(r))
            /\ WF_vars(DeinitAsyncList)

Spec == Init /\ [][Next]_vars /\ Fairness

-----------------------------------------------------------------------------
(* Properties.                                                             *)

\* The sync rendezvous (TransAddLaneReqToPendingAndWaiting, TransWaiting-
\* RequestCallback, TransUpdateLaneConnInfoByLaneHandle): once a sync
\* requester whose request the Lane Manager accepted has returned, the Lane
\* Manager has answered it, the requester returned SOFTBUS_OK exactly when
\* the answer was a success, and the connInfo it got is the one reported.
SyncReturnReflectsLaneResult ==
    \A r \in Req :
        (req[r].mode = "sync" /\ pc[r] = "done" /\ lmState[r] # "idle") =>
            /\ lmState[r] = "done"
            /\ (ret[r] = "SOFTBUS_OK") <=> result[r].ok
            /\ result[r].ok => retConn[r] = result[r].link

\* The async callback's shallow param copy (TransGetLaneReqItemParamByLane-
\* Handle) points into the pending item; while the callback still uses it
\* (building AppInfo, opening the channel, reporting failure) the item has
\* not been deleted and its strings freed.
ViewBackedByEntry ==
    \A r \in Req : cb[r] \in {"appInfo", "open", "fail"} => r \in DOMAIN asyncPending

\* TransAsyncOpenChannelProc and the fail listener tell the client the
\* outcome of an async open (OnChannelOpenFailed or SetChannelInfo) at most
\* once per request.
AtMostOneOutcomeNotified ==
    \A r \in Req : Len(notified[r]) <= 1

\* A lane changes hands only once it exists, and only once: it is allocated
\* by the Lane Manager, then freed, bound to a channel or handed to the sync
\* caller.  Every LnnFreeLane / lnnFreeLane call of the async path
\* (TransAsyncOpenChannelProc's fast path and EXIT_ERR) releases a lane
\* that is allocated at that moment, one call per release: no call for a
\* lane never allocated, and none for a lane already freed or bound.
LaneOwnershipOnce ==
    [][\A r \in Req :
         /\ lane'[r] # lane[r] =>
               \/ lane[r] = "none" /\ lane'[r] = "alloc"
               \/ lane[r] = "alloc" /\ lane'[r] \in {"freed", "channel", "caller"}
         /\ freedVia'[r] # freedVia[r] =>
               lane[r] = "alloc" /\ Len(freedVia'[r]) = Len(freedVia[r]) + 1
      ]_<<lane, freedVia>>

\* Every request is eventually served: the requester has returned, its item
\* is gone from both pending lists, no allocated lane is left without an
\* owner, and an accepted async request has had its outcome reported.
Served(r) ==
    /\ pc[r] = "done"
    /\ r \notin DOMAIN syncPending \cup DOMAIN asyncPending
    /\ lane[r] # "alloc"
    /\ (req[r].mode = "async" /\ ret[r] = "SOFTBUS_OK") => Len(notified[r]) = 1

AllRequestsServed == <>(\A r \in Req : Served(r))

\* spec.md 3 and 8: a deep-copied async SessionParam is released exactly
\* when its entry is.  The buffers TransAddAsyncLaneReqFromPendingList
\* copies for a request are all held while its item is listed, and none is
\* left once it is not: after a copy or lock failure in the add, after the
\* delete of a rejected LnnRequestLane, after the callback's delete, and
\* after TransReqLanePendingDeinit freed the list under live requests.
ParamCopyReleasedWithEntry ==
    \A r \in Req : paramBufs[r] = IF r \in DOMAIN asyncPending THEN ParamBuffers ELSE {}

\* spec.md 4.5 step 7 and 5: a lane is freed through the API of the path that
\* allocated it, LnnFreeLane for LnnRequestLane and lnnFreeLane for
\* lnnAllocLane.
LaneFreedViaAllocatingApi ==
    \A r \in Req : \A i \in DOMAIN freedVia[r] : freedVia[r][i] = lmApi[r]

\* spec.md 7: an async caller receives its error through OnChannelOpenFailed;
\* a failure notice never carries SOFTBUS_OK.
FailureNoticeCarriesError ==
    \A r \in Req : \A i \in DOMAIN notified[r] :
        notified[r][i].kind = "OnChannelOpenFailed" => notified[r][i].code # "SOFTBUS_OK"

\* spec.md 4.3, 4.4.1 and scenario 5: a sync requester waits at most
\* TRANS_REQUEST_PENDING_TIMEOUT and then returns, whether or not the Lane
\* Manager answers.
SyncCallerReturns ==
    \A r \in Req : (pc[r] = "waiting") ~> (pc[r] = "done")

\* spec.md 9: deinit signals every outstanding sync condition with a
\* shutdown error, so a requester blocked in TransWaitingRequestCallback
\* when TransReqLanePendingDeinit runs eventually returns.
WaitersReleasedByDeinit ==
    \A r \in Req : (pc[r] = "waiting" /\ "sync" \notin lists) ~> (pc[r] = "done")

-----------------------------------------------------------------------------
(* Refinement: the controller implements LaneRequest.  A request is        *)
(* submitted once the Lane Manager has taken it, answered once it has      *)
(* called back, and closed when the requester returns (sync) or the        *)
(* callback thread finishes (async); refused if it returns before any      *)
(* submission.  What the requester learns is ret (sync, or a refusal), or  *)
(* the last notice the async client received.                              *)

Concluded(r) == IF req[r].mode = "sync" THEN pc[r] = "done" ELSE cb[r] = "end"

AbsStatus(r) ==
    CASE lmState[r] = "idle"               -> IF pc[r] = "done" THEN "closed" ELSE "idle"
      [] lmState[r] \in {"pending", "lost"} -> "submitted"
      [] Concluded(r)                       -> "closed"
      [] OTHER                              -> "answered"

AbsAnswer(r) ==
    IF lmState[r] # "done" THEN "none" ELSE IF result[r].ok THEN "granted" ELSE "denied"

AbsTold(r) ==
    CASE AbsStatus(r) # "closed" -> "none"
      [] lmState[r] = "idle" \/ req[r].mode = "sync" ->
            IF ret[r] = "SOFTBUS_OK" THEN "ok" ELSE "error"
      [] OTHER -> IF notified[r] # <<>> /\ notified[r][Len(notified[r])].kind = "SetChannelInfo"
                    THEN "ok" ELSE "error"

LR == INSTANCE LaneRequest WITH
        mode   <- [r \in Req |-> req[r].mode],
        status <- [r \in Req |-> AbsStatus(r)],
        answer <- [r \in Req |-> AbsAnswer(r)],
        told   <- [r \in Req |-> AbsTold(r)],
        lane   <- lane

\* spec.md 3-5: every behaviour of the controller is one of LaneRequest's.
\* Each request gets one Lane Manager answer; a sync requester returns
\* exactly that answer and takes a granted lane; an async client is told
\* success only for a granted lane, which ends bound or freed; and every
\* shaped request is eventually decided, answered and concluded.
ImplementsLaneRequest == LR!Spec

=============================================================================
