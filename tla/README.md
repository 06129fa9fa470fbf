# TLA+ models of the transmission lane pending controller

These modules model the lane pending controller of the soft-bus transmission
layer, `src/core/transmission/trans_channel/common/src/trans_lane_pending_ctl.c`.
It is the part of the server that asks the Lane Manager for a link (a *lane*)
before it opens a session channel. The models check the controller with TLC.

## The system

Source inventory (`src/`):

| Part | Source | What it does |
|---|---|---|
| Pending tables | `trans_lane_pending_ctl.c` 65-224, 335-473 | Two locked lists keyed by laneHandle. `g_reqLanePendingList` holds sync items (result, cond, isFinished). `g_asyncReqLanePendingList` holds a deep copy of the caller's `SessionParam`. |
| Sync rendezvous | 958-1114 | The requester adds an item and calls `LnnRequestLane` (legacy) or `lnnAllocLane` (QoS). It waits on the item's cond, then reads and deletes the item. The Lane Manager's listener (`TransUpdateLaneConnInfoByLaneHandle`) writes the result and signals. |
| Async driver | 494-720, 1155-1242 | The requester adds an item, submits and returns. The listener runs on a Lane Manager thread. It takes a shallow copy of the item's param and builds an `AppInfo`. Then it translates the link, opens the channel and reports to the client over IPC. Finally it frees the lane or binds it to the channel, and deletes the item. |
| Request shaper | 722-956 | Turns a `SessionParam` into a `LaneRequestOption` or `LaneAllocInfo`. It translates preferred links and extracts QoS. For a legacy-OS peer or a mesh-sync session it swaps in a fixed link list and forces `isQosLane` to false. |
| ConnectOption translator | 1244-1357 | Maps a `LaneConnInfo` link type to a `ConnectOption`. |
| Deinit | 82-150 | Destroys both lists: first the sync items (destroying each cond, without a signal), then the async items with their param copies. |
| Server frame | `src/core/frame/common/src/softbus_server_frame.c` | `InitSoftBusServer` brings up the server modules in order. Three early failures return at once; later ones go to `ERR_EXIT`, which runs `ServerModuleDeinit`. |
| Wi-Fi Direct connect command | `src/core/connection/wifi_direct_cpp/command/` | The request a Wi-Fi Direct processor works on. It caches the peer's uuid lazily (`GetRemoteDeviceId`) and chooses the negotiate channel (`PreferNegotiateChannel`). |
| Tests | `src/tests/` | Unit tests of components that are not in `src/`. |

How the parts interact:
- Requesting threads (the session open path) call `TransGetLaneInfo` (sync) or `TransAsyncGetLaneInfo` (async).
- The Lane Manager is an external collaborator. It answers each accepted request with exactly one listener callback, on its own thread.
- The async listener talks to the client (`ClientIpcSetChannelInfo`, `OnChannelOpenFailed`) and to the lane manager table (`TransLaneMgrAddLane`).

## Modules

**`TransLanePending`** is the core module. It models the requesting threads, both pending tables, the Lane Manager and the async callback thread.
- Each request is its own laneHandle (`Req`). Each locked section of the code is one atomic step. The condition wait is split into `WaitingRequestCallback` (test isFinished and start waiting) and `CondWakeup` (return from the wait, after the signal or spuriously).
- `woken` is the set of waiters a `SoftBusCondSignal` has released. The signal is edge-triggered: `SyncLaneCallback` wakes a requester only if it is already waiting, and a signal sent before the wait is lost. Only the `isFinished` test at line 1001 keeps such a requester from blocking.
- `lane` tracks who owns the allocated lane: none, alloc, then freed, channel or caller.
- `lmApi` records the API that allocated the lane. `freedVia` is the sequence of free calls made on it (`LnnFreeLane` or `lnnFreeLane`), one entry per call, so a lane freed twice shows two entries.
- `notified` is the sequence of outcome notices the client received.
- `paramBufs` records, per request, which of the five heap buffers of the async param copy (session name, peer session name, peer device id, group id, attributes) are still allocated. `CopyAsyncReqItemSessionParam` is the set of endings of the deep copy: it may stop at any buffer, with the earlier ones assigned, or fail on the QoS copy with all five assigned. `DestroyAsyncReqItemParam` frees them on each failed add, each async delete (`DelAsyncPending`) and in deinit.
- `TransGetLaneInfo` and `TransAsyncGetLaneInfo` are the two entry points; both use the shared shaping step `GetLaneInfo`, which uses `RequestShaper` to decide the path. `ReadAndDelete` reads the sync item through `TransGetLaneReqItemByLaneHandle`. `AsyncOpenChannel` uses `ConnectOpt` to translate the link.
- `TransAsyncOpenChannelProc` is the set of all endings of that function: the notices it sends, and how many free calls it makes on the lane (0 when it binds the lane to the channel).
- Three environment constants switch on behaviours the code must tolerate:
  - `SpuriousWakeup`: `pthread_cond_wait` may return without a signal.
  - `LoseCallback`: a Lane Manager that never answers.
  - `AppInfoMayFail`: `TransCommonGetAppInfo` may return NULL.
  - `MayDeinit`: `TransReqLanePendingDeinit` may run while requests are live.
- `lists` is the set of pending lists that still exist. Deinit is two actions, `DeinitSyncList` then `DeinitAsyncList`, one for each locked section of the function. Once a list is gone, adding to it fails and lookups in it miss.
- The refinement mapping at the end of the module maps the controller onto `LaneRequest`:
  - A request is *submitted* while the Lane Manager owes a callback, and *answered* once the callback has come.
  - It is *closed* when the sync requester returns or the async callback thread ends. A request that returns before it was submitted is *refused*.
  - What the requester is *told* is `ret` for a sync request, and the last client notice for an async one.

**`LaneRequest`** is the abstract contract of the controller (spec.md 3-5), with one record of state per request and no lists, locks or threads.
- A request is refused, or it is submitted, answered once, and concluded.
- A sync requester is told exactly the answer and takes a granted lane.
- An async client is told success only for a granted lane. That lane ends bound to a channel or freed.
- Weak fairness on submit, answer and conclude says every shaped request is eventually concluded.

**`ServerFrame`** models `InitSoftBusServer`: a cursor over the init calls in code order and the set of modules that are up. Each call may succeed or fail; the void calls cannot fail. A failure returns at once or goes to `ERR_EXIT`, which takes away the modules `ServerModuleDeinit` deinitialises. `ClientDeathCallback` keeps no state and is not modelled.

**`RequestShaper`** models the shaping functions as pure operators. A session name is a sequence of chunks, where each name constant of the code is one chunk. `strcmp` becomes equality and `strncmp(name, C, strlen(C))` becomes a prefix test. The loops `PreferredLoop` and `QosLoop` are RECURSIVE translations of the code's for-loops, including its `continue` and `break`.

**`ConnectOpt`** models the if-chain of `TransGetConnectOptByConnInfo` in the code's order. Its first branch takes `LANE_P2P` and `LANE_HML` together, so `LANE_HML` becomes `CONNECT_P2P` and the HML branch at line 1351 is dead. spec.md 4.1 says `CONNECT_HML`. It is a pure if-chain with no state. The core model uses it in the code's branch order, and no run of its own is spent on the dead branch.

**`ConnectCommand`** models one command object, with its public operations callable in any order, because its callers (the Wi-Fi Direct scheduler and processors) are not in this repository.
- `Init` is the constructor, which looks the uuid up once. `GetRemoteDeviceId` refills an empty cache. `PreferNegotiateChannel` and `SetRetried` are the other state-changing calls.
- Between calls, the environment changes:
  - the ledger learns or forgets the peer (`LedgerChange`), which decides what `NetworkIdToUuid` returns;
  - LinkManager builds a link to the peer, with or without a negotiate channel (`LinkUp`), or removes it (`LinkDown`).
- A channel made from a link is tagged with the link's generation, so a channel of a removed link can be told apart from the current one.
- `lastCall` is a history variable that names the operation of the last step, for the action property.

`MC_TransLanePending` and `MC_RequestShaper` instantiate these modules for TLC. `ServerFrame` and `ConnectCommand` need no MC module: their cfgs give the constants directly.

## Runs

| Run | Expect | Shows |
|---|---|---|
| main | pass | 2 requests under a Lane Manager that always answers, with a signal that wakes only a thread already waiting. Sync requesters return exactly the reported result (`SyncReturnReflectsLaneResult`). The async shallow view is never used after its item is deleted (`ViewBackedByEntry`). Every request is eventually served: it has returned, its item is gone, no lane is orphaned, and an async caller has been told (`AllRequestsServed`). The controller implements `LaneRequest`, with its fairness (`ImplementsLaneRequest`); without the `isFinished` test, a callback that comes before the wait leaves the requester blocked and the refinement fails. |
| faults | pass | The client hears each outcome at most once (`AtMostOneOutcomeNotified`). A lane leaves the allocated state once, and a free call is made on it only then, one call per step (`LaneOwnershipOnce`); a double free, such as the TCP_DIRECT fast path running on into `EXIT_ERR`, breaks it. Every async param copy is held exactly while its item is listed (`ParamCopyReleasedWithEntry`, spec.md 3 and 8), under lost callbacks, deep-copy and lock failures in the add, AppInfo failures and a deinit racing live requests. `ViewBackedByEntry` is not checked here: deinit breaks it, which is the deinitview run. |
| shaper | pass | The preferred-link translation and the QoS extraction equal their reference definitions on every input up to the bounds. |
| spurious | violation | A spurious wakeup makes a sync requester return SOFTBUS_ERR before the answer arrives, because the wait uses `if` and not `while` (line 1001). |
| nocallback | violation | The sync wait has no timeout (line 1002). `TRANS_REQUEST_PENDING_TIMEOUT` is unused, although the spec promises the timeout. |
| appinfo | violation | A NULL AppInfo leaves the async item and the allocated lane behind forever (lines 578/620/652/712). |
| freeapi | violation | A QoS session downgraded by `ModuleLaneAdapter` is allocated by `LnnRequestLane` but freed by `lnnFreeLane`. The item keeps the caller's `isQosLane` (line 359). |
| notice | violation | A failed `ClientIpcSetChannelInfo` reports `OnChannelOpenFailed` with `SOFTBUS_OK` (line 523). |
| deinit | violation | A requester blocked in the sync wait when deinit runs never returns (`WaitersReleasedByDeinit`). Its cond is destroyed without a signal, and the late callback finds no list. spec.md 9 promises a shutdown signal. |
| deinitview | violation | Deinit frees an async item's param while the callback thread still reads it through its shallow copy (`ViewBackedByEntry`). |
| serverframe | violation | A `LooperInit` failure returns with the timer still up. Failures later on undo the start via `ERR_EXIT` (`FailedInitLeavesNothingUp`). |
| connectcommand | violation | `PreferNegotiateChannel` does not always choose the channel of the link LinkManager holds to the peer (`PreferredChannelIsCurrent`). TLC's trace: the command is built before the ledger knows the peer, so its cached uuid is empty. The lookup at line 77 uses that field rather than `GetRemoteDeviceId()`, misses the link, and falls back to the input AUTH channel. The same property would also catch a retried call that keeps the channel of a removed link (line 79, input type neither AUTH nor COC), but TLC reports the first violation it finds, so this run shows only the line-77 case. |

Each property of a passing run has a mutant in `PROJECT.json`: an operator defined just before the mapped definition that encodes a plausible bug. Each mutant makes TLC report the property violated.

## Bounds

- **Two requests.** This is enough for every interleaving of two requesters (sync/sync, sync/async, async/async) and their callbacks, and for two items in each list at once.
- **Link kinds.** One of each translator outcome: WLAN (TCP), P2P, and HML (taken by the P2P branch).
- **ConnectCommand.** The negoChannel types are AUTH, COC and NULL, where NULL stands for every other type. Two link generations are enough for a link to be removed and rebuilt, which is the smallest case where a kept channel is stale.
- **Param copy.** Every ending of the deep copy is enumerated: a failure at each of the five buffers, a failure of the QoS copy, and success, each with the list lock taken or not. This is all of them, so no failure point is left out.
- **Channel types.** TCP_DIRECT and a proxy channel, so both the free-at-once tail and the bind-to-channel tail are reached.
- **Session params.** A distributeddata-default session and an ordinary one, each with or without QoS.
- **Environments.** A legacy (authCapacity 0) and a current peer, and a uid/pid lookup failure. Together these reach the adapter's downgrade and the shaping error.
- **Shaper inputs.** Every link list of length 0 to 10 over link types {0, 1, 9}. Length 10 is one past `LINK_TYPE_MAX`, type 0 maps to BUTT, and type 9 is the last map entry. Also every QoS list of up to 3 entries over 5 kinds and the values {-1, 0, 2}.

## Fairness

- Requesting and callback threads are OS threads, so `ThreadStep` is weakly fair.
- The Lane Manager's contract is one callback per accepted request, so `LaneManagerStep` is weakly fair.
- Losing a callback is an environment choice and gets no fairness.
- `DeinitAsyncList` is weakly fair: it is the second half of one function call, so once the sync half has run, the async half follows. Whether deinit runs at all is a choice and gets no fairness.
- `Terminated` is a stuttering step once every request is done. Deadlock is therefore checked, except where a thread really blocks: a lost callback (the faults and nocallback runs) or a waiter stranded by deinit (the deinit run).
- `ServerFrame` is a single sequential call. Its `Returned` step stutters once the call has returned.
- `ConnectCommand` has no fairness: its property is a safety (action) property, and no call is owed by anyone. Its run disables the deadlock check because a command may simply stop being used.

## Not modelled, and plan

- **`ConnectCommand`'s threads.** `GetRemoteDeviceId` writes a `mutable` field without a lock. Whether two threads share a command is decided by the scheduler, which is not in this repository, so the model has a single caller. The getters and `OnSuccess`/`OnFailure` change no state of the command.
- **Invalid lane handles.** The model gives each request its own handle, which is `lnnGetLaneHandle`'s contract. Nothing checks the returned handle before it is used as a list key.
- **What happens after deinit crashes.** A waiter that wakes after deinit would unlock a destroyed mutex, and the model stops following it there.
- **The init and deinit functions of the server modules.** They are outside this file, so each one is a single step that succeeds or fails.
- **`TransGetAuthTypeByNetWorkId`.** A stateless query.
- **The contents of the async param copy.** The model tracks which buffers are allocated, not the strings in them; the copy's `isQosLane` is the one field a property reads.
- **Event reporting, logging and address payloads.** Left out because no property depends on them.
- **The BLE MAC lookup of the mini-system build.** It only fills an address.
