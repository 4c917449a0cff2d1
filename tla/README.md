# TLA+ models of DataDistribution

Model-checked TLA+ specifications of the O2 DataDistribution services in
`src/`:
* the TfBuilder input pipeline, which assembles TimeFrames (TFs) from
  SubTimeFrames (STFs), with an abstract delivery specification that it
  refines;
* the TfScheduler partition life cycle and its TfBuilder connections;
* the TfScheduler STF drop path;
* the UCX multi-request aggregator;
* the STF readout builder;
* the file sink;
* the Consul tunable parameters (polling thread and getters).

Every action is translated from the C++ source. `PROJECT.json` maps each
definition to the lines it models. It also lists the runs, the mutants
that show each property can fail, the findings and the hazards.

## 1. The system and its parts

| Part | Source | State | Operations | Interacts with |
|---|---|---|---|---|
| TfBuilder input pipeline | `TfBuilder/TfBuilderInput.cxx` | `mStfMergeMap` (TF id -> received STFs), `mMaxMergedTfId`, `mStfsForMerging` queue, per-TF expected STF count held by the RPC object | `StfPacingThread` (ADD / DELETE / INFO records), `StfDeserializingThread`, `StfMergerThread`, `start` | TfBuilderRpc (requests STFs, publishes the expected count, outside `src/`), the UCX/FairMQ input (delivers STF data), `SubTimeFrame::mergeStf` |
| SubTimeFrame data model | `common/SubTimeFrameDataModel.cxx` | STF header, per-equipment data maps | `updateStf`, `mergeStf`, `getEquipmentIdentifiers` | merger thread |
| TfScheduler partition | `TfScheduler/TfSchedulerInstanceRpc.cxx` | `mPartitionState` (CONFIGURING, CONFIGURED, TERMINATING, TERMINATED, ERROR) | `start`, `updatePartitionState`, `PartitionMonitorThread`, gRPC handlers `TerminatePartition`, `TfBuilderConnectionRequest`, `TfBuilderDisconnectionRequest`, UCX variants, updates, `HeartBeat`, `GetPartitionState` | connection manager, Consul discovery |
| TfScheduler connection manager | `TfScheduler/TfSchedulerConnManager.cxx` | `mStfSenderState`, StfSender and TfBuilder RPC clients, drop futures | `start`, `checkStfSenders`, `connectTfBuilder`, `disconnectTfBuilder`, `requestTfBuildersTerminate`, `requestStfSendersTerminate`, `removeTfBuilder`, `dropAllStfsAsync`, `dropSingleStfsAsync`, `DropWaitThread`, `StfSenderMonitoringThread` | StfSenders and TfBuilders over gRPC |
| UCX multi-request | `common/ucxtools/UCXSendRecv.h` | `mSlotsUsed`, `mSlotsCount`, finished flag | `add_request`, `remove_request`, `done`, `ucp_wait`, completion callbacks, blocking send/receive | UCX worker progress and epoll |
| STF readout builder | `common/SubTimeFrameBuilder.cxx` | current STF, `mAcceptStfData`, first-HBFrame filter, topological TF counter | `addHbFrames`, `addTopoStfData`, header adaptation | readout input threads |
| File sink | `common/SubTimeFrameFileSink.cxx` | writer, file index, per-file STF count and size | `DataHandlerThread`, `loadVerifyConfig`, `newStfFileName` | pipeline stages |
| Consul configuration | `common/discovery/ConfigConsul.h` | `mTunables` (cache of the kv parameters), `mTunablesToAdd` (defaults to write back); the partition request keys | `ConsulPollingThread`, `get*Param`, `cleanup`, `getNewPartitionRequest` | every process; the operator edits Consul |
| StfSender UCX output | `StfSender/StfSenderOutputUCX.h` | registered regions, thread-local lookup cache | `registerSHMRegion`, `regionLookup`, endpoint error handler | UCX |

ReadoutEmulator, `SubTimeFrameFile.h`, `TfSchedulerDevice.h` and the
TokenBitfield test are declarations, a data layout or a test; they have no
behaviour to model.

### Hard behaviours

* **TfBuilder**: three threads share `mStfMergeMap` under one mutex, but
  the merger raises `mMaxMergedTfId` only after the deserializer has
  removed a completed TF. STFs of several TFs arrive interleaved from
  several StfSenders. Transfers may be lost or repeated. The deserializer
  only ever looks at the smallest TF id, and there is no timeout.
* **TfScheduler**: `mPartitionState` is written by PartitionMonitorThread,
  by the TerminatePartition handler and by `start()`, with no lock, and
  every writer checks the state first. TfBuilder connection requests are
  admitted by a check outside the connection lock. The monitor's teardown
  loop sends its TerminatePartition rounds until no TfBuilder client is
  left.
* **UCX**: completions arrive in callbacks. A slot is freed only on
  success.
* **File sink**: counters survive a write failure.
* **Consul tunables**: the polling thread rebuilds `mTunables` from scratch
  every round. The operator edits Consul between the thread's kv calls,
  and any call may throw. The getters queue defaults that the next round
  writes back unconditionally.

### What makes each part correct

* The TfBuilder must emit TFs in id order. Each TF must hold exactly one
  STF per StfSender that accepted the request. Every TF assigned to the
  TfBuilder must eventually be built or dropped.
* A partition that has started terminating must end TERMINATED or in
  ERROR, never accepting work again. Losing an StfSender is reported as
  ERROR.
* A parameter the operator leaves in Consul takes effect, and a default a
  getter asks for is published. The process never replaces a valid
  operator value with its default.
* A dropped STF is collected exactly once. A file never holds more than
  `mStfsPerFile` STFs. A physics STF whose header allocation failed is
  forwarded empty, and a topology STF is returned only when complete.
* A UCX multi-request must finish when all its sub-requests completed,
  whatever their status. It must report success only after the last
  completion and keep at most its slot count in flight (spec 8, stated
  as `CompletionToken`).

## 2. Modules

### `TfBuilderInput.tla` (+ `MCTfBuilderInput.tla`)

| Model | Code |
|---|---|
| `mergeMap` (function TF id -> sequence of fragments) | `mStfMergeMap` |
| `maxMerged` | `mMaxMergedTfId` |
| `mergeQueue` | `mStfsForMerging` |
| `delivered` | TFs queued to the output stage |
| `numStfs` | `getNumberOfStfs` / `setNumberOfStfs` (TfBuilderRpc) |
| `recvQueue` | `mReceivedDataQueue` (ADD, DELETE and INFO records) |
| `PacerAdd`, `PacerDelete`, `PacerInfo` | the three branches of `StfPacingThread` |
| `DeserComplete` / `DeserWait` | one iteration of `StfDeserializingThread` that completes the smallest TF, or that finds nothing to do. `DeserWait` is the thread's spin loop. |
| `MergerBuild` | `StfMergerThread`. `MergeStfs` abstracts `mergeStf` to the list of StfSenders whose data a TF holds. |

The TfBuilderRpc request thread and the STF transport are not under
`src/`. They are spec-modelled environment actions:
* `RpcAdmit`: the TfScheduler assigns the next TF.
* `RpcRequest(s)`: an StfSender accepts or refuses. The last answer pushes
  DELETE when nobody accepted, or else publishes the count.
* `InputFetch`, `InputFetchLost` (bounded by `MaxLost`) and
  `InputDuplicate` (bounded by `MaxDup`).

An STF is a record `[type, tf, sender]`; payload is not modelled.

`stop()` is four steps, taken only when `MayStop` is set:
* `StopBegin`: `stopAcceptingTfs`, `mState = TERMINATED`, the inputs and
  `mReceivedDataQueue` stopped.
* `StopJoinPacer`: `mStfMergeMap` cleared once the pacer is joined.
* `StopJoinDeser`: `mStfsForMerging` stopped once the deserializer is
  joined.
* `StopJoinMerger`: the merger joined.

`ThreadExit(x)` is thread `x` leaving its loop at the head. The pacer and
the merger first need their blocking `pop()` to return: an item, or
nullopt from a stopped queue. `ConcurrentFifo` is outside `src/`, so that
behaviour is spec-modelled. The model lets the deserializer and the merger
keep iterating after `mState` changes; the code allows them at most one
more iteration. This only adds behaviours.

### `TfSchedulerPartition.tla` (+ `MCTfSchedulerPartition.tla`)

| Model | Code |
|---|---|
| `partState` | `mPartitionState` |
| `senderState` | `mStfSenderState` |
| `builderClients` | keys of `mTfBuilderRpcClients` |
| `monPc` | position in PartitionMonitorThread |
| `startPc`, `connStarted` | `start()` and `TfSchedulerConnManager::start` |

The monitor is split at the points where it releases the lock or re-reads
`mPartitionState`:
* `MonitorCheck`: line 116.
* `MonitorUpdate`: lines 135-151.
* `RequestTfBuildersTerminate` and `RequestStfSendersTerminate`: each runs
  under the lock.
* `MonitorFinish`: lines 123-133.

`TfBuilderConnectionRequest` is likewise split into its `accepting_updates()`
check (`BuilderRequestConnect`) and `connectTfBuilder` (`ConnectTfBuilder`).
The UCX path is split the same way: `BuilderRequestConnectUCX` is the check
in `TfBuilderUCXConnectionRequest`, and `ConnectTfBuilderUCX` is
`connectTfBuilderUCX`. That function adds three refusals (no UCX listener,
StfSenders not ready, RPC client not opened), and on a failed StfSender
call it deletes the client through `disconnectTfBuilderUCX`. `ucx` records
which TfBuilders connected over UCX, so that a TfBuilder told to terminate
disconnects through `BuilderDisconnect` (`disconnectTfBuilder`) or
`BuilderDisconnectUCX` (`disconnectTfBuilderUCX`), whichever matches.
`accepting_updates()` is declared in a header that is not in the
repository. It is spec-modelled as "state is CONFIGURING or CONFIGURED".

TfBuilder and StfSender processes are environment:
* a TfBuilder crashes (bounded by `MaxCrash`);
* a TfBuilder disconnects after it is told to terminate;
* an StfSender is lost (bounded by `MaxSenderLoss`);
* the operator sends TerminatePartition (bounded by `MaxTerminate`).

### `UCXMultiReq.tla`

| Model | Code |
|---|---|
| `slotsUsed`, `totalDone`, `requests`, `finished` | `mSlotsUsed`, `mTotalDone`, `mRequests`, `mFinished` of `dd_ucp_multi_req` |
| `Done` | `done()` |
| `IssueGet` | `get()` with `add_request()`: `ucp_get_nbx` either completes at once (NULL) or returns a request that takes a slot |
| `CompleteOk` / `CompleteError` | the completion callbacks for an OK or an error status |
| `WaitReturn`, `WaitEpollError`, `WaitSpin` | the exits and the timeout loop of `ucp_wait` |

The caller is outside `src/` (the TfBuilder UCX input). It is modelled by
the pattern the spec and the blocking helpers use: submit while `done()`
reports a free slot, then `mark_finished()`, then wait.
`send_tag_blocking` and `receive_tag_blocking` are the instance with one
operation and one slot. Callbacks run inside `ucp_worker_progress` on the
caller's thread, so a completion step is atomic.

### `CompletionToken.tla`: the completion contract

This is an abstract specification of spec 8's "one token, N completions,
one done signal". It has five variables:
* `submitted`: the operations handed over.
* `outstanding`: the operations not completed yet.
* `failed`: the outstanding operations completed with an error.
* `closed`: the token is closed.
* `signal`: what the waiter was told (`none`, `ok` or `failed`).

The actions are `Submit(op)`, `Close`, `Complete(op)`, `Fail(op)`,
`Succeed` and `GiveUp`. A submission needs a free slot (bounded
memory). `Succeed` needs a closed token with nothing outstanding.
Weak fairness on `Succeed` is the "no lost wake-up" clause. `UCXMultiReq`
maps onto it as follows:
* `submitted` is `1..issued`;
* `outstanding` is `requests`;
* `failed` is `errored`;
* `closed` is `mFinished`;
* `signal` is what `ucp_wait` returned.

The refinement is the property `MultiReqContractRefined`.

### `SchedulerDrops.tla`

This module models the drop path of `TfSchedulerConnManager.cxx`, lines
378-496.

| Model | Code |
|---|---|
| `futures` (sequence of STF ids) | `mStfDropFutures` |
| `it` | `lFutureIt`, as an index |
| `roundDropped`, `droppedTotal` | `lDroppedStfs`, `lDroppedTotal` |
| `logged` | the STF ids `DropWaitThread` has logged as dropped (line 492) |
| `syncDone` | STFs dropped by the synchronous fallback when `std::async` throws |
| `DropAsync(id)` | `dropAllStfsAsync` / `dropSingleStfsAsync` |
| `TaskDone(id)` | the drop task returns |
| `Wake`, `WaitIdle`, `ScanStep`, `ScanEnd`, `LogDropped` | `DropWaitThread` |

`ScanStep` does exactly what the loop does: it erases a ready future,
assigns erase()'s result to the iterator, and then the loop's `++` runs
anyway.

Stepping past `end()` is undefined behaviour, so `ScanPastEnd` takes the
two outcomes a build can produce:
* a crash;
* a wrap to `begin()`, as a libstdc++ list does.

### `StfFileSink.tla`

This module models `DataHandlerThread`, lines 212-294.
* `Dequeue` is the sampler decision.
* `CreateWriterFails` is the writer constructor throwing.
* `WriteStf` writes an STF, then rotates when `RotateDue` holds.
* `WriteFails` is the close/remove/reset path, which leaves
  `lCurrentFileStfs`/`lCurrentFileSize` as they were.
* `Forward` queues the STF to the next stage.
* `InputStopped` and `Exited` are the thread's two exits.

STFs are numbers, and sizes are small units.

### `StfReadoutBuilder.tla`

This module models `addHbFrames` (lines 52-227) and `addTopoStfData`
(lines 229-318) of `SubTimeFrameBuilder.cxx`.
* Data blocks are counted, not kept.
* `KeptCounts` gives the block counts that can survive the
  empty-trigger filter and the sanity check.
* `HeaderAllocFails` and `TopoAllocFails` are the null
  `newHeaderMessage()` paths: they clear the STF and close
  `mAcceptStfData`.
* `sTfId` wraps at `2^IdBits`.
* The caller steps `GetStf` and `Stop`, and the next-TF choice `NextTf`,
  are spec-modelled because the readout thread is outside `src/`.
  `GetStf` takes the physics STF and sets `mAcceptStfData` again, which
  the re-enable at line 74 and the "dropping data" logs rely on.

### `ConsulTunables.tla`

| Model | Code |
|---|---|
| `store[p][k]` | the Consul kv value of prefix `p` (global or per process type) + parameter `k` |
| `marker[p]` | the empty prefix key that a round creates when the prefix has no items |
| `cache`, `toAdd` | `mTunables`, the keys of `mTunablesToAdd` |
| `fresh` | `mTunables` while the round holds `mTunablesLock` |
| `PollWake`, `PollRead`, `PollWriteBack`, `RoundFails`, `Exited` | `ConsulPollingThread`: the loop head, one `kv.items` per prefix, the write-back, the catch, and the exit |
| `GetParam(k, t)` | `getBoolParam`, `getStringParam`, `getInt64Param`, `getUInt64Param` |
| `Cleanup` | `cleanup()` |
| `OpSet` | the operator editing Consul (spec-modelled) |

Values are reduced to three:
* `good`: a valid operator value.
* `bad`: an operator value that does not parse as a number.
* `dflt`: the process default.

A round holds `mTunablesLock` from the loop head to `wait_for`. No getter
can observe the half-built map, so the model builds it in `fresh` and
publishes it when the lock is released. It publishes it after an
exception too, with whatever had been read. The initial state is the
first round: the constructor waits for `mTunablesRead`, so getters run
only after it.

### `RegionRegistry.tla` (+ `MCUCXTransport.tla`)

| Model | Code (`StfSender/StfSenderOutputUCX.h`) |
|---|---|
| `running` | `mRunning` |
| `regions` | `mRegions`, in `push_back` order |
| `cache[t]` | pool thread `t`'s `thread_local sRegions` |
| `RegisterSHMRegion(r)` | `registerSHMRegion`: skipped unless running, `create_rkey_for_region` may fail (only logged), else appended under `mRegionListLock` |
| `LookupCached(t, b)` | `regionLookup`, first scan of the thread's copy |
| `LookupReload(t)` | `regionLookup` after a miss: clear, copy under the lock, sort by size (largest first), scan again, throw on a miss |
| `Start`, `Stop` | `start()`/`stop()`, in `StfSenderOutputUCX.cxx` (not in the repository; spec-modelled) |

Regions are addresses `Base[r] .. Base[r]+Size[r]`; a buffer is a
`[ptr, len]` record, and containment is the test at lines 143-144.
Scanning a thread's own copy touches no shared state, so a lookup is two
steps: the cached scan, and the reload with the second scan.

`MCUCXTransport` composes `RegionRegistry` with `UCXMultiReq`: the
StfSender resolves each message's region, the TfBuilder reads it through
`dd_ucp_multi_req`. The two share no state in the code, so their steps
interleave freely; each keeps its own fairness.

### `PartitionRequest.tla`

| Model | Code (`ConfigConsul.h`, `getNewPartitionRequest`) |
|---|---|
| `req[k]` | the Consul keys under `epn/data-dist/request`: `partition-id`, `stf-sender-id-list`, and a stray key |
| `Items` | `kv.items(sReqKeyPrefix)`, sorted by key |
| `Trim`, `Split` | `boost::trim_copy`, and `boost::split` with `token_compress_on` (RECURSIVE operators over strings as character sequences) |
| `ReqValid` | the checks of a two-item request: both keys present, a non-empty trimmed id, a non-empty and unique id list |
| `MoveCalls` | the move: `kv.set` of the request time, then `kv.set` and `kv.erase` per item |
| `GetNewPartitionRequest` | the whole call, with the failing Consul call (if any) chosen among the calls of the move |
| `info`, `accepted` | the copies under `partition/<id>/info` or `invalid_requests/<time>`, and the requests returned true |
| `OpBegin`, `OpWrite` | the operator (ECS, outside the repository) writing a request key by key into an empty prefix |

A call with fewer than two items returns false and changes nothing, so it
is a stuttering step. The call holds `mConsulLock`, and the operator
writes only into an empty prefix. So no write falls inside a move, and
the call is one step. Under that discipline the partition id and the
StfSender list of an accepted request always come from the same request.
This was checked with 870k states and two Consul errors.

## 3. Runs

At most twelve runs are kept, one per question.

| Run | Result | What it shows |
|---|---|---|
| `tfb_reliable` (NumTfs 3, no faults) | pass, about 128k states | `DeliveredTfComplete`, `DeliveredInIdOrder`, `AdmittedTfResolved`: with reliable transport, every assigned TF is built, in order, with one STF from each accepting StfSender. |
| `tfb_faults` (NumTfs 2, one loss, one duplicate, `stop()` at any point) | pass, about 196k states | `DeliveredInIdOrder` survives faults, including a late duplicate that recreates a merge-map entry. `StopCompletes`: `stop()` always returns. Each queue a thread blocks on is stopped before that thread is joined (line 109), even when a lost STF leaves a TF that never completes. |
| `ucx_faults` (MCUCXTransport: one error completion, one epoll failure; one pool thread, two regions, one remote-key failure) | pass, about 333k states | `MultiReqContractRefined`: the aggregator implements `CompletionToken`. At most `mSlotsCount` requests are in flight, `ucp_wait` reports success only after the last completion, and it does return once that completion is in. `WaitReturnsUnlessError`: a wait with no error completion returns. `RegionLookupCorrect`: despite the stale thread-local copy, `regionLookup` returns a registered region that contains the buffer, and throws only if no region registered before the call contains it. |
| `ucx_error_hang` | violation of `WaitReturns` | An error completion never releases its slot, so `ucp_wait` spins forever. |
| `sched_lifecycle` (2 StfSenders, 2 TfBuilders over FairMQ or UCX, one loss, one crash, one terminate) | pass, about 12k states | `SenderLossReported`: a lost StfSender always leads to ERROR (or to a completed termination). `TeardownCompletes`: the monitor's teardown loop ends, because `requestTfBuildersTerminate` drops crashed TfBuilders (the deletion in `requestStfSendersTerminate` uses StfSender ids and removes nothing). |
| `sched_lost_terminate` | violation of `TerminationNotUndone` | The monitor passes the teardown check, TerminatePartition sets TERMINATING, and the monitor writes CONFIGURING over it. |
| `drops_book` (3 STFs) | pass, 2083 states | `DropEventuallyLogged`: every drop task that returns is eventually collected and its STF id logged as dropped, although the loop skips the future behind each erased one, tasks return in any order and futures are appended between scans. Only the crash outcome of the past-end iterator ends this. |
| `sink_rotation` (4 STFs, 2 per file, one create and one write failure) | pass, 1118 states | `FileStfLimit`: no file holds more than `mStfsPerFile` STFs. `ShortFileOnlyAfterFailure`: a file is closed before it reaches either limit only after an earlier file was removed by a failed write. That is the stale `lCurrentFileStfs` at line 269, and nothing else causes it. |
| `consul_poll` (2 parameters, one DataDist global, 2 operator edits, 1 Consul error) | pass, about 104k states | `ConfiguredValueApplied`: a value the operator leaves in Consul eventually stays in `mTunables`. `MissingDefaultsPublished`: every queued default reaches Consul, also after a write-back that throws part way. |
| `partition_request` (2 operator requests, strings of up to 2 characters, 1 Consul error) | violation of `AcceptedRequestsSound` | An empty StfSender list (or one with a leading or trailing separator) splits into an empty id, which nothing removes despite the comment "split, trim, remove empty" (line 480); the request is accepted. The same property catches a second defect: a Consul call that throws during the move after validation still returns true and leaves the keys, so the next call accepts the request again. A check of that half alone finds it at 2078 states. |
| `consul_overwrite` | violation of `OperatorValueKept` | The first poll round throws, so `mTunables` starts empty. A getter queues the default, and the next round writes it over the operator's value (line 322). The same happens without an error when the operator sets a missing parameter between rounds. |
| `rb_gates` (2 equipments, IdBits 3, one allocation failure) | pass, about 10k states | `NoPartialPhysStf`: after a header allocation failure, and with `getStf()` reopening the gate, no partial physics STF is forwarded. |

Each property of a passing run has a mutant in `PROJECT.json`: a plausible
slip in the mapped code under which TLC reports the property violated.
Examples are an off-by-one, a missing reset, a gate left open, or a
mixed-up id.

### Disagreements found in the model, no longer separate runs

The following were each once shown by a violation run. They were
retired to keep to twelve runs. They are still reachable in the modules,
and `PROJECT.json` lists them as hazards:
* **Lost STF blocks the pipeline.** One lost STF leaves its TF
  incomplete. It blocks every later TF forever, because the deserializer
  only tries the smallest TF and has no timeout (TODO at line 272). This
  breaks `AdmittedTfResolved` with `MaxLost = 1`.
* **Duplicate completes a TF.** A duplicated STF from one StfSender is
  counted in place of another StfSender's missing one, so the TF is built
  incomplete. This breaks `DeliveredTfComplete` with `MaxDup = 1`.
* **Late TfBuilder after teardown.** A TfBuilder admitted by
  `accepting_updates()` before TerminatePartition registers after the
  monitor's last `requestTfBuildersTerminate` round. This happens with
  `ConnectTfBuilder` or `ConnectTfBuilderUCX` after `MonitorFinish`.
* **File-sink stale counter.** A write failure leaves `lCurrentFileStfs`
  set, so the next file is rotated early. `ShortFileOnlyAfterFailure` now
  checks that this is the only way a file is closed short.
* **Topology id wrap.** With a small `IdBits`, `sTfId` wraps and
  topological TF ids repeat.
* **Drop iterator past `end()`.** `DropWaitThread` assigns the result of
  `erase()` to the iterator and the `for` loop increments it again. A
  ready future at the end of the list sends the iterator past `end()`
  (line 482), which breaks `IteratorInRange` in `SchedulerDrops`. This run
  was retired for `partition_request`. `DropEventuallyLogged` still checks
  that skipping a future loses no drop.
* **Short topology STF.** An allocation failure in `addTopoStfData`
  clears `lStf` but keeps `lStfNumMessages` (lines 289-294). Once `getStf()`
  reopens the gate, the next call reaches `pMaxNumMessages` early and
  returns a topology STF with fewer messages (one, with `MaxNumMessages`
  2). An invariant that every returned topology STF is full fails at
  about 3k states; it has no run of its own because every run slot is
  in use.
* **Duplicate overfills a TF.** A duplicate STF overfills a TF, so the
  `==` completion test never holds.

### Bounds

* **TfBuilder**: two StfSenders are the smallest number where "which
  StfSender is missing" matters. Three TFs let a blocked TF hold up two
  later ones.
* **TfScheduler**: two TfBuilders let one connect, over either transport,
  while another is being told to terminate. One loss, one crash and one
  terminate request reach every branch of the monitor.
* **UCX**: more reads than slots make the caller wait for a slot.
* **Region registry**: two regions of different sizes, a buffer in each
  and one in none, and three lookups let a lookup hit the cache, miss and
  reload, and miss a region registered after it began. One thread is
  enough: a copy is per thread, and other threads only add interleavings
  of registrations, which the one thread already races.
* **Drops**: three STFs give a ready future in the middle of the list, one
  at its end, and one that is skipped.
* **File sink**: four STFs with two per file need a rotation, and also a
  failure before it.
* **Consul**: two parameters, one with each home prefix, are enough for
  a process key to override a global one. Two operator edits and one
  error let a value be set, overwritten and re-read.
* **Partition requests**: two requests let a request follow one whose
  move failed. Strings of two characters give an empty list, a leading or
  trailing separator, a duplicate id, and a blank id.
* **Readout builder**: two equipments share one STF. Lengths 1 and 2
  against `MaxNumMessages` 2 both fill and overfill a topology STF.

### Fairness

* **TfBuilder**: the pacer, deserializer and merger loop while the
  component is RUNNING, with 10 ms waits, so each gets weak fairness. The
  RPC thread answers every request, because gRPC calls time out. TF
  admission is not fair. `stop()` is never forced, but once called it
  proceeds whenever the thread it joins has exited. A thread leaves its
  loop once its `pop()` returns or its 10 ms wait ends.
* **TfScheduler**: the monitor loops every 500 ms, and the StfSender
  monitor every 250-1000 ms. `start()` retries for at most five minutes. A
  gRPC handler runs to completion, over either transport. A TfBuilder
  told to terminate disconnects. Operator requests, crashes and StfSender
  loss are never forced.
* **UCX**: UCX completes every submitted operation with some status. A
  lookup that missed its cache reloads (weak fairness): it is straight-line
  code on the calling thread.
* **Drops**: `DropWaitThread` wakes at least once a second, and each drop
  task returns (weak fairness on `TaskDone` and on every step of
  `DropWaitThread`). `DropEventuallyLogged` depends on exactly these.
* **Consul**: `wait_for(30 s)` always returns, and every Consul call
  returns or throws, so the poll steps get weak fairness. Operator edits,
  getters and `cleanup()` are never forced.
* The file sink and the readout builder are checked for safety only.

## 4. Not modelled

* **The status writers and readers of `ConfigConsul.h`**: `write`,
  `write_string`, `createKeyPrefix` and the `get*Config` readers each
  write or read a single serialised record.
* **TfBuilderUpdate / StfSenderStfUpdate**: the TfScheduler handlers
  forward to the TfBuilder and STF info databases, whose code is outside
  `src/`.
* **Read-only handlers**: `HeartBeat`, `GetPartitionState` and
  `NumStfSendersInPartitionRequest` only read state or bump log counters.
* **`stop()`**: process shutdown.
* **Formatting and I/O**: logging, monitoring counters, file names and
  header layout conversions are formatting. The gRPC and protobuf
  plumbing is I/O.
* **ReadoutEmulator**: it has no implementation in the repository.
* **`CruMemoryHandler.h`**: its implementation (`.cxx`) is not in the
  repository; the header only declares the superpage queue.
* **`SubTimeFrameFile.h`**: the on-disk layout of an STF file; the file
  format is out of scope of the specification.
* **The rest of the UCX output**: the endpoint error handler,
  connect/disconnect, `start()`/`stop()` and `visit()` are in
  `StfSenderOutputUCX.cxx`, which is not in the repository.
* **The `dd_ucp_multi_req` destructor**: it frees the requests still in
  flight after `ucp_wait` gave up on an epoll error. First it asserts
  `mTotalDone >= mRequests.size()`, and that assert fails when more
  requests are pending than have completed. Checking it needs a violation
  run, and the runs are all in use; `PROJECT.json` lists it as a hazard.
* **`ucx_send_string` / `ucx_receive_string`**: two blocking calls in a
  row, each the one-operation instance of `UCXMultiReq`; an orphaned
  receive after an epoll error is listed as a hazard.
