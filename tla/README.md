# HyLink in TLA+

HyLink is a collective communication framework in two layers. **PCIe CCL**
(`pcie-ccl-cuda`, and its port `pcie-ccl-ascend`) runs collectives over PCIe: an
IR plan says how chunks travel between GPU buffers and NUMA-local host memory, a
compiler turns the plan into one graph per rank, and an executor thread per rank
drives the copy engines, coordinating with the other ranks through counters in
shared memory. The **Multipath Orchestrator** (`multipath-orchestrator`) splits a
collective between the vendor's library and PCIe CCL.

This project models both layers: the core of PCIe CCL for CUDA (shared counters,
barrier, plan selection and compiler, executor with its H2H engine, submission,
fast path for small messages, process set-up, NCCL interface), the Ascend port
where it differs, and the orchestrator (hooks and communicator set-up, parameter
store, planner, split collectives). All paths below are relative to
`src/pcie-ccl-cuda/src` unless they say otherwise; `O/` stands for
`src/multipath-orchestrator/libampccl` and `A/` for `src/pcie-ccl-ascend/src`.

## Inventory

| Component | State | Operations | Interacts through | Hard because |
|---|---|---|---|---|
| Progress counters (`memory/shared_state.hpp`, `ChunkState`) | `write_progress`, `consume_progress`, `reader_done[]` per version and epoch, `num_readers` per version | `advanceWriteProgress`, `advanceReaderDone`, `setNumReaders` | shared memory, every rank's executor | lock-free, several threads compute a minimum while its inputs move |
| Barrier (`memory/shared_state.cpp`) | `barrier_count`, `barrier_generation` | `barrier` | shared memory | rounds overlap, waits time out |
| Plan compiler (`ir/compiler.cpp`, `ir/ir_loader.cpp`, `api/pccl_api.cpp`) | none; produces `CompiledGraph` | `compileGraph` | called by `submitCollective`, result cached | versions, readers and staging must agree across ranks that compile on their own |
| Graph executor (`executor/graph_executor.cpp`) | queue, current item, node states, event rings, H2H items | `submit`, executor thread, `runGraph`, `trySubmitNode`, polls, `waitForIdle` | counters, barrier, completion flags, H2H engine, streams | threads of all ranks, asynchronous transfers, failure in the middle |
| Completion flags (`memory/completion_flag.cpp`) | per slot `ready_seq`, `complete_seq`, events | `prepareUserWait`, `isReady`, `signalComplete` | user streams, reset stream, executor thread | slots are reused, GPU and CPU write the same words |
| User-ready table (`shared_state.cpp`) | `user_ready_seq` per communicator, rank, slot | `publishUserReadySeq`, `getUserReadySeq` | peers that push into a rank's buffers | slots are reused |
| H2H engine (`executor/h2h_engine.cpp`) | work queue and worker pool per NUMA node | `submitGraphWork`, `workerLoop`, `shutdown` | executor polls `done` flags | completions in any order |
| Small-message fast path (`fastpath/`) | queue, staging buffer, five tables in shared memory | `submit`, `execute`, publish and wait | shared tables, completion flags | all ranks must choose direct or staged alike |
| ProcessState, device IPC (`core/process_state.cpp`) | buffers, IPC handles, remote buffer cache | register, publish, open, close, finalize | sequence-locked slots in shared memory | torn reads, stale handles |
| Segments (`memory/shm_allocator.cpp`, `host_pool.cpp`) | state segment, bootstrap segment, descriptors | create, open, serve, receive | processes of a job | names outlive a crash, joiners come early |
| NCCL compatibility (`api/nccl_compat/`, `util/inflight_drain.cpp`) | group queue, rendezvous, count of communicators, registry of executors | group start and end, init, split, destroy, shims of blocking CUDA calls | PCIe CCL API, executors | threads, groups and processes order the same calls differently |
| Parameter store (`O/core/shm_store.cc`) | statistics per rank, parameters with a version, reader count, sense barrier | attach, launch, write statistics | shared memory, host callbacks | feedback of one collective meets the launch of another |
| Planner and controllers (`O/core/planner.h`, `O/controller/`) | share and `use_pcie` per operation and size bucket | plan, suggest, update | parameter store | unsigned arithmetic, a loop through measurements |
| Split collectives (`O/core/virtual_collective.h`, `stream_sync.cc`, `value_sync.cc`, `domain_manager.h`) | tickets, pending records, staging buffers, timers | the four collectives, completion callback | two libraries, two streams, host callbacks | fork and join of streams, threads that share a stream, submissions that fail |
| Hooks and set-up (`O/hook/`, `O/core/comm_init.cc`, `node_scope.cc`) | domains, split ordinals, count of PCIe communicators, node-scope segment | init, split, sub-communicator, destroy, routing | native libraries, shared memory | every rank derives keys and routes on its own |
| Ascend port (`A/`) | as PCIe CCL for CUDA, and leased staging regions, places with reference counts, an internal buffer that grows | as PCIe CCL for CUDA | shared memory | several communicators share staging memory and workers |

What makes the core correct:

- counters: no slice is overwritten while it is read, no slice is read before it
  is written, no advance is lost;
- barrier: nobody leaves a round before everybody has entered it, and it never
  wedges;
- compiler and executor together: when a rank's stream is released from a
  collective its buffers hold the result, and every collective ends;
- submission: a stream waits for exactly its own collective, its doorbell is
  seen, a drain waits for everything before it, and no wait hangs;
- fast path: all ranks exchange a collective the same way, nobody's input or
  staging buffer changes under a peer that reads it, and a failure releases every
  stream.
- process set-up: everybody uses the segment the creator made, a place belongs to
  one communicator, `pcclCommInitRank` succeeds on all ranks together, and what
  is mapped is what the peer registered;
- NCCL interface: ranks meet in the same collective however calls are grouped,
  and a blocking call never holds what its own collective needs;
- parameter store: all ranks split a collective the same way, from statistics of
  one collective, and no launch hangs;
- split collectives: the two parts are the whole, both are ordered with the
  application's stream, and buffers and records go to their owners;
- hooks: one key for one communicator, one route for one collective, PCIe only
  inside a node, finalisation after the last user;
- Ascend: results as above, with regions and places that nobody else holds.

The hazards list in `PROJECT.json` gives the places where this could go wrong
first. Others that the models do not cover:

- `memory/shm_allocator.cpp:171`: a joiner maps the bootstrap segment before
  `ftruncate`; `:269`: the creator's `accept` has no timeout.
- `memory/completion_flag.cpp:421`: without stream memory operations, signal and
  clearing of a slot run on different streams.
- `memory/shared_state.hpp:384`: versions index 16 counters modulo 16; nothing
  checks that a plan writes no location more often.
- `memory/shared_state.cpp:145`: a timed-out arrival stays in `barrier_count` of a
  place that a later communicator may use.
- `api/nccl_compat/nccl_hook.cpp:325` and `O/core/comm_init.cc:95`: communicators
  are counted after initialisation, so that another thread may finalize meanwhile.
- `O/core/shm_store.cc:251`: the parameter segment is never unlinked, and a crash
  may leave its counts nonzero.
- `O/core/domain_manager.h:84`: a pending record points to a domain that
  `CommDestroy` may remove.
- `O/core/comm_init.cc:90`: PCIe set-up that fails on one rank is not reported to
  the others.
- `A/memory/shared_state.cpp:259`: a free place on the probe path is taken before
  the communicator's own is found behind it.
- `A/executor/h2h_engine.cpp:78`: shutdown notifies without the lock.
- `A/executor/graph_executor.cpp:1563`: after a timeout a region is given back while
  shards are still copied into it.

## Modules

| Module | Models | Composition |
|---|---|---|
| `CreditChannel` | what the counters promise: a writer with credits and readers with cursors | abstract |
| `ChunkFlow` | `ChunkState`, one chunk version in one epoch, with the writing and reading executors | implements `CreditChannel` |
| `BarrierPromise` | what a barrier promises | abstract |
| `SharedBarrier` | `SharedStateManager::barrier` | implements `BarrierPromise` |
| `PlanCompiler` | plan selection, `compileGraph`, `allreduceDirectOverwriteSafe`, staging policy | operators |
| `GraphRun` | executors of all ranks over a sequence of collectives, H2H engine | runs graphs of `PlanCompiler`; implements `BarrierPromise` for the user streams |
| `SubmitQueue` | `submit`, executor thread, completion flags, streams, drain | one rank |
| `SmallMessage` | `SmallMessageExecutor` of all ranks, with registration and opening of IPC buffers | all ranks |
| `ProcessSetup` | segments, places, `pcclCommInitRank`, device IPC records, finalize | processes of a job; barrier at its promise |
| `NcclCompat` | the NCCL interface and the drain registry | threads and processes over executors |
| `ParamStore` | `ShmParamStore` and the launch that uses it | implements `BarrierPromise` |
| `SplitPlan` | planner and share controllers | operators |
| `SplitCollective` | the virtual collectives, streams, tickets, callbacks | plans of `SplitPlan` |
| `CommSetup` | hooks, keys, node scope, PCIe twins, routes | threads, processes and nodes |
| `AscendPlan` | what the Ascend compiler does otherwise | extends `PlanCompiler` |
| `AscendRun` | the Ascend port at run time | runs graphs of `AscendPlan` |
| `MC...` | instances for TLC | |
| `ChunkFlowProofs`, `SharedBarrierProofs`, `SubmitQueueProofs`, `ParamStoreProofs`, `GraphRunProofs`, `SmallMessageProofs`, `SplitCollectiveProofs` | theorems about the module of that name | each extends its module |
| `SplitCompletionProofs` | theorems about the end of a collective, its records, timers and buffers | extends `SplitCollectiveProofs` |

### ChunkFlow

The variables have the names of the fields of `ChunkState`; `w_next`, `r_next`
are the nodes' `next_subchunk`, `w_fly`, `r_fly` the transfers in flight, `ring`
the slice each slot of host memory belongs to. A transfer takes the slot at its
submission and needs its source until its completion. `advanceReaderDone` is cut
at every access of shared memory: raising the own cursor (`CompleteRead`), each
read of another cursor (`ScanReader`, with `num_readers` read again in each
turn), the end of the loop (`EndScan`) and raising `consume_progress`
(`RaiseConsume`). A compare-exchange loop that only raises a counter is an
atomic maximum. A DMA lane completes in order, the H2H pool in any order
(`Completes`). `kind` says which of the two each side uses and which readers are
late: their rank pops the collective after the writer's rank did; their
`setNumReaders(0)` and `setNumReaders(n)` are two steps.

Interleaving is sequentially consistent, which the locked compare-exchange of
x86 gives the code. The release/acquire pairs by themselves do not order a
thread's own store before its later loads; on a weaker machine the argument of
`NoLostAdvance` would need a fence.

### SharedBarrier

One communicator and slot. `LoadGeneration`, `Arrive` (fetch_add), `ResetCount`,
`BumpGeneration`, `SeeRelease` and `TimeOut` are the accesses of `barrier` in
order. A timed-out rank's arrival stays counted and the rank does not come back
(its executor refuses all further work). `arrivals` is a history variable.

### PlanCompiler

A chunk location is `<<space, owner, chunk>>` and a progress key a location with
a version. The compiler walks the instructions of all ranks in order; the record
`walk` is its `latest`, `readers` and `nodes`. Layouts are kept in elements, and a
slice is one element (`ChunkBegin`, `ChunkElements`, `ChunkOffset`). The chunks of
a user buffer are uneven, and the first ones are empty if there are fewer elements
than chunks; host and internal chunks always have the full chunk size
(`WorkElements`), so that a slice may be empty where it enters or leaves
(`EmptySlices`) and move in between. The walk is a recursive function on the length of the
program, whose tables (staged outputs, host rings) are computed once and passed
along. `LoadIR` selects the plan by collective, topology and size: the direct plan
where every pair of GPUs may copy, a small-message variant, the relay plan.

### GraphRun

Per rank the program counter of its executor thread: `idle`, `popped` (reader
counts zeroed), `doorbell`, `run`, `barrier`, `reset`, `signal`, `failed`. In
`run`, `SkipSlice` and `SubmitSlice` are the two outcomes of `trySubmitNode`,
`CompleteDma` and `CompleteH2H` the polls; `ToEngine` and `ToLane` are where a
slice goes. The H2H engine is part of the module: `SubmitGraphWork` cuts a slice
into shards for the queue of a NUMA node, its workers take and finish them
(`TakeShard`, `FinishShard`), and the poll sees the slice done with its last shard. Counters are indexed by key and
epoch; `advanceReaderDone` and `barrier` are one step here because `ChunkFlow`
and `SharedBarrier` treat them in detail. `mem` follows the data: a cell
(`Cell`, a buffer and an offset in it) holds the set of contributions
`<<rank, chunk, slice, collective>>` that were summed into it, from the beginning
for inputs (`Memory`); a destination is `Busy` from submission to completion, and a transfer
whose source changed in between, or a sum that counts something twice, leaves
`Garbage`. A node whose output slice is empty moves nothing (`NothingToMove`); the
all-reduce of the run has one element and two chunks, and chunk 0 is empty only at
its input and output: its host and internal transfers run. The user stream writes fresh inputs and rings the doorbell for the
next collective when it has been released from the last (`UserRing`).

The plans in `MCGraphRun` are the instruction lists of `pcie-ccl-cuda/ir`:
`allgather_01`, `allgather_00_direct`, `allreduce_01`, `broadcast_root0_00`, the
first chunk of `allreduce_00_direct` and the reduction of one NUMA node in
`allreduce_00112233`; the topology of a work item selects among them as the code
does.

### SubmitQueue

`submit` is `Admit` (under `mutex_`), `PrepareUserWait` (outside it), `Push`
(under it again); `submit_mutex_` makes them one caller's at a time. A failure of
any call inside `prepareUserWait` is `PrepareFails`, which leaves on the streams
what had been enqueued before it. The user streams and `reset_stream_` execute
their operations in order (`ResetStreamStep`, `Ring`, `Pass`). The executor
thread is `PopWork`, `SeeDoorbell`, `GraphDone`, `SignalComplete`, `FinishWork`
or `FailWork`; `GraphDone` is the last look at `last_result_`, before the
barrier. `waitForIdle` is `DrainCall` and `DrainReturn` or `DrainTimesOut`, the
destructor adds `Stop` and `ThreadExit`.

### SmallMessage

`setup` is what an application and a machine look like: the calls, which
ranks may read which others' buffers directly, whether device IPC is on, whether
anything may fail. A call is `Register` (`registerDeviceBuffers` overwrites the
rank's IPC record), `Admit` or `Refuse`, and `Push`. The executor thread is `Pop`,
`SeeDoorbell`, `PublishDirect` and `ResolveDirect` (all ranks' answers decide
`all_direct`), `Stage` and `PublishStage`, one of `ReadOwn`, `ReadDirect`,
`ReadStaged` for each source in the order of `executeAllGather`,
`executeAllReduce` and `executeReduceScatter`, `EnterBarrier` and `FinishWork`.
`FailWork` is a timeout of any of the waits or a device error. `mapped` is the
allocation of each peer that a rank has open; opening another one may fail.
Transfers run on the device one after the other (`StartTransfer`,
`EndTransfer`), with data as in `GraphRun`. The barrier is one step, as
`SharedBarrier` treats it in detail; `prepareUserWait` does not fail here.

### ProcessSetup

Each process runs a program of `pcclCommInitRank`, collectives and
`pcclFinalize`. The first communicator takes the process through the state
segment (`UnlinkStale`, `CreateState`, `ConstructState` by the creator,
`OpenState` by joiners), the bootstrap segment (`CreateBootstrap`, `MarkReady`,
`ServeFds`; `OpenBootstrap`, `AwaitReady`, `ReceiveFds`) and a barrier. Each
communicator claims a place, one compare-exchange at a time
(`UserReadyCommSlot`), sets itself up (`SetUpDevice`, which may fail) and crosses
two barriers. A collective publishes its buffer under the sequence counter in
four steps, meets its peers and reads their records word by word (`ReadSeq`,
`ReadFields`, `ReadHandle`, `CheckSeq`). Names may be left by a crashed job
(`Leftovers`).

### NcclCompat

A handle is one rank of one communicator. Threads collect group calls
(`t_group_ops`), `ncclGroupEnd` cuts them into waves (`StartsNextWave`), each
wave submits in threads of its own (`RunWave`, `WaveStep`) and the next wave
starts when all have returned. A submission (`submitCollective`) takes one of the
two executors of its handle. In multi-process mode a small message (`canHandle`)
goes to the small-message executor (`SubmitSmall`), for which it need not wait;
everything else waits until that executor is idle, and passes the barrier of
`submitCollective`, `PrepareUserWait` and `PushWork`. The user stream of a device
executes the works of all its communicators in order, and a work ends when all
ranks have started it. Communicators of a single process have `comm_id` 0, and so
share the barrier in front of submissions (`BarrierOf`); that they share its
counters in shared memory too (`api/pccl_api.cpp:690-703`) is not modelled.
Blocking CUDA calls drain the registered executors of the process
(`inflightDrainAll`), which are the graph executors, and then take the driver.
The thread of a small-message executor ends its work by such a call as well
(`SmallSynchronizes`, `SmallDrains`, `SmallSynchronized`). There are no timeouts
in this module: a wait that only a timeout would end never ends.

### ParamStore

One communicator. A launch (`LaunchStep`) attaches to the segment, on rank 0
waits for the readers of the last parameters, takes the statistics if there are
any, writes new parameters and signals; the others read them under a version
check; all cross the sense barrier and plan. Callbacks (`CallbackStep`) write
statistics when collectives end. Parameters are numbered by the update that made
them, so that `used`, the plans of a rank in order, can be compared. `depth` is
the number of collectives the application leaves running.

### SplitPlan and SplitCollective

`SplitPlan` has `CreatePlan` with unsigned arithmetic modulo `2^SizeBits`, size
buckets and the update of the share by the three algorithms, in thousandths. In
`SplitCollective` a host thread executes the steps of a virtual collective in the
order of the code: `todo` is what is left of them, `AllReduce`, `AllGather`,
`ReduceScatter` and `AllToAll` choose it from the plan (`FastOnly`, `PcieOnly`, in
place, staged). Streams are queues of operations that the device executes in
order (`DeviceNext`); tokens are the words of the ticket ring. `HostCompletion` is
the callback: it takes the first pending record, moves a staged result, queries
timers and updates the share, which the next plan uses.

### CommSetup

A thread drives one device; threads of a process share domains, ordinals and the
count of PCIe communicators. A key is the list of what the code hashes.
`RegisterNodeScopeRank`, `ResolveNodeScope` and `NodeScopeTimeout` are the shared
table with its deadline, which passes only when nobody else will come unless
`MaySkew`. `RouteOf` is the decision of each hooked collective; a collective of
the orchestrator needs all its ranks in the parameter store, a native one all
ranks in the native library.

### AscendPlan and AscendRun

`AscendPlan` keeps the arithmetic of the Ascend compiler (chunk sizes, empty
slices, dense host chunks, staging bytes), which decides what a region must hold.
`AscendRun` has a user thread per rank, an executor per communicator and one H2H
engine. A work item pops, passes the acquire barrier, leases a region on each
NUMA node (`LeaseRegion`, first fit), resets its epoch, passes the start barrier,
runs, and gives the region back behind the release barrier. Host cells are
addressed absolutely: regions that overlap would corrupt each other's data.
`MayGrow` drains before the internal buffer is replaced.

`submit` is `Admit` (under `mutex_`), `PrepareUserWait` or `PrepareFails` (outside
it) and `PushWork` (under it again). A failure of the executor releases the
streams of the running work and of the queue as it is then (`SignalAll`); a work
admitted before is pushed afterwards, and the executor takes it without a look at
`last_result_`. The failed waits are apart: of the acquire barrier
(`TimeOutAcquire`), of the start barrier, which gives the region back before it
finishes the work (`TimeOutStart`, `FinishUnstarted`), of the run (`TimeOutRun`)
and of the barriers behind it (`TimeOutEnd`, `TimeOutRelease`). A communicator is
`Parted` when one of its ranks has lost a number that the others use, or has taken
a late work. From then on its ranks may meet with different works: a late work
zeroes the reader counts of a peer that still runs, and when its acquire barrier
times out a region may be given back under a peer whose start barrier passed with
the help of the arrival left in `barrier_count`. `ResultCorrect`, `RegionHeld` and
`NoResetUnderway` speak of the other communicators. Not modelled are the timeouts of
`submit` with a full queue (`A/executor/graph_executor.cpp:272-281`) and of
`waitForIdle`.

## Runs

| Run | Instance | Shows |
|---|---|---|
| `chunk_flow` | 2 readers, 3 slices, ring of 2; a DMA ring, and host copies with late readers | `SliceIntact`, `ConsumeCatchesUp`, refinement of `CreditChannel` (`ImplementsChannel`), `AllSlicesConsumed` |
| `barrier` | 4 ranks, 3 rounds, timeouts | `NobodyEarly`, refinement of `BarrierPromise`, `EveryRoundCompletes` |
| `graph` | 2 ranks, three workloads: all-gather in place, all-reduce of one element in place and broadcast, relayed; staged all-reduce with pushes and a reduction by the host; peer copies with one doorbell slot and failures | results, epochs, lead window, the barrier the user streams see, completion |
| `submit_queue` | 2 callers, 2 slots, 3 items, failures and timeouts | `PassedOnlyEnded`, `SlotsKept`, `DrainedMeansEnded`, `EveryWaitEnds` |
| `small_message` | 2 ranks, 2 slots; 12 setups of two or three collectives | `ResultCorrect`, `PathAgreed`, `EveryWaitEnds` |
| `small_message_in_place` | one all-reduce in place, direct | **violation** of `ResultCorrect` |
| `process_setup` | 2 or 3 processes, 1 to 3 communicators, 1 to 3 places; a failing rank, four calls with changing buffers, a restart | `SetUpTogether`, `BindsRegistered`, `EveryCallReturns` |
| `nccl_compat` | 2 ranks as one thread, two threads or two processes, queue of 2, 13 programs, also with two communicators in one process, with small messages and with these behind larger ones | `WorkPaired`, `DriverNeverWaits`, `EveryCallReturns` |
| `param_store` | 3 ranks, 3 collectives, 1 or 2 left running, segment absent or left clean | `SamePlan`, `HandOver`, refinement of `BarrierPromise`, `EveryLaunchReturns` |
| `split_collective` | 1 or 2 threads, 1 or 2 communicators, ring of 2 tickets, 10 programs of up to 4 collectives | `PlanExact`, `StreamsOrdered`, `ResourcesOwned`, `EveryCollectiveEnds` |
| `comm_setup` | 2 to 4 threads, 1 to 3 processes, 1 or 2 nodes, 6 programs | `CommsIdentified`, `RoutesAgree`, `EveryCallReturns` |
| `ascend` | 2 ranks, up to 3 communicators for 2 places, 2 NUMA nodes, 8 programs, one with failures at every wait and one that destroys and creates again | `ResultCorrect`, `ResourcesHeld`, `NoResetUnderway`, `NobodyStuck` |

Some invariants are conjunctions of named parts, each with a comment of its own
in the module; the mutants break the parts one by one:

| Invariant | Parts besides the type invariant |
|---|---|
| `SlotsKept` | `DoorbellKept` |
| `PathAgreed` | `SamePath` |
| `HandOver` | `NobodyReadsDuringWrite`, `ReadersAccounted`, `StatsOfOneCollective` |
| `StreamsOrdered` | `PcieReadsProduced`, `OutputComplete` (no type invariant) |
| `ResourcesOwned` | `ScratchIntact`, `BuffersLive`, `CallbackFindsWork`, `TimersAreOwn` |
| `CommsIdentified` | `KeyIdentifies`, `FinalizeAfterLastUser` |
| `RoutesAgree` | `SameRoute`, `NodeLocal` (no type invariant) |
| `SetUpTogether` | `AttachedToJob`, `PlaceIdentifies`, `InitTogether` |
| `WorkPaired` | `SameWork`, `CommIdentifies`, `FinalizedWithoutExecutors` |
| `ResourcesHeld` | `RegionHeld`, `PlaceHeld` |

The type invariants of `ChunkFlow` and `SharedBarrier`, and
`ConsumeBelowReaders`, are proved (below) and have no run.

Bounds. Three slices over a ring of two are the fewest in which a slot is used
again while the other is still occupied; two readers the fewest in which a scan
is overtaken. Three barrier rounds let two consecutive overlaps happen. Three
collectives use one epoch twice, and three items over two slots use a slot again.
`LeadWindow` is 1 in the graph run (4 in the code) so that it binds with two
slices. The graph run has two ranks, which the plans it uses are made for. In
`small_message` two collectives are the fewest in which the next one's staging
and inputs meet a slow peer of the last, and three use a slot again; one setup
has failures, which the others leave out. A ring of two tickets wraps with the
third collective, two places overflow with the third communicator, and a queue of
two fills with the third call. Three ranks are the fewest in which one reader of
parameters has finished and another has not. Capacities of 2 and 4 staging units
make two communicators take turns, or lie side by side. Runs end when all work
is done, hence `CHECK_DEADLOCK FALSE`; that nothing stops earlier is what the
liveness properties, and `NobodyStuck` in `ascend`, say.

Fairness. It is weak fairness per thread or stream: executor threads and waits
poll, so an enabled step of theirs is taken; a copy engine finishes what it was
given; a stream executes an operation that can run; application threads make the
calls of their program. Submitting, draining and failing are never forced in
`SubmitQueue`; there a stuck executor thread may leave by its timeout, which the
code guarantees. In `SmallMessage`, where failures are on, a wait that never ends
leaves by `FailWork`, since each of them has a timeout; the setups without
failures show that nothing needs it. The futex waits of `ParamStore` sleep a
millisecond at most. In `SplitCollective` fairness is that something moves, which
is enough because programs are finite. `EveryRoundCompletes` excepts behaviours in
which some rank timed out, because then the round is lost for good. `AscendRun`
has no step that is repeated, so that "somebody can go on until all is done" needs
no fairness.

### Disagreements found

One is a run of its own, since every part of it is in the module as it stands:

- **An all-reduce in place is summed under its readers**
  (`fastpath/small_message_executor.cpp:815`). With direct reads a rank sums into
  the buffer that its peers still have to read; the barrier comes afterwards. The
  slower rank gets a sum that holds its own input twice, or a torn one.
  `tests/nccl_compat/test_nccl_compat_allreduce_count1.cpp:109` makes in place
  its default and expects the exact sum. Run `small_message_in_place`.

The models reach the following as well. The passing runs keep clear of them, and
each entry says how to see it.

- **`num_readers` is transiently zero** (`executor/graph_executor.cpp:391`). Each
  rank that pops a collective stores 0 and then the reader count into shared
  keys. A writer on a rank that started earlier sees 0 in `overwriteReady`, takes
  the chunk for one without readers and overwrites slices not yet read. The
  comment at `graph_executor.cpp:725` promises to wait for the readers.
  (`ChunkFlow` with a kind of DMA transfers and a late reader, and `SliceIntact`
  without its condition `DmaChunk`.) In the `graph` run host chunks have no more
  slices than ring slots.
- **H2H completions are published out of order** (`graph_executor.cpp:789`).
  `write_progress` is a maximum, so slice 1 finished before slice 0 publishes
  both; `memory/shared_state.hpp:23` says it is how many subchunks have been
  produced. The effect reaches the result: with two slices of the host reduction
  `GraphRun` violates `ResultCorrect`. The `graph` run has one slice there. The
  Ascend port publishes the finished prefix only.
- **A peer's buffer is the one of its latest call**
  (`fastpath/small_message_executor.cpp:688`). `submitCollective` registers the
  buffers of a call at once, while calls before it are queued; a peer that reads
  for an earlier call is given the later buffer. `pcie-ccl-cuda/README.md:217`
  says that calls are asynchronous. (`SmallMessage` with two direct all-gathers
  from different send buffers.)
- **Feedback can hang a launch** (`O/core/shm_store.cc:307`). With two collectives
  left running and one too small to be measured, rank 0 waits inside its launch
  for statistics of a collective that another rank has not started, and that
  rank waits for rank 0's parameters. `multipath-orchestrator/README.md:224` says
  that "The collective API typically just **enqueues** and returns". (`ParamStore`
  with `Programs <- MixedPrograms`: `EveryLaunchReturns`.)
- **A share is rounded past the message** (`O/core/planner.h:69`). For a size that
  is not a multiple of 128 and a PCIe share of zero, the fast share is rounded up
  past the total and the PCIe share wraps around; where unsplit collectives are
  measured (`AMPCCL_FAST_ONLY_BW_LOG`), `controller.h:44` then turns PCIe off for
  good. `planner.h:74` says "Ensure total doesn't exceed original".
  (`CreatePlan(1000, 0, TRUE)` in `SplitPlan`.)
- **A deadline splits the ranks** (`O/core/node_scope.cc:298`). A rank whose 200 ms
  pass just before the last arrival takes the native route; a peer that sees the
  arrival enters the orchestrator and waits for it.
  `multipath-orchestrator/README.md:138`. (`CommSetup` with `MaySkew = TRUE`:
  `SameRoute`.)
- **`pcclFinalize` under an initialisation** (`O/core/comm_init.cc:95`). The count
  of PCIe communicators is raised after `pcclCommInitRank`; another thread that
  destroys the last counted one finalizes in between.
  `multipath-orchestrator/README.md:247` says "after the last PCCL user is
  released". (`CommSetup`, `Threaded` with both communicators on PCIe:
  `FinalizeAfterLastUser`.)
- **A joiner opens the segment of a crashed job** (`memory/shared_state.cpp:75`),
  before the creator unlinks it; `shared_state.cpp:120` says that the state is
  "already initialized by creator". (`ProcessSetup` with `Leftovers = {TRUE}`:
  `AttachedToJob`.)
- **A blocking call drains the peer's executor** (`util/inflight_drain.cpp:54`).
  With two ranks in one process, a thread that blocks waits for the other rank's
  next collective too, which needs this thread. `cuda_block_shim.cpp:13-15` says
  that the drain avoids the deadlock. (`NcclCompat` with `Scenarios <- MCThreads`:
  `EveryCallReturns`; the code is freed by its timeout.) Groups of several
  collectives written rank by rank hang in the same way where plans need peer
  access, because `submitCollective` then contains a barrier
  (`api/pccl_api.cpp:486`).
- **Small messages are not drained** (`executor/graph_executor.cpp:164`). Only
  graph executors register for draining. A thread that blocks with a small message
  in flight waits for its stream inside the driver, which
  `api/nccl_compat/cuda_block_shim.cpp:11` says the drain prevents. (`NcclCompat`
  with `Scenarios <- SmallThenBlock`: `DriverNeverWaits`.)
- **The small-message thread drains** (`fastpath/small_message_executor.cpp:317`).
  It is not marked as a thread of PCCL, so that the stream synchronisation at the
  end of a small message waits for the graph executors of the process. One that
  holds a collective of another communicator, behind the small message on the same
  stream, waits for that stream: only timeouts end it.
  `util/inflight_drain.cpp:23` says "Threads that belong to PCCL itself (executor /
  H2H workers) must never drain." (`NcclCompat` with `Scenarios <- SmallBeforeLarge`:
  `EveryCallReturns`.)

Other behaviour the models show, without a document that forbids it: a `submit`
that fails in `prepareUserWait` uses up a sequence number, after which two items
in the queue may share a completion slot and one may lose its doorbell
(`DoorbellKept` therefore speaks of executors without such a failure); if it
fails behind the wait, the user stream is parked (`EveryWaitEnds` excepts this);
a `pcclTimeout` set by a drain is overwritten when the running item finishes.
On Ascend a work that is pushed after its executor failed is run all the same, by
ranks that no longer agree on what they run (`Parted`; without that exception
`NoResetUnderway` and `RegionHeld` are violated).
`AllToAll` of the orchestrator does not publish its input to the PCIe stream
(`PcieReadsProduced` leaves it out); timers of two threads that share a CUDA
stream may be exchanged (`TimersAreOwn`); the pre-allocated staging buffer has no
owner when two streams use a communicator (`ScratchIntact`); the wait for
consumed parameters in the store is implied by its barrier.

## Theorems

Checked by TLAPS for every value of the constants: any number of readers, slices,
slots, ranks, rounds, threads, calls, graphs. Each rests on an inductive invariant
at the head of the module's proofs; `Init` establishes it, every action keeps it,
and it implies the property.

`ChunkFlowProofs`, `SharedBarrierProofs`:

- `TypeCorrect` of both: the type invariants.
- `NoLostAdvance`: `ConsumeCatchesUp`, with late pops and any completion order.
  The invariant is `AdvanceUnderWay`: if all cursors have reached `v`, then
  `consume_progress` has, or some thread inside `advanceReaderDone` still carries
  a minimum of at least `v`. The thread whose cursor reached `v` last is the
  witness, because all cursors it reads afterwards are at least `v`.
  `ConsumeCatchesUp` alone is not inductive: it says nothing while a thread is in
  the middle.
- `RingSafe`, `ConsumeSafe`, `RefinesCreditChannel`: `SliceIntact`,
  `ConsumeBelowReaders` and the refinement, for chunks of kind `DmaChunk` (DMA on
  both sides, no late pop; the first two of the disagreements above show that
  neither condition can be dropped). `RingInv` says that what is in flight is an interval on each side,
  that a carried minimum is below the cursors read so far, that
  `w_next <= consume_progress + Slots`, and that the last `Slots` slices
  submitted are in their slots. The arithmetic core is `SlotsDiffer`: different
  slices at a distance below `Slots` have different slots.
- `BarrierSafe`, `RefinesPromise`: `NobodyEarly` and the refinement, timeouts
  included. `BarrierInv` aligns each rank's arrivals with the generation, says
  that at most one rank closes a round and that nobody arrives meanwhile, and
  that `barrier_count` is the number of ranks that arrived in this round.

`GraphRunProofs`, with `IInv == Rounds /\ Slices /\ Counters`:

- `RefinesPromise`: to the user streams the executors implement `BarrierPromise`.
  `Rounds` relates a rank's program counter to the rounds it has entered and to
  what its stream has seen, and two ranks to each other (`Abreast`): nobody is in
  a collective before all have entered the barrier of the one before.
- `TypeCorrect`: `Slices` accounts for every slice: completed ones and those in a
  lane or in the H2H engine, each in one place, add up to those submitted. That
  is what keeps `completed` within the number of slices; the type invariant alone
  does not know that a completion belongs to a submission.
- `NoReset`: `NoResetUnderway`. A counter that is not zero belongs to a rank whose
  current collective is of that epoch (`CounterOwned`), and with `Abreast` a rank
  that resets collective `k` cannot meet one that runs `k + 2`.

`SubmitQueueProofs`, with `IInv == QueueInv /\ DoorbellInv`:

- `WaitsAreSafe`, `DrainIsSafe`: `PassedOnlyEnded` and `DrainedMeansEnded`, with
  failures at every point. Numbers are queued, served and ended in increasing
  order (`InOrder`); a number whose call has returned is queued, served or ended, and a
  slot holds only numbers that have ended (`Accounted`). So a slot that has reached
  a stream's number has reached it through that item or a later one, and the item
  has ended either way. The type invariant knows nothing of this order.
- `SlotsAreSafe`: `SlotsKept`. While no number is burned, the items under way are
  consecutive (`Dense`) and `reset_stream_` holds the next item of a slot back
  until the stream of the one before has passed (`SlotChain`). A burned number
  breaks both, which is why the property speaks of runs without failed calls.

`SmallMessageProofs`:

- `PathIsAgreed`: `PathAgreed`. Ranks combine the answers of all ranks one slot at
  a time, and a fast rank's next item may already have overwritten the slot a slow
  one has read. The property says nothing about what the slow rank read, so it is
  not inductive. The invariant has, besides types and each rank's indices, that
  whatever stands in a slot or has been combined is an answer given (`Asked`), and
  that there is one table of answers which explains every slot and every partial
  conjunction (`Answered`).

`ParamStoreProofs`, with `IInv == HandOverInv /\ SameCaches /\ SamePlans /\ OneMeasurement`:

- `RefinesPromise`: the sense-reversing barrier in the segment implements
  `BarrierPromise`. All ranks have been let through the same number of barriers
  (`Together`), where a rank that still spins although its sense has come counts
  as let through.
- `PlansAgree`: `SamePlan`. Parameters are read between rank 0's signal and the
  barrier only (`Reading`); with the round's entry taken over, all caches agree
  (`SameCaches`).
- `HandOverCorrect`: `HandOver`. `param_read_count` is the number of ranks still
  behind the last signal; with one collective in flight each rank publishes at
  most one measurement, of the collective rank 0 aggregates (`OneMeasurement`).
- All three assume `"crashed" \notin Leftovers`: the segment is new or was left by
  a clean end. Nothing in the store removes a segment, and after a crash the
  count in the barrier may be anything; see the hazards in `PROJECT.json`.

`SplitCollectiveProofs`:

- `PlanIsExact`: `PlanExact`. `AlignFacts` and `SharePart` bound what `CreatePlan`
  cuts off and rounds up, for every share between 0 and 1000 thousandths, and the
  controllers reach no others. The hypothesis `SizesDivisible` says that the least
  chunk is at least 127 bytes (`AMPCCL_MIN_CHUNK_SIZE` is 4096 if it is not set)
  or all sizes are multiples of 128: with a smaller least chunk, rounding up can
  pass the end of an odd message.
- `InputsAreProduced`: `PcieReadsProduced`, the first half of `StreamsOrdered`, with
  tokens or with the host's wait, for any ring size and with failing submissions.
  `Between` says, for each place between two steps of a virtual collective, what
  the thread has queued so far; `LockInv` that tickets are drawn and published
  under the lock of their context; `TokensInv` and `TicketInv` that a slot of the
  ring holds a ticket only behind the work of its collective, and that a later
  ticket in the same slot satisfies an earlier wait only if the earlier
  collective's work is done as well, because the lock makes tickets grow in stream
  order; `PcieInv` puts the wait in front of every PCIe operation whose input is
  not produced. Where the steps stand in a script is a fact about the scripts
  (`InOrder`, `Rank`), proved once for all virtual collectives.

`SplitCompletionProofs`, with `OwnedInv`, which adds a layer for each theorem:

- `StreamsAreOrdered`: `StreamsOrdered`, whose second half `OutputComplete` says what
  the application's later work finds. Three layers lie between the two. `OverInv` is
  for the end of a collective what `InputInv` is for its beginning: tokens, the wait
  for the end event of a timer, or the host's wait put the PCIe part in front of
  what follows it on the user stream, and a collective that has queued no part has
  none outstanding. `CompletionInv` counts: the records of a stream are as many as
  the callbacks queued on it and the threads that have registered and not yet queued
  theirs (`Counted`), and the record a callback will take is of work that lies
  before it (`RecordInv`). Neither is visible in the property, which only looks at
  the head of a stream. `OutputInv` carries the return value: a call that
  returns success has queued a part (`Promised`), so the application's use of the
  result stands behind one (`ConsumeInv`).
- `CallbacksFindWork`: `CallbackFindsWork`, from `CompletionInv`, for any number of
  threads on one stream. The record a callback takes need not be of the collective
  that queued the callback; the invariant says that it is of one that lies before it.
- `TimersStayOwn`: `TimersAreOwn`. Timers go to the last record of a stream, so the
  invariant (`TimersInv`) is that whoever has registered and not yet attached owns
  the last record, and that all others have their own timers. It needs that nobody
  else registers in between: one thread, or (`Serialised`) an ACL build where every
  collective that reports holds the ticket lock of the one communicator
  (`LockedInv`). Without either the property is false, as two threads of two
  communicators on one stream show.
- `BuffersStayLive`: `BuffersLive`. A buffer that was given back, or whose free is
  queued, is of a collective that is `Spent` from there on: nothing behind it on its
  stream uses the buffer, no record has it, and its thread, if it is still at it, has
  no step left that could queue a use (`FreedInv`). `OwnInv` gives each buffer but the
  pre-allocated ones to one collective, and each collective at most one record.
- `ScratchStaysIntact`: `ScratchIntact`. `ScratchInv` says of every copy out of the
  pre-allocated buffer, whether queued, in a record, or still to be queued by its
  thread, that the last writer of the buffer before it is the operation of
  its own collective, or that the buffer holds that collective's data already
  (`Staged`).
- `ResourcesStayOwned`: `ResourcesOwned`, the four properties above and the types. Its
  hypothesis `SharesGiven` says that initial shares are between 0 and 1000
  thousandths: `GetStaticAlpha` (`O/common/config.h:137-148`) and `InitialAlpha`
  (`O/controller/algo_inverse_proportion.h:113-121`) take no others from the
  environment, and the clamps of the controllers keep what they compute there. Only
  the last conjunct of `TypeOK` needs it; none of the theorems above does.

What the theorems assume of the constants are the `ASSUME`s of the modules:
positive sizes and a finite nonempty set of ranks; `GraphAssumption`: the compiler
lists the keys of its nodes (`ListsItsKeys`, `ir/compiler.cpp:511-614`); `SmallMessageAssumption`:
every call passed `canHandle`; `StoreAssumption`; `PlanAssumption` and
`CollectiveAssumption`: sizes leave room for rounding up in a `size_t`, measured times
are natural numbers; `SubmitAssumption`. TLC evaluates them in every run.

Only model-checked:

- `ResultCorrect` in `GraphRun`, `SmallMessage` and `AscendRun`: that the data is right
  depends on what the compiled graph of an instruction list is, which is recursive
  (`PlanCompiler` and `AscendPlan`), and the proofs take the graphs as they come;
- `CommSetup`, `ProcessSetup`, `NcclCompat` and `AscendRun`;
- all liveness (fairness is outside the prover's reach) and `NobodyStuck` (`ENABLED`).

## Not modelled

See the components in `PROJECT.json`. Kernels and vector code (arithmetic on
data), tracing, logging, topology discovery, the transport stub and symbol lookup
have no protocol to check. Left out of modelled parts: the wait-kernel path of the
completion flags, the cold-start drain, the experimental H2H range path of the
Ascend port, `ncclCommInitAll`, `pcclSubmitIR`, deferred frees, and the shutdown of
H2H workers. Of single operations: in `SmallMessage` the failures of
`prepareUserWait`; in `ParamStore` those of mapping the segment
(`O/core/shm_store.cc:166-207`), the limit on ranks and launches that return before
they register a record (`O/core/virtual_collective.h:243-245`); in
`SplitCollective` the failures of the fast path and of `cudaLaunchHostFunc`
(`stream_host_callback.cc:29-32`), and the time of a PCIe timer that is attached but
never started, which the code takes from the processor's clock (`timer.h:156-169`)
and `Statistics` takes as none, so that the share falls where the code would keep
it. Abstracted: data to contributions, addresses to cells, time to steps
that may happen at any time, the doubles of the controllers to thousandths, hashes
to their arguments, weak memory to sequential consistency.

## Open for proof

Everything that `ChunkFlow`, `SharedBarrier`, `SubmitQueue`, `ParamStore` and
`SplitCollective` state, except liveness, is proved. What could be proved next:

1. `ResultCorrect` of `GraphRun` and `SmallMessage` for graphs given by a recursive function
   instead of recursive operators, from an assumption that states what the compiler
   guarantees of a graph.
2. `ProcessSetup`: `BindsRegistered` from the sequence counter, `PlaceIdentifies`
   from the compare-exchange.
3. `NcclCompat`: `WorkPaired`. `CommSetup`: `CommsIdentified`.
