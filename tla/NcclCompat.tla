----------------------------- MODULE NcclCompat -----------------------------
(***************************************************************************)
(* The NCCL compatibility layer of PCCL: communicators made by             *)
(* ncclCommInitRank and ncclCommSplit, group calls turned into waves of    *)
(* threads, the submission of a collective to one of the two executors of  *)
(* its communicator, and the interposed CUDA calls that drain executors    *)
(* before they take the driver lock.                                       *)
(*                                                                         *)
(* A handle is one rank of one communicator; it belongs to a process.  Its *)
(* works, those of its GraphExecutor and those of its SmallMessageExecutor *)
(* for small messages, stand in one order on the user stream of the device,*)
(* behind those of the device's other communicators.  A work ends when     *)
(* every rank of the communicator has started it.  The timeouts of         *)
(* barriers, queues and drains are not modelled: what only a timeout would *)
(* end is a wait that never ends here.                                     *)
(***************************************************************************)
EXTENDS Integers, Sequences, FiniteSets, FiniteSetsExt

CONSTANTS
  Scenarios,     \* the programs, the mode, peer access, the small-message path
  QueueDepth     \* PCCL_EXECUTOR_QUEUE_DEPTH

ASSUME CompatAssumption == QueueDepth \in Nat \ {0}

VARIABLES
  scenario,
  ip, pc, result,             \* each thread: position, step, results of its calls
  t_group_depth, t_group_ops, \* each thread: the group it is collecting
  wave,                       \* each thread: the submissions under way
  comm_id, split_seq,         \* each handle: its communicator, splits made of it
  comm_count, initialized,    \* each process: communicators counted; processes set up
  registry,                   \* handles whose executor exists
  arrived, gen,               \* the barrier of each communicator
  prepared, pushed,           \* each handle: waits on the user stream, works queued
  started, done,              \* each handle: works taken up, works completed
  work,                       \* each handle: what its works are
  user_stream,                \* each process and device: the handles whose works its stream waits for
  synced,                     \* each handle: works whose device operations are known to be over
  small_pc, small_drain,      \* each handle's small-message thread: step, executors to drain
  to_drain, driver            \* each thread: executors to drain; each process: the driver lock

program == <<scenario>>
position == <<ip, pc, result>>
group == <<t_group_depth, t_group_ops>>
comms == <<comm_id, split_seq, comm_count, initialized, registry>>
barrier == <<arrived, gen>>
queued == <<prepared, pushed, work>>
executor == <<queued, started, done, user_stream, synced>>
small == <<small_pc, small_drain>>
shim == <<small, to_drain, driver>>
vars == <<program, position, group, wave, comms, barrier, executor, shim>>

ThreadIds == 1..3               \* bound on the user threads of a scenario
MaxWave == 3                    \* bound on the operations of a wave

Threads == DOMAIN scenario.prog
Handles == DOMAIN scenario.rank
Procs == {scenario.home[t] : t \in Threads}
HandleIds == UNION {DOMAIN s.rank : s \in Scenarios}
ProcOf(h) == scenario.proc[h]
Op(t) == scenario.prog[t][ip[t]]
At(t, label) == t \in Threads /\ ip[t] <= Len(scenario.prog[t]) /\ pc[t] = label
NoId == <<"none">>
NoLock == 0
Size(h) == scenario.size[h]
Peers(h) == {g \in Handles : comm_id[g] = comm_id[h]}
Stream(h) == <<ProcOf(h), scenario.rank[h]>>
Registered(p) == {h \in registry : ProcOf(h) = p}

(* The mode is forced by the environment or taken to be multi-process.     *)
detectCompatMultiProcessByRankPids(h) == scenario.mode # "sp" /\ Size(h) > 1

(* what the small-message path takes: canHandle, and all ranks have it *)
canHandle(h, op) == scenario.fastpath /\ detectCompatMultiProcessByRankPids(h) /\ op = "smallreduce"

(* the works in the queue or the hands of one of a handle's executors *)
Inflight(h, fast) == {k \in done[h] + 1 .. pushed[h] : canHandle(h, work[h][k][1]) = fast}

(* mutant: forgets the work the executor is busy with *)
HasInflight_QueueOnly(h) == \E k \in Inflight(h, FALSE) : k > started[h]

(* of the GraphExecutor, the only one that is registered *)
HasInflight(h) == Inflight(h, FALSE) # {}
Goto(t, label) == pc' = [pc EXCEPT ![t] = label]
Return(t, ret) ==
  /\ ip' = [ip EXCEPT ![t] = @ + 1]
  /\ pc' = [pc EXCEPT ![t] = "call"]
  /\ result' = [result EXCEPT ![t] = Append(@, ret)]

Init ==
  /\ scenario \in Scenarios
  /\ ip = [t \in Threads |-> 1]
  /\ pc = [t \in Threads |-> "call"]
  /\ result = [t \in Threads |-> <<>>]
  /\ t_group_depth = [t \in Threads |-> 0]
  /\ t_group_ops = [t \in Threads |-> <<>>]
  /\ wave = [t \in Threads |-> <<>>]
  /\ comm_id = [h \in Handles |-> NoId]
  /\ split_seq = [h \in Handles |-> 0]
  /\ comm_count = [p \in Procs |-> 0]
  /\ initialized = {}
  /\ registry = {}
  /\ arrived = <<>>
  /\ gen = <<>>
  /\ prepared = [h \in Handles |-> 0]
  /\ pushed = [h \in Handles |-> 0]
  /\ started = [h \in Handles |-> 0]
  /\ done = [h \in Handles |-> 0]
  /\ work = [h \in Handles |-> <<>>]
  /\ user_stream = [st \in {Stream(h) : h \in Handles} |-> <<>>]
  /\ synced = [h \in Handles |-> 0]
  /\ small_pc = [h \in Handles |-> "run"]
  /\ small_drain = [h \in Handles |-> {}]
  /\ to_drain = [t \in Threads |-> {}]
  /\ driver = [p \in Procs |-> NoLock]

(***************************************************************************)
(* Communicators.  Only in multi-process mode do the ranks meet while they *)
(* are set up.                                                             *)
(***************************************************************************)
Join(t, h, id) ==
  /\ comm_id' = [comm_id EXCEPT ![h] = id]
  /\ Goto(t, "meet")

ncclCommInitRank(t) ==
  /\ At(t, "call") /\ Op(t).call = "init"
  /\ Join(t, Op(t).h, Op(t).id)
  /\ UNCHANGED <<program, ip, result, group, wave, split_seq, comm_count, initialized, registry, barrier, executor, shim>>

(* mutant: the sequence number of the parent is read, not advanced *)
ncclCommSplit_SameSeq(t) ==
  /\ At(t, "call") /\ Op(t).call = "split" /\ Op(t).color >= 0
  /\ Join(t, Op(t).h, <<comm_id[Op(t).parent], 1, Op(t).color>>)
  /\ UNCHANGED <<program, ip, result, group, wave, split_seq, comm_count, initialized, registry, barrier, executor, shim>>

(* the child has the parent's ranks, whatever the colors of the others *)
ncclCommSplit(t) ==
  /\ At(t, "call") /\ Op(t).call = "split" /\ Op(t).color >= 0
  /\ split_seq' = [split_seq EXCEPT ![Op(t).parent] = @ + 1]
  /\ Join(t, Op(t).h, <<comm_id[Op(t).parent], split_seq'[Op(t).parent], Op(t).color>>)
  /\ UNCHANGED <<program, ip, result, group, wave, comm_count, initialized, registry, barrier, executor, shim>>

(* NCCL_SPLIT_NOCOLOR: no communicator, and the sequence number stays *)
SplitNoColor(t) ==
  /\ At(t, "call") /\ Op(t).call = "split" /\ Op(t).color < 0
  /\ Return(t, "success")
  /\ UNCHANGED <<program, group, wave, comms, barrier, executor, shim>>

(* In single-process mode every communicator has the comm_id 0, and so the *)
(* barriers of all the others.                                             *)
BarrierOf(h) == IF detectCompatMultiProcessByRankPids(h) THEN comm_id[h] ELSE <<"0">>

(* pcclCommInitRank returns: the executor exists, the communicator counts. *)
(* In multi-process mode the ranks have met, and the first communicator of *)
(* a process has met one process for each rank.                            *)
pcclCommInitRank(t) ==
  /\ At(t, "meet")
  /\ LET h == Op(t).h p == ProcOf(h) IN
       /\ detectCompatMultiProcessByRankPids(h) =>
            /\ Cardinality(Peers(h)) = Size(h)
            /\ p \notin initialized => Cardinality({ProcOf(g) : g \in Peers(h)}) = Size(h)
       /\ registry' = registry \cup {h}
       /\ comm_count' = [comm_count EXCEPT ![p] = @ + 1]
       /\ arrived' = [i \in DOMAIN arrived \cup {BarrierOf(h)} |-> IF i \in DOMAIN arrived THEN arrived[i] ELSE 0]
       /\ gen' = [i \in DOMAIN gen \cup {BarrierOf(h)} |-> IF i \in DOMAIN gen THEN gen[i] ELSE 0]
       /\ initialized' = initialized \cup {p}
  /\ Return(t, "success")
  /\ UNCHANGED <<program, group, wave, comm_id, split_seq, executor, shim>>

(***************************************************************************)
(* Groups.                                                                 *)
(***************************************************************************)
ncclGroupStart(t) ==
  /\ At(t, "call") /\ Op(t).call = "start"
  /\ t_group_depth' = [t_group_depth EXCEPT ![t] = @ + 1]
  /\ t_group_ops' = IF t_group_depth[t] = 0 THEN [t_group_ops EXCEPT ![t] = <<>>] ELSE t_group_ops
  /\ Return(t, "success")
  /\ UNCHANGED <<program, wave, comms, barrier, executor, shim>>

(* mutant: an operation may join a wave that has one of its rank *)
StartsNextWave_RanksRepeat(ops, i) ==
  \/ ops[i].op # ops[1].op
  \/ Size(ops[i].h) # Size(ops[1].h)
  \/ i > Size(ops[1].h)

(* operation i of ops cannot run with the ones before it *)
StartsNextWave(ops, i) ==
  \/ ops[i].op # ops[1].op
  \/ Size(ops[i].h) # Size(ops[1].h)
  \/ \E j \in 1..i - 1 : scenario.rank[ops[j].h] = scenario.rank[ops[i].h]
  \/ i > Size(ops[1].h)

WaveEnd(ops) == Min({i \in 2..Len(ops) : StartsNextWave(ops, i)} \cup {Len(ops) + 1}) - 1

Job(o) == [op |-> o.op, buf |-> o.buf, h |-> o.h, at |-> "submit", gen |-> 0]

(* runPendingWave: one thread for each operation of the next wave *)
RunWave(t, ops) ==
  /\ wave' = [wave EXCEPT ![t] = [i \in 1..WaveEnd(ops) |-> Job(ops[i])]]
  /\ t_group_ops' = [t_group_ops EXCEPT ![t] = SubSeq(ops, WaveEnd(ops) + 1, Len(ops))]
  /\ Goto(t, "join")
  /\ UNCHANGED <<program, ip, result, comms, barrier, executor, shim>>

GroupNothing(t) ==
  /\ At(t, "call") /\ Op(t).call = "end"
  /\ \/ /\ t_group_depth[t] = 0
        /\ Return(t, "invalid usage")
        /\ UNCHANGED group
     \/ /\ t_group_depth[t] > 1 \/ (t_group_depth[t] = 1 /\ t_group_ops[t] = <<>>)
        /\ t_group_depth' = [t_group_depth EXCEPT ![t] = @ - 1]
        /\ Return(t, "success")
        /\ UNCHANGED t_group_ops
  /\ UNCHANGED <<program, wave, comms, barrier, executor, shim>>

ncclGroupEnd(t) ==
  /\ At(t, "call") /\ Op(t).call = "end"
  /\ t_group_depth[t] = 1 /\ t_group_ops[t] # <<>>
  /\ t_group_depth' = [t_group_depth EXCEPT ![t] = 0]
  /\ RunWave(t, t_group_ops[t])

(* all threads of the wave are joined: the next wave, or the end *)
NextWave(t) ==
  /\ At(t, "join")
  /\ \A i \in DOMAIN wave[t] : wave[t][i].at = "done"
  /\ t_group_ops[t] # <<>> /\ Op(t).call = "end"
  /\ RunWave(t, t_group_ops[t])
  /\ UNCHANGED t_group_depth

WaveReturns(t) ==
  /\ At(t, "join")
  /\ \A i \in DOMAIN wave[t] : wave[t][i].at \in {"done", "failed"}
  /\ LET bad == \E i \in DOMAIN wave[t] : wave[t][i].at = "failed" IN
       /\ bad \/ t_group_ops[t] = <<>> \/ Op(t).call = "coll"
       /\ Return(t, IF bad THEN "error" ELSE "success")
  /\ wave' = [wave EXCEPT ![t] = <<>>]
  /\ t_group_ops' = IF Op(t).call = "end" THEN [t_group_ops EXCEPT ![t] = <<>>] ELSE t_group_ops
  /\ UNCHANGED <<program, t_group_depth, comms, barrier, executor, shim>>

(***************************************************************************)
(* Collective calls.  In a group they are kept for its end.                *)
(***************************************************************************)
Valid == {"allreduce", "allgather", "smallreduce", "missing"}

(* ncclReduce, a data type or an operator that is not supported *)
Refused(t) ==
  /\ At(t, "call") /\ Op(t).call = "coll" /\ Op(t).op \notin Valid
  /\ Return(t, "error")
  /\ UNCHANGED <<program, group, wave, comms, barrier, executor, shim>>

(* an all-gather on a communicator of one rank is done at once, in a group *)
(* or not                                                                  *)
AtOnce(t) == t_group_depth[t] = 0 \/ (Op(t).op = "allgather" /\ Size(Op(t).h) = 1)

Deferred(t) ==
  /\ At(t, "call") /\ Op(t).call = "coll" /\ Op(t).op \in Valid
  /\ ~AtOnce(t)
  /\ t_group_ops' = [t_group_ops EXCEPT ![t] = Append(@, [op |-> Op(t).op, buf |-> Op(t).buf, h |-> Op(t).h])]
  /\ Return(t, "success")
  /\ UNCHANGED <<program, t_group_depth, wave, comms, barrier, executor, shim>>

ncclAllReduce(t) ==
  /\ At(t, "call") /\ Op(t).call = "coll" /\ Op(t).op \in Valid
  /\ AtOnce(t)
  /\ wave' = [wave EXCEPT ![t] = <<Job(Op(t))>>]
  /\ Goto(t, "join")
  /\ UNCHANGED <<program, ip, result, group, comms, barrier, executor, shim>>

(***************************************************************************)
(* submitCollective, run by thread i of a wave.                            *)
(***************************************************************************)
JobAt(t, i, label) == t \in Threads /\ i \in DOMAIN wave[t] /\ wave[t][i].at = label
Step(t, i, label) == wave' = [wave EXCEPT ![t][i].at = label]

(* no plan for the collective *)
SubmitFails(t, i) ==
  /\ JobAt(t, i, "submit") /\ wave[t][i].op = "missing"
  /\ Step(t, i, "failed")
  /\ UNCHANGED <<program, position, group, comms, barrier, executor, shim>>

(* runSingleRankCollective: a copy on the user stream *)
runSingleRankCollective(t, i) ==
  /\ JobAt(t, i, "submit") /\ wave[t][i].op # "missing"
  /\ LET h == wave[t][i].h IN
       /\ Size(h) = 1
       /\ driver[ProcOf(h)] = NoLock
       /\ prepared' = [prepared EXCEPT ![h] = @ + 1]
       /\ pushed' = [pushed EXCEPT ![h] = @ + 1]
       /\ started' = [started EXCEPT ![h] = @ + 1]
       /\ done' = [done EXCEPT ![h] = @ + 1]
       /\ synced' = [synced EXCEPT ![h] = @ + 1]
       /\ work' = [work EXCEPT ![h] = Append(@, <<wave[t][i].op, wave[t][i].buf>>)]
  /\ Step(t, i, "done")
  /\ UNCHANGED <<program, position, group, comms, barrier, user_stream, shim>>

(* the small-message path, tried first *)
SubmitSmall(t, i) ==
  /\ JobAt(t, i, "submit") /\ canHandle(wave[t][i].h, wave[t][i].op)
  /\ Step(t, i, "prepare")
  /\ UNCHANGED <<program, position, group, comms, barrier, executor, shim>>

(* The way to the GraphExecutor first waits until the small-message one is *)
(* idle.  With plans that access peers the ranks meet before buffers are   *)
(* bound.                                                                  *)
submitCollective(t, i) ==
  /\ JobAt(t, i, "submit") /\ wave[t][i].op # "missing" /\ Size(wave[t][i].h) > 1
  /\ ~canHandle(wave[t][i].h, wave[t][i].op)
  /\ Inflight(wave[t][i].h, TRUE) = {}
  /\ LET id == BarrierOf(wave[t][i].h) parties == Size(wave[t][i].h) IN
       \/ /\ ~scenario.remote_d2d
          /\ Step(t, i, "prepare")
          /\ UNCHANGED barrier
       \/ /\ scenario.remote_d2d /\ arrived[id] + 1 = parties
          /\ arrived' = [arrived EXCEPT ![id] = 0]
          /\ gen' = [gen EXCEPT ![id] = @ + 1]
          /\ Step(t, i, "prepare")
       \/ /\ scenario.remote_d2d /\ arrived[id] + 1 < parties
          /\ arrived' = [arrived EXCEPT ![id] = @ + 1]
          /\ wave' = [wave EXCEPT ![t][i].at = "barrier", ![t][i].gen = gen[id]]
          /\ UNCHANGED gen
  /\ UNCHANGED <<program, position, group, comms, executor, shim>>

PassBarrier(t, i) ==
  /\ JobAt(t, i, "barrier")
  /\ gen[BarrierOf(wave[t][i].h)] > wave[t][i].gen
  /\ Step(t, i, "prepare")
  /\ UNCHANGED <<program, position, group, comms, barrier, executor, shim>>

(* submit of either executor holds its submit_mutex_ from here to          *)
(* PushWork; the wait on the user stream is a driver call                  *)
PrepareUserWait(t, i) ==
  /\ JobAt(t, i, "prepare")
  /\ LET h == wave[t][i].h IN
       /\ prepared[h] = pushed[h]
       /\ Cardinality(Inflight(h, canHandle(h, wave[t][i].op))) < QueueDepth
       /\ driver[ProcOf(h)] = NoLock
       /\ prepared' = [prepared EXCEPT ![h] = @ + 1]
       /\ work' = [work EXCEPT ![h] = Append(@, <<wave[t][i].op, wave[t][i].buf>>)]
       /\ user_stream' = [user_stream EXCEPT ![Stream(h)] = Append(@, h)]
  /\ Step(t, i, "push")
  /\ UNCHANGED <<program, position, group, comms, barrier, pushed, started, done, synced, shim>>

PushWork(t, i) ==
  /\ JobAt(t, i, "push")
  /\ pushed' = [pushed EXCEPT ![wave[t][i].h] = @ + 1]
  /\ Step(t, i, "done")
  /\ UNCHANGED <<program, position, group, comms, barrier, prepared, started, done, work, user_stream, synced,
                 shim>>

(***************************************************************************)
(* The executor threads of a handle; what they do on the device needs the  *)
(* driver lock.  The end of a work releases the user stream.               *)
(***************************************************************************)
(* A work is taken up when the user stream has got to it (its doorbell).   *)
StartWork(h) ==
  /\ h \in Handles /\ h \in registry
  /\ started[h] = done[h] /\ started[h] < pushed[h]
  /\ Head(user_stream[Stream(h)]) = h
  /\ started' = [started EXCEPT ![h] = @ + 1]
  /\ synced' = IF Inflight(h, FALSE) \cap {started'[h]} # {} THEN [synced EXCEPT ![h] = @ + 1] ELSE synced
  /\ UNCHANGED <<program, position, group, wave, comms, barrier, queued, done, user_stream, shim>>

AllStarted(h) == Cardinality(Peers(h)) = Size(h) /\ \A g \in Peers(h) : started[g] >= started[h]

(* The small-message thread ends its copies with a cudaStreamSynchronize.  *)
(* It has not been marked as internal: it drains like a user's thread.     *)
SmallSynchronizes(h) ==
  /\ h \in Handles /\ synced[h] < started[h] /\ small_pc[h] = "run"
  /\ AllStarted(h)
  /\ small_drain' = [small_drain EXCEPT ![h] = Registered(ProcOf(h))]
  /\ small_pc' = [small_pc EXCEPT ![h] = "drain"]
  /\ UNCHANGED <<program, position, group, wave, comms, barrier, executor, to_drain, driver>>

SmallDrains(h) ==
  /\ h \in Handles /\ small_pc[h] = "drain"
  /\ \E g \in small_drain[h] : ~HasInflight(g) /\ small_drain' = [small_drain EXCEPT ![h] = @ \ {g}]
  /\ UNCHANGED <<program, position, group, wave, comms, barrier, executor, small_pc, to_drain, driver>>

SmallSynchronized(h) ==
  /\ h \in Handles /\ small_pc[h] = "drain" /\ small_drain[h] = {}
  /\ driver[ProcOf(h)] = NoLock
  /\ synced' = [synced EXCEPT ![h] = @ + 1]
  /\ small_pc' = [small_pc EXCEPT ![h] = "run"]
  /\ UNCHANGED <<program, position, group, wave, comms, barrier, queued, started, done, user_stream, small_drain,
                 to_drain, driver>>

(* after the barrier of the ranks *)
FinishWork(h) ==
  /\ h \in Handles /\ done[h] < started[h]
  /\ driver[ProcOf(h)] = NoLock
  /\ AllStarted(h) /\ \A g \in Peers(h) : synced[g] >= started[h]
  /\ done' = [done EXCEPT ![h] = @ + 1]
  /\ user_stream' = [user_stream EXCEPT ![Stream(h)] = Tail(@)]
  /\ UNCHANGED <<program, position, group, wave, comms, barrier, queued, started, synced, shim>>

(***************************************************************************)
(* A CUDA call that blocks the host until its device is idle.              *)
(***************************************************************************)
(* mutant: enters the driver at once *)
cudaStreamSynchronize_NotDrained(t) ==
  /\ At(t, "call") /\ Op(t).call = "sync"
  /\ Goto(t, "drain")
  /\ UNCHANGED <<program, ip, result, group, wave, comms, barrier, executor, shim>>

(* the interposer takes a snapshot of the registry *)
cudaStreamSynchronize(t) ==
  /\ At(t, "call") /\ Op(t).call = "sync"
  /\ to_drain' = [to_drain EXCEPT ![t] = Registered(scenario.home[t])]
  /\ Goto(t, "drain")
  /\ UNCHANGED <<program, ip, result, group, wave, comms, barrier, executor, small, driver>>

inflightDrainAll(t) ==
  /\ At(t, "drain")
  /\ \E h \in to_drain[t] :
       /\ ~HasInflight(h)
       /\ to_drain' = [to_drain EXCEPT ![t] = @ \ {h}]
  /\ UNCHANGED <<program, position, group, wave, comms, barrier, executor, small, driver>>

EnterDriver(t) ==
  /\ At(t, "drain") /\ to_drain[t] = {}
  /\ driver[scenario.home[t]] = NoLock
  /\ driver' = [driver EXCEPT ![scenario.home[t]] = t]
  /\ Goto(t, "driver")
  /\ UNCHANGED <<program, ip, result, group, wave, comms, barrier, executor, small, to_drain>>

(* the waits on the stream of the device have been released *)
LeaveDriver(t) ==
  /\ At(t, "driver")
  /\ user_stream[<<scenario.home[t], Op(t).device>>] = <<>>
  /\ driver' = [driver EXCEPT ![scenario.home[t]] = NoLock]
  /\ Return(t, "success")
  /\ UNCHANGED <<program, group, wave, comms, barrier, executor, small, to_drain>>

(***************************************************************************)
(* ncclCommDestroy: both executors are drained, the one that is registered *)
(* is unregistered, and the last communicator of the process takes PCCL    *)
(* down.                                                                   *)
(***************************************************************************)
ncclCommDestroy(t) ==
  /\ At(t, "call") /\ Op(t).call = "destroy"
  /\ pushed[Op(t).h] = done[Op(t).h]
  /\ registry' = registry \ {Op(t).h}
  /\ Goto(t, "uncount")
  /\ UNCHANGED <<program, ip, result, group, wave, comm_id, split_seq, comm_count, initialized, barrier, executor, shim>>

(* mutant: finalizes when one communicator is left *)
AutoFinalize_OneLeft(t) ==
  /\ At(t, "uncount")
  /\ LET p == scenario.home[t] IN
       /\ comm_count' = [comm_count EXCEPT ![p] = @ - 1]
       /\ initialized' = IF comm_count'[p] <= 1 THEN initialized \ {p} ELSE initialized
  /\ Return(t, "success")
  /\ UNCHANGED <<program, group, wave, comm_id, split_seq, registry, barrier, executor, shim>>

AutoFinalize(t) ==
  /\ At(t, "uncount")
  /\ LET p == scenario.home[t] IN
       /\ comm_count' = [comm_count EXCEPT ![p] = @ - 1]
       /\ initialized' = IF comm_count[p] = 1 THEN initialized \ {p} ELSE initialized
  /\ Return(t, "success")
  /\ UNCHANGED <<program, group, wave, comm_id, split_seq, registry, barrier, executor, shim>>

Finished == \A t \in Threads : ip[t] > Len(scenario.prog[t])

ThreadStep(t) ==
  \/ ncclCommInitRank(t) \/ ncclCommSplit(t) \/ SplitNoColor(t) \/ pcclCommInitRank(t)
  \/ ncclGroupStart(t) \/ GroupNothing(t) \/ ncclGroupEnd(t) \/ NextWave(t) \/ WaveReturns(t)
  \/ Refused(t) \/ Deferred(t) \/ ncclAllReduce(t)
  \/ cudaStreamSynchronize(t) \/ inflightDrainAll(t) \/ EnterDriver(t) \/ LeaveDriver(t)
  \/ ncclCommDestroy(t) \/ AutoFinalize(t)

WaveStep(t, i) ==
  \/ SubmitFails(t, i) \/ runSingleRankCollective(t, i) \/ SubmitSmall(t, i) \/ submitCollective(t, i) \/ PassBarrier(t, i)
  \/ PrepareUserWait(t, i) \/ PushWork(t, i)

ExecutorStep(h) ==
  StartWork(h) \/ SmallSynchronizes(h) \/ SmallDrains(h) \/ SmallSynchronized(h) \/ FinishWork(h)

Next ==
  \/ \E t \in ThreadIds : ThreadStep(t)
  \/ \E t \in ThreadIds, i \in 1..MaxWave : WaveStep(t, i)
  \/ \E h \in HandleIds : ExecutorStep(h)

Fairness ==
  /\ \A t \in ThreadIds : WF_vars(ThreadStep(t))
  /\ \A t \in ThreadIds, i \in 1..MaxWave : WF_vars(WaveStep(t, i))
  /\ \A h \in HandleIds : WF_vars(ExecutorStep(h))

Spec == Init /\ [][Next]_vars /\ Fairness

-----------------------------------------------------------------------------
(* The variables have their types; the works of a handle pass through the  *)
(* stages of its executors in order, never more than a queue holds, and    *)
(* no wave has two threads submitting to one executor.                     *)
TypeOK ==
  /\ \A t \in Threads :
       /\ pc[t] \in {"call", "meet", "join", "drain", "driver", "uncount"}
       /\ t_group_depth[t] \in Nat
       /\ Len(wave[t]) <= MaxWave
       /\ \A i \in DOMAIN wave[t] : wave[t][i].at \in {"submit", "barrier", "prepare", "push", "done", "failed"}
       /\ to_drain[t] \subseteq Handles
  /\ \A h \in Handles :
       /\ 0 <= done[h] /\ done[h] <= started[h] /\ started[h] <= pushed[h] /\ pushed[h] <= prepared[h]
       /\ started[h] <= done[h] + 1 /\ prepared[h] <= pushed[h] + 1
       /\ done[h] <= synced[h] /\ synced[h] <= started[h]
       /\ \A fast \in BOOLEAN : Cardinality(Inflight(h, fast)) <= QueueDepth
       /\ Len(work[h]) = prepared[h]
  /\ \A p \in Procs : comm_count[p] >= Cardinality(Registered(p)) /\ driver[p] \in {NoLock} \cup Threads
  /\ registry \subseteq Handles /\ initialized \subseteq Procs

(* The k-th work of the ranks of a communicator is one collective on the   *)
(* buffers that belong together: group ends in several threads and         *)
(* processes, waves of concurrent submissions (runPendingWave) and errors  *)
(* that drop the rest of a group never pair two different calls.           *)
SameWork ==
  \A h \in Handles : comm_id[h] # NoId =>
    \A g \in Peers(h) : \A k \in DOMAIN work[h] \cap DOMAIN work[g] : work[h][k] = work[g][k]

(* Ranks meet in a communicator only when the program made that            *)
(* communicator for them: the names ncclCommSplit derives tell splits of   *)
(* one parent apart.                                                       *)
CommIdentifies ==
  \A g, h \in Handles : comm_id[g] # NoId /\ comm_id[g] = comm_id[h] => scenario.made[g] = scenario.made[h]

(* ncclCommDestroy finalizes PCCL only when the process has no executor    *)
(* left.                                                                   *)
FinalizedWithoutExecutors == \A h \in registry : ProcOf(h) \in initialized

(* However the calls are grouped and spread over threads and processes,    *)
(* ranks meet in the communicator and in the collective that the program   *)
(* meant, and no executor outlives the library.                            *)
WorkPaired == TypeOK /\ SameWork /\ CommIdentifies /\ FinalizedWithoutExecutors

(* A thread that holds the driver lock in a blocking call waits for no     *)
(* stream: the drain before it (inflightDrainAll) has seen every work that *)
(* was submitted to its device end.  The drain knows of no small-message   *)
(* executor: of programs that block with such a work in flight this is     *)
(* false.                                                                  *)
DriverNeverWaits ==
  \A t \in Threads : pc[t] = "driver" => user_stream[<<scenario.home[t], Op(t).device>>] = <<>>

(* Every call of every thread returns, the blocking ones too.              *)
EveryCallReturns == <>Finished
====
