-------------------------- MODULE SplitCollective --------------------------
(***************************************************************************)
(* One process of a job that runs collectives through the orchestrator.    *)
(* VirtualCollective splits each of them between the fast network, on the  *)
(* stream the application names, and the PCIe library, on a stream of the  *)
(* communicator; tokens in device memory, or the host and events, order    *)
(* the two streams; a host callback at the end of the application's stream *)
(* takes the record of the collective, finishes staged results and reports *)
(* the times.  Host threads submit while the device executes: every        *)
(* enqueue and every device operation is a step of its own.                *)
(***************************************************************************)
EXTENDS SplitPlan, Sequences, FiniteSets

CONSTANTS
  Programs,      \* what the host threads do, and the build they run in
  RingSize       \* kRingSize of ValueSyncContext

(* A program: calls[t] are the collectives of thread t, each with its      *)
(* operation, its stream, its size and the bucket of the size; domain[t]   *)
(* is the communicator of the thread; acl: device tokens exist; v: the     *)
(* fast library has variable counts; scratch: the pre-allocated staging    *)
(* buffer is large enough; log: unsplit collectives are reported too;      *)
(* sync: the host waits for the PCIe stream before the callback; measure:  *)
(* feedback is on; algorithm, alpha: what AlgoFactory creates, and the     *)
(* initial share; warm: its first two samples are past; times: what timers *)
(* may show; failures: what may go wrong.                                  *)
ASSUME CollectiveAssumption ==
  /\ RingSize \in Nat \ {0}
  /\ \A p \in Programs : DOMAIN p.domain = DOMAIN p.calls
  /\ \A p \in Programs : \A t \in DOMAIN p.calls : \A i \in DOMAIN p.calls[t] :
       /\ p.calls[t][i].bucket = BucketBytes(p.calls[t][i].bytes)
       /\ p.calls[t][i].bytes \in 0 .. SizeModulus - 256
       /\ p.calls[t][i].op \in {"AllReduce", "AllGather", "ReduceScatter", "AllToAll"}
  /\ \A p \in Programs : \A t \in DOMAIN p.calls :
       p.calls[t] \in Seq({p.calls[t][i] : i \in DOMAIN p.calls[t]}) \ {<<>>}
  /\ \A p \in Programs :
       /\ p.algorithm \in {"static", "inverse", "ratio"} /\ p.alpha \in Int /\ p.times \subseteq Nat

VARIABLES
  program,
  todo, index, ticket, plan, ok,         \* each host thread: steps left, its call, ticket, plan, PCIe result
  buffer,                                \* and the staging buffer of its call
  stream,                                \* what is queued on each stream
  lock, sequence, token,                 \* value-sync contexts
  pending,                               \* DomainManager: records by stream
  happened,                              \* what the device has done for a collective
  holder, freed,                         \* staging buffers: last collective written, freed ones
  algo, param                            \* controller and parameter cache

host == <<todo, index, ticket, plan, ok, buffer>>
sync == <<lock, sequence, token>>
device == <<happened, holder>>
feedback == <<algo, param>>
vars == <<program, host, stream, sync, pending, device, freed, feedback>>

Threads == DOMAIN program.calls
Domains == {program.domain[t] : t \in Threads}
UserStreams == UNION {{program.calls[t][i].stream : i \in DOMAIN program.calls[t]} : t \in Threads}
PcieStream(t) == <<"pcie", program.domain[t]>>
Streams == UserStreams \cup {PcieStream(t) : t \in Threads}
Colls == UNION {{<<t, i>> : i \in DOMAIN program.calls[t]} : t \in Threads}
Call(c) == program.calls[c[1]][c[2]]
Current(t) == <<t, index[t]>>
Stream(t) == Call(Current(t)).stream
Ctx(t) == <<program.domain[t], Stream(t)>>
Contexts == Domains \X UserStreams
NoTicket == 0
Pool(t) == <<"pool", program.domain[t]>>
Own(c) == <<"own", c>>
None == <<"none">>
(* OpKey: what the controller and the parameter cache tell apart *)
OpKey(c) == <<program.domain[c[1]], Call(c).op, ParamBytes(Call(c))>>
OpKeys == {OpKey(c) : c \in Colls}
Nobody == <<0, 0>>

Init ==
  /\ program \in Programs
  /\ todo = [t \in Threads |-> <<"call">>]
  /\ index = [t \in Threads |-> 1]
  /\ ticket = [t \in Threads |-> NoTicket]
  /\ plan = [t \in Threads |-> FastOnlyPlan(0)]
  /\ ok = [t \in Threads |-> TRUE]
  /\ buffer = [t \in Threads |-> None]
  /\ stream = [s \in Streams |-> <<>>]
  /\ lock = [x \in Contexts |-> FALSE]
  /\ sequence = [x \in Contexts |-> 1]
  /\ token = [x \in Contexts |-> [input |-> [k \in 0..RingSize - 1 |-> 0],
                                  done  |-> [k \in 0..RingSize - 1 |-> 0]]]
  /\ pending = [s \in UserStreams |-> <<>>]
  /\ happened = [c \in Colls |-> {}]
  /\ holder = [d \in Domains |-> Nobody]
  /\ freed = {}
  /\ algo = [k \in OpKeys |-> NewAlgo(program.algorithm, program.alpha, IF program.warm THEN 2 ELSE 0)]
  /\ param = [k \in OpKeys |-> IF program.warm THEN [Unknown EXCEPT !.cached = TRUE, !.alpha = program.alpha]
                               ELSE Unknown]

-----------------------------------------------------------------------------
(* The order of the host's steps in each collective *)

(* Mutation: the callback is queued before its record is registered. *)
Notify_CallbackFirst == <<"callback", "register", "attach">>
Notify == <<"register", "attach", "callback">>
Finish == <<"write_done", "wait_done", "sync_pcie">>
FastOnly == IF program.log THEN <<"fast">> \o Notify ELSE <<"fast">>

(* AllGatherV and its like: the fast library writes into place *)
SplitInPlace == <<"begin", "input", "input_wait", "fast", "pcie">> \o Finish \o Notify

PcieOnly == <<"begin", "input", "input_wait", "pcie">> \o Finish \o Notify

AllReduce(p) == IF p.fast > 0 THEN SplitInPlace ELSE PcieOnly

(* Mutation: the merge is queued before the fast part that fills the buffer. *)
AllGatherStaged_MergesFirst ==
  <<"alloc", "begin", "input", "input_wait", "merge", "fast", "pcie">> \o Finish \o Notify

AllGatherStaged ==
  <<"alloc", "begin", "input", "input_wait", "fast", "pcie">> \o Finish \o <<"merge">> \o Notify

AllGather(p) ==
  IF p.fast = 0 THEN PcieOnly ELSE IF program.v THEN SplitInPlace ELSE AllGatherStaged

ReduceScatterStaged ==
  <<"alloc", "begin", "input", "input_wait", "pack", "fast", "pcie">> \o Finish \o Notify

ReduceScatter(p) ==
  IF p.fast = 0 THEN PcieOnly ELSE IF program.v THEN SplitInPlace ELSE ReduceScatterStaged

AllToAllPcie == <<"begin", "pcie">> \o Finish \o Notify
AllToAllV == <<"fast", "begin", "pcie">> \o Finish \o Notify
AllToAllStaged == <<"alloc", "pack", "fast", "begin", "pcie">> \o Finish \o Notify

AllToAll(p) ==
  IF p.fast = 0 THEN AllToAllPcie ELSE IF program.v THEN AllToAllV ELSE AllToAllStaged

StepsOf(op, p) ==
  IF ~p.use_pcie \/ p.pcie = 0 THEN FastOnly
  ELSE CASE op = "AllReduce" -> AllReduce(p)
         [] op = "AllGather" -> AllGather(p)
         [] op = "ReduceScatter" -> ReduceScatter(p)
         [] op = "AllToAll" -> AllToAll(p)

(* Whose fast part needs a later copy out of the staging buffer *)
MergedOnStream(c) == Call(c).op = "AllGather"
MergedByCallback(c) == Call(c).op = "AllToAll"

-----------------------------------------------------------------------------
(* Host threads *)

at(t, step) == todo[t] # <<>> /\ Head(todo[t]) = step
next(t) == todo' = [todo EXCEPT ![t] = Tail(@)]
enqueue(s, op) == stream' = [stream EXCEPT ![s] = Append(@, op)]
item(kind, t) == [kind |-> kind, coll |-> Current(t), ctx |-> Ctx(t), seq |-> ticket[t], buf |-> buffer[t]]
locals == <<index, plan, ok>>
quiet == <<program, device, freed, feedback>>

(* PrepareCollectiveLaunch: without feedback the static share, otherwise   *)
(* what the controller suggests for the key.                               *)
LaunchPlan(c) ==
  LET suggested == Suggest(algo[OpKey(c)], param[OpKey(c)])
  IN IF program.measure THEN CreatePlan(Call(c).bytes, suggested.alpha, param[OpKey(c)].use_pcie)
     ELSE CreatePlan(Call(c).bytes, program.alpha, TRUE)

(* The application queues the work that produces the input, then calls:    *)
(* PrepareCollectiveLaunch and the plan.                                   *)
StartCall(t) ==
  /\ at(t, "call")
  /\ LET p == LaunchPlan(Current(t))
         k == OpKey(Current(t))
     IN /\ plan' = [plan EXCEPT ![t] = p]
        /\ algo' = IF program.measure THEN [algo EXCEPT ![k] = Suggest(@, param[k])] ELSE algo
        /\ todo' = [todo EXCEPT ![t] = StepsOf(Call(Current(t)).op, p) \o <<"return">>]
  /\ enqueue(Stream(t), item("produce", t))
  /\ ok' = [ok EXCEPT ![t] = TRUE]
  /\ UNCHANGED <<program, device, freed, param, index, ticket, buffer, sync, pending>>

(* The staging buffer: the pre-allocated one if it is large enough.        *)
(* Without one the whole message takes the fast network, and the record    *)
(* still says that a part took PCIe.                                       *)
Allocate(t) ==
  /\ at(t, "alloc")
  /\ \/ /\ buffer' = [buffer EXCEPT ![t] = IF program.scratch THEN Pool(t) ELSE Own(Current(t))]
        /\ next(t)
     \/ /\ ~program.scratch /\ "alloc" \in program.failures
        /\ todo' = [todo EXCEPT ![t] = <<"fast">> \o Notify \o <<"return">>]
        /\ UNCHANGED buffer
  /\ UNCHANGED <<quiet, locals, ticket, stream, sync, pending>>

BeginValueSync(t) ==
  /\ at(t, "begin")
  /\ program.acl
  /\ ~lock[Ctx(t)]
  /\ lock' = [lock EXCEPT ![Ctx(t)] = TRUE]
  /\ ticket' = [ticket EXCEPT ![t] = sequence[Ctx(t)]]
  /\ sequence' = [sequence EXCEPT ![Ctx(t)] = @ + 1]
  /\ next(t)
  /\ UNCHANGED <<quiet, locals, buffer, stream, token, pending>>

NoValueSync(t) ==
  /\ at(t, "begin")
  /\ ~program.acl \/ "tokens" \in program.failures
  /\ next(t)
  /\ UNCHANGED <<quiet, locals, ticket, buffer, stream, sync, pending>>

(* PcieWaitForUserInputIfNeeded: a token on each stream, or the host waits *)
Granted(t) == ticket[t] # NoTicket
Refused(t) == ~Granted(t) \/ "tokens" \in program.failures
Instead(t, step, skipped) == todo' = [todo EXCEPT ![t] = <<step>> \o SubSeq(@, 1 + skipped, Len(@))]
HostStep(t) == UNCHANGED <<quiet, locals, ticket, buffer, sync, pending>>

EnqueueInputReady(t) ==
  /\ at(t, "input")
  /\ \/ Granted(t) /\ enqueue(Stream(t), item("ready", t)) /\ next(t)
     \/ Refused(t) /\ Instead(t, "sync_user", 2) /\ UNCHANGED stream
  /\ HostStep(t)

(* Mutation: the PCIe stream is not made to wait. *)
EnqueueInputWait_Skipped(t) ==
  /\ at(t, "input_wait")
  /\ next(t) /\ UNCHANGED stream
  /\ HostStep(t)

EnqueueInputWait(t) ==
  /\ at(t, "input_wait")
  /\ \/ enqueue(PcieStream(t), item("wait_ready", t)) /\ next(t)
     \/ Refused(t) /\ Instead(t, "sync_user", 1) /\ UNCHANGED stream
  /\ HostStep(t)

SynchronizeUser(t) ==
  /\ at(t, "sync_user")
  /\ stream[Stream(t)] = <<>>
  /\ next(t)
  /\ HostStep(t) /\ UNCHANGED stream

(* The wait fails: the collective returns an error with nothing submitted. *)
SynchronizeFails(t) ==
  /\ at(t, "sync_user")
  /\ "sync" \in program.failures
  /\ todo' = [todo EXCEPT ![t] = <<"return">>]
  /\ ok' = [ok EXCEPT ![t] = FALSE]
  /\ freed' = IF buffer[t] = Own(Current(t)) THEN freed \cup {buffer[t]} ELSE freed
  /\ UNCHANGED <<program, device, feedback, index, ticket, plan, buffer, stream, sync, pending>>

Pack(t) ==
  /\ at(t, "pack")
  /\ enqueue(Stream(t), item("pack", t)) /\ next(t)
  /\ HostStep(t)

FastPart(t) ==
  /\ at(t, "fast")
  /\ enqueue(Stream(t), item("fast", t)) /\ next(t)
  /\ HostStep(t)

(* The PCIe library may refuse the submission; its timer runs all the same. *)
PciePart(t) ==
  /\ at(t, "pcie")
  /\ \E accepted \in IF "pcie" \in program.failures THEN BOOLEAN ELSE {TRUE} :
       /\ enqueue(PcieStream(t), item(IF accepted THEN "pcie" ELSE "nothing", t))
       /\ ok' = [ok EXCEPT ![t] = accepted]
  /\ next(t)
  /\ UNCHANGED <<quiet, index, plan, ticket, buffer, sync, pending>>

(* Mutation: no token after a refused submission. *)
EnqueueWrite_OnlyAfterSuccess(t) ==
  /\ at(t, "write_done")
  /\ \/ Granted(t) /\ next(t) /\ IF ok[t] THEN enqueue(PcieStream(t), item("done", t)) ELSE UNCHANGED stream
     \/ Refused(t) /\ Instead(t, "event", 2) /\ UNCHANGED stream
  /\ HostStep(t)

(* PcieCompleteOnUserStreamIfNeeded: a token, or the end event of the timer *)
EnqueueWrite(t) ==
  /\ at(t, "write_done")
  /\ \/ Granted(t) /\ enqueue(PcieStream(t), item("done", t)) /\ next(t)
     \/ Refused(t) /\ Instead(t, "event", 2) /\ UNCHANGED stream
  /\ HostStep(t)

EnqueueWait(t) ==
  /\ at(t, "wait_done")
  /\ \/ enqueue(Stream(t), item("wait_done", t)) /\ next(t)
     \/ Refused(t) /\ Instead(t, "event", 1) /\ UNCHANGED stream
  /\ HostStep(t)

(* Mutation: the fallback is left out. *)
WaitEventOnStream_Skipped(t) ==
  /\ at(t, "event")
  /\ next(t) /\ UNCHANGED stream
  /\ HostStep(t)

WaitEventOnStream(t) ==
  /\ at(t, "event")
  /\ enqueue(Stream(t), item("wait_event", t)) /\ next(t)
  /\ HostStep(t)

SyncPcieStream(t) ==
  /\ at(t, "sync_pcie")
  /\ program.sync => stream[PcieStream(t)] = <<>>
  /\ next(t)
  /\ HostStep(t) /\ UNCHANGED stream

(* Mutation: the buffer is freed as soon as the copies are queued. *)
Merge_FreesAtOnce(t) ==
  /\ at(t, "merge")
  /\ enqueue(Stream(t), item("merge", t))
  /\ freed' = IF buffer[t] = Own(Current(t)) THEN freed \cup {buffer[t]} ELSE freed
  /\ next(t)
  /\ UNCHANGED <<program, device, feedback, locals, ticket, buffer, sync, pending>>

(* EnqueueSegmentedMergeOnStream: the copies, then the buffer is given     *)
(* back: in stream order, except that the ACL build frees it at once.      *)
Merge(t) ==
  /\ at(t, "merge")
  /\ LET owns == buffer[t] = Own(Current(t))
     IN /\ stream' = [stream EXCEPT ![Stream(t)] =
                        @ \o <<item("merge", t)>> \o IF owns /\ ~program.acl THEN <<item("free", t)>> ELSE <<>>]
        /\ freed' = IF owns /\ program.acl THEN freed \cup {buffer[t]} ELSE freed
  /\ next(t)
  /\ UNCHANGED <<program, device, feedback, locals, ticket, buffer, sync, pending>>

RegisterPending(t) ==
  /\ at(t, "register")
  /\ LET carries == buffer[t] # None /\ ~MergedOnStream(Current(t))
     IN pending' = [pending EXCEPT ![Stream(t)] = Append(@,
          [coll |-> Current(t), plan |-> plan[t], ok |-> ok[t], timed |-> Nobody,
           tmp |-> IF carries THEN buffer[t] ELSE None])]
  /\ next(t)
  /\ UNCHANGED <<quiet, locals, ticket, buffer, sync, stream>>

(* Mutation: to the oldest record of the stream. *)
AttachTimers_ToFirst(t) ==
  /\ at(t, "attach")
  /\ pending' = IF pending[Stream(t)] = <<>> THEN pending
                ELSE [pending EXCEPT ![Stream(t)][1].timed = Current(t)]
  /\ next(t)
  /\ UNCHANGED <<quiet, locals, ticket, buffer, sync, stream>>

(* AttachTimersToLastStreamPending: to the last record of the stream, if    *)
(* there is one.                                                            *)
AttachTimers(t) ==
  /\ at(t, "attach")
  /\ pending' = IF pending[Stream(t)] = <<>> THEN pending
                ELSE [pending EXCEPT ![Stream(t)][Len(pending[Stream(t)])].timed = Current(t)]
  /\ next(t)
  /\ UNCHANGED <<quiet, locals, ticket, buffer, sync, stream>>

EnqueueCallback(t) ==
  /\ at(t, "callback")
  /\ enqueue(Stream(t), item("callback", t)) /\ next(t)
  /\ HostStep(t)

(* The submission object is released with the collective; the application  *)
(* queues the work that uses the result.                                   *)
Return(t) ==
  /\ at(t, "return")
  /\ IF ok[t] THEN enqueue(Stream(t), item("consume", t)) ELSE UNCHANGED stream
  /\ lock' = IF Granted(t) THEN [lock EXCEPT ![Ctx(t)] = FALSE] ELSE lock
  /\ ticket' = [ticket EXCEPT ![t] = NoTicket]
  /\ buffer' = [buffer EXCEPT ![t] = None]
  /\ IF index[t] < Len(program.calls[t])
       THEN index' = [index EXCEPT ![t] = @ + 1] /\ todo' = [todo EXCEPT ![t] = <<"call">>]
       ELSE next(t) /\ UNCHANGED index
  /\ UNCHANGED <<quiet, plan, ok, sequence, token, pending>>

-----------------------------------------------------------------------------
(* The device: each stream executes its operations in order *)

head(s, kind) == stream[s] # <<>> /\ Head(stream[s]).kind = kind
executed(s) == stream' = [stream EXCEPT ![s] = Tail(@)]
mark(c, event) == happened' = [happened EXCEPT ![c] = @ \cup {event}]
Slot(o) == o.seq % RingSize
DeviceStep == UNCHANGED <<program, host, pending, feedback>>
IsPool(b) == b[1] = "pool"
fill(b, c) == holder' = IF IsPool(b) THEN [holder EXCEPT ![b[2]] = c] ELSE holder

WriteToken(s) ==
  /\ stream[s] # <<>> /\ Head(stream[s]).kind \in {"ready", "done"}
  /\ LET o == Head(stream[s])
     IN token' = IF o.kind = "ready" THEN [token EXCEPT ![o.ctx].input[Slot(o)] = o.seq]
                                     ELSE [token EXCEPT ![o.ctx].done[Slot(o)] = o.seq]
  /\ executed(s)
  /\ DeviceStep /\ UNCHANGED <<device, freed, lock, sequence>>

WaitToken(s) ==
  /\ stream[s] # <<>> /\ Head(stream[s]).kind \in {"wait_ready", "wait_done"}
  /\ LET o == Head(stream[s])
     IN IF o.kind = "wait_ready" THEN token[o.ctx].input[Slot(o)] >= o.seq
                                 ELSE token[o.ctx].done[Slot(o)] >= o.seq
  /\ executed(s)
  /\ DeviceStep /\ UNCHANGED <<device, freed, sync>>

WaitEvent(s) ==
  /\ head(s, "wait_event")
  /\ "ended" \in happened[Head(stream[s]).coll]
  /\ executed(s)
  /\ DeviceStep /\ UNCHANGED <<device, freed, sync>>

Compute(s) ==
  /\ stream[s] # <<>> /\ Head(stream[s]).kind \in {"produce", "consume", "merge"}
  /\ mark(Head(stream[s]).coll, Head(stream[s]).kind)
  /\ executed(s)
  /\ DeviceStep /\ UNCHANGED <<holder, freed, sync>>

FillBuffer(s) ==
  /\ stream[s] # <<>> /\ Head(stream[s]).kind \in {"pack", "fast"}
  /\ LET o == Head(stream[s])
     IN mark(o.coll, o.kind) /\ fill(o.buf, o.coll)
  /\ executed(s)
  /\ DeviceStep /\ UNCHANGED <<freed, sync>>

RunPcie(s) ==
  /\ stream[s] # <<>> /\ Head(stream[s]).kind \in {"pcie", "nothing"}
  /\ LET o == Head(stream[s])
     IN happened' = [happened EXCEPT ![o.coll] = @ \cup {o.kind, "ended"}]
  /\ executed(s)
  /\ DeviceStep /\ UNCHANGED <<holder, freed, sync>>

FreeAsync(s) ==
  /\ head(s, "free")
  /\ freed' = freed \cup {Head(stream[s]).buf}
  /\ executed(s)
  /\ DeviceStep /\ UNCHANGED <<device, sync>>

(* No operation of the collective that its timers span is left *)
WorkDone(c) == \A s \in Streams : \A k \in DOMAIN stream[s] :
                 stream[s][k].coll = c => stream[s][k].kind \notin {"fast", "pcie", "nothing"}

(* The statistics of a record.  A timer that was never attached, or whose  *)
(* part never ran, shows no time.                                          *)
Statistics(r, fast_time, pcie_time) ==
  LET timed(kind) == r.timed # Nobody /\ kind \in happened[r.timed]
  IN [fast_time |-> IF timed("fast") THEN fast_time ELSE 0,
      pcie_time |-> IF r.plan.use_pcie /\ timed("ended") THEN pcie_time ELSE 0,
      fast_bytes |-> r.plan.fast, pcie_bytes |-> r.plan.pcie,
      fast_success |-> TRUE, pcie_success |-> r.ok]

(* The end of OnStreamSynchronized: the timers queried until they are      *)
(* complete and, as the ranks share no parameter store, the controller's   *)
(* update with the times.                                                  *)
Measure(r) ==
  IF ~program.measure THEN UNCHANGED feedback
  ELSE /\ r.timed # Nobody => WorkDone(r.timed)
       /\ \E fast_time, pcie_time \in program.times :
            LET k == OpKey(r.coll)
                new == Update(algo[k], param[k], Statistics(r, fast_time, pcie_time))
            IN /\ algo' = [algo EXCEPT ![k] = new.algo]
               /\ param' = [param EXCEPT ![k] = new.param]

(* OnStreamSynchronized, in the host callback: the oldest record of the    *)
(* stream, a staged result put into place, and the measurement.            *)
HostCompletion(s) ==
  /\ head(s, "callback")
  /\ IF pending[s] = <<>>
     THEN UNCHANGED <<pending, happened, freed, feedback>>
     ELSE LET r == Head(pending[s])
          IN /\ pending' = [pending EXCEPT ![s] = Tail(@)]
             /\ IF r.tmp # None /\ MergedByCallback(r.coll) THEN mark(r.coll, "merge")
                ELSE UNCHANGED happened
             /\ freed' = IF r.tmp = Own(r.coll) THEN freed \cup {r.tmp} ELSE freed
             /\ Measure(r)
  /\ executed(s)
  /\ UNCHANGED <<program, host, holder, sync>>

-----------------------------------------------------------------------------
HostNext(t) ==
  \/ StartCall(t) \/ Allocate(t) \/ BeginValueSync(t) \/ NoValueSync(t)
  \/ EnqueueInputReady(t) \/ EnqueueInputWait(t) \/ SynchronizeUser(t) \/ SynchronizeFails(t)
  \/ Pack(t) \/ FastPart(t) \/ PciePart(t) \/ EnqueueWrite(t) \/ EnqueueWait(t)
  \/ WaitEventOnStream(t) \/ SyncPcieStream(t) \/ Merge(t)
  \/ RegisterPending(t) \/ AttachTimers(t) \/ EnqueueCallback(t) \/ Return(t)

DeviceNext(s) ==
  \/ WriteToken(s) \/ WaitToken(s) \/ WaitEvent(s) \/ Compute(s) \/ FillBuffer(s)
  \/ RunPcie(s) \/ FreeAsync(s) \/ HostCompletion(s)

Work == (\E t \in Threads : HostNext(t)) \/ (\E s \in Streams : DeviceNext(s))

Next == Work

Spec == Init /\ [][Next]_vars

(* Host threads run and the device executes what is queued on its streams. *)
(* A program is finite, so that some of them moving on is all of them.     *)
FairSpec == Spec /\ WF_vars(Work)

-----------------------------------------------------------------------------
(* Properties *)

Kinds == {"produce", "ready", "wait_ready", "pack", "fast", "pcie", "nothing", "done", "wait_done",
          "wait_event", "merge", "free", "callback", "consume"}

(* Tickets, tokens, records and streams are those of calls that were made. *)
TypeOK ==
  /\ program \in Programs
  /\ \A t \in Threads : index[t] \in DOMAIN program.calls[t] /\ ticket[t] \in Nat
  /\ \A s \in Streams : \A k \in DOMAIN stream[s] : stream[s][k].kind \in Kinds
  /\ \A x \in Contexts : \A k \in 0..RingSize - 1 :
       token[x].input[k] < sequence[x] /\ token[x].done[k] < sequence[x]
  /\ \A s \in UserStreams : \A k \in DOMAIN pending[s] : pending[s][k].coll \in Colls
  /\ \A d \in Domains : holder[d] \in Colls \cup {Nobody}
  /\ \A k \in DOMAIN param : param[k].alpha \in 0..1000 /\ algo[k].alpha \in 0..1000

(* The users of a stream or of a communicator's staging buffer *)
OneStream == \A s, r \in UserStreams : s = r
OneThread == \A t, u \in Threads : t = u

(* Every collective that reports holds the submission lock of its stream:  *)
(* tokens and staging buffers are never refused, unsplit collectives do    *)
(* not report, and the stream is used by one communicator.                 *)
Serialised ==
  /\ program.acl /\ ~program.log /\ {"tokens", "alloc"} \cap program.failures = {}
  /\ \A t, u \in Threads : program.domain[t] = program.domain[u]

(* A split message is divided without loss, overlap or excess, at a place  *)
(* that both libraries accept (planner.h, CreatePlan).                     *)
PlanExact ==
  \A t \in Threads : ~at(t, "call") /\ plan[t].use_pcie =>
    /\ plan[t].fast + plan[t].pcie = Call(Current(t)).bytes
    /\ plan[t].fast % 128 = 0

(* The PCIe stream is not ordered with the application's: it reads the     *)
(* input of a collective only when the application's earlier work has      *)
(* produced it.  AllToAll does not publish its input, and is left out.     *)
ReadsProduced(c) ==
  \A s \in Streams : head(s, "pcie") /\ Head(stream[s]).coll = c => "produce" \in happened[c]
PcieReadsProduced == \A c \in Colls : Call(c).op # "AllToAll" => ReadsProduced(c)

(* What the application queues after a collective finds the whole result:  *)
(* the fast part, the PCIe part, and the fast part moved into place if it  *)
(* was staged; when one thread submits to the stream.                      *)
Result(c) ==
  LET h == happened[c]
  IN /\ "pcie" \in h \/ "fast" \in h
     /\ \A s \in Streams : \A k \in DOMAIN stream[s] :
          stream[s][k].coll = c => stream[s][k].kind \notin {"fast", "pcie", "merge", "pack"}
     /\ ~\E s \in UserStreams : \E k \in DOMAIN pending[s] :
          pending[s][k].coll = c /\ pending[s][k].tmp # None /\ MergedByCallback(c)
OutputComplete ==
  OneThread => \A s \in UserStreams : head(s, "consume") => Result(Head(stream[s]).coll)

(* A staging buffer still holds the collective's data when it is copied    *)
(* out of it, as long as the communicator is used on one stream by one     *)
(* thread: the pre-allocated buffer has no owner.                          *)
ScratchIntact ==
  OneStream /\ OneThread =>
    \A s \in UserStreams :
      /\ head(s, "merge") /\ IsPool(Head(stream[s]).buf) =>
           holder[Head(stream[s]).buf[2]] = Head(stream[s]).coll
      /\ head(s, "callback") /\ pending[s] # <<>> /\ IsPool(Head(pending[s]).tmp) =>
           holder[Head(pending[s]).tmp[2]] = Head(pending[s]).coll

(* However the threads that share a stream interleave, a callback finds a  *)
(* record, the work of that record has been executed, and the timers it    *)
(* carries are of executed work: querying them never holds the stream.     *)
CallbackFindsWork ==
  \A s \in UserStreams : head(s, "callback") =>
    /\ pending[s] # <<>>
    /\ LET r == Head(pending[s]) IN WorkDone(r.coll) /\ (r.timed # Nobody => WorkDone(r.timed))

(* The times of a collective are reported as its own, when one thread      *)
(* submits to a stream at a time (on ACL the submission lock can see to    *)
(* it).                                                                    *)
TimersAreOwn ==
  OneThread \/ Serialised =>
    \A s \in UserStreams : head(s, "callback") => Head(pending[s]).timed = Head(pending[s]).coll

(* Nothing queued or registered uses a staging buffer that was given back, *)
(* in the build that frees in stream order.                                *)
BuffersLive ==
  ~program.acl =>
    /\ \A s \in Streams : \A k \in DOMAIN stream[s] :
         stream[s][k].kind \in {"pack", "fast", "merge"} => stream[s][k].buf \notin freed
    /\ \A s \in UserStreams : \A k \in DOMAIN pending[s] : pending[s][k].tmp \notin freed

(* The two streams meet at both ends of a collective: the PCIe part starts *)
(* behind the application's earlier work, and its later work behind both   *)
(* parts.                                                                  *)
StreamsOrdered == PcieReadsProduced /\ OutputComplete

(* What a collective uses is its own: staging buffers, temporary buffers,  *)
(* its completion record and the timers on it.                             *)
ResourcesOwned == TypeOK /\ ScratchIntact /\ BuffersLive /\ CallbackFindsWork /\ TimersAreOwn

(* Threads, streams and completion records are done. *)
Finished ==
  /\ \A t \in Threads : todo[t] = <<>>
  /\ \A s \in Streams : stream[s] = <<>>
  /\ \A s \in UserStreams : pending[s] = <<>>

(* Every collective ends: no token is lost when the ring wraps, no stream  *)
(* waits for another for ever, and no record or buffer is left behind.     *)
EveryCollectiveEnds == <>Finished

=============================================================================
