------------------------------ MODULE GraphRun ------------------------------
(***************************************************************************)
(* GraphExecutor: the executor threads of all ranks of one communicator    *)
(* run a sequence of collectives.  Each pops the next work item, publishes *)
(* the reader counts of its graph, waits for the user stream's doorbell,   *)
(* submits slices of nodes whose inputs are ready and whose output may be  *)
(* overwritten, publishes completed slices in the shared counters of the   *)
(* work's epoch (its sequence number modulo 2), meets the other ranks at a *)
(* barrier, clears the epoch's counters and releases the user stream.      *)
(*                                                                         *)
(* The data are followed through the buffers: a cell holds the set of      *)
(* contributions that have been summed into it, each tagged with its rank, *)
(* input chunk, slice and collective.  A transfer occupies its destination *)
(* from its submission to its completion and needs its sources unchanged   *)
(* over that time; otherwise its result is Garbage.                        *)
(*                                                                         *)
(* The counters' own lock-free operations are ChunkFlow's subject and the  *)
(* barrier's SharedBarrier's: here each is one step.                       *)
(***************************************************************************)
EXTENDS Naturals, Sequences, FiniteSetsExt

CONSTANTS
  Ranks,
  Scenarios,       \* what the communicator runs, see below
  Slots,           \* pcclRingSlotsFor(chunk_size)
  LeadWindow,      \* PCCL_D2H_LEAD_WINDOW
  LaneDepth,       \* capacity of a lane's EventRing
  QueueDepth,      \* slots of user_ready_seq
  Numas,           \* NUMA nodes, one pool of H2H workers each
  Workers,         \* MAX_H2H_WORKERS_PER_NUMA
  Threads          \* MAX_H2H_THREADS_PER_TASK

(* A definition of its own, so that TLC compiles the programs once.  Of a  *)
(* scenario,                                                               *)
(*   programs   is the sequence of collectives all ranks submit,           *)
(*   may_fail   whether a device error or a timeout may happen.            *)
(* Of a program,                                                           *)
(*   graphs     is the CompiledGraph of each rank, in rank order,          *)
(*   subchunks  its num_subchunks,                                         *)
(*   home       the address of each device location: the buffer it lies in *)
(*              (RuntimeBinding) and its first element there (LayoutDesc),   *)
(*   empty      the <<location, sc>> whose subchunkSize is 0,              *)
(*   expected   the inputs <<rank, chunk>> an output location must sum up. *)
scenarios == Scenarios

Lanes == {"D2H", "H2D", "D2D_LOCAL", "D2D_PEER", "D2D_REDUCE"}

ProgramsOf(s) == {s.programs[seq] : seq \in DOMAIN s.programs}
GraphsOf(s)   == UNION {{p.graphs[r + 1] : r \in Ranks} : p \in ProgramsOf(s)}
KeysOf(s)     == UNION {g.active_progress_keys : g \in GraphsOf(s)}
AllPrograms   == UNION {ProgramsOf(scenarios[i]) : i \in DOMAIN scenarios}
AllGraphs     == UNION {GraphsOf(scenarios[i]) : i \in DOMAIN scenarios}
MaxReaders    == Max({0} \cup UNION {{init[2] : init \in g.num_readers} : g \in AllGraphs})
MaxSubchunks  == Max({p.subchunks : p \in AllPrograms})

(* What the compiler lists of a graph is what its nodes use. *)
ListsItsKeys(g) ==
  /\ g.initial_ready_inputs \subseteq g.active_progress_keys
  /\ \A n \in DOMAIN g.nodes : g.nodes[n].output \in g.active_progress_keys

ASSUME GraphAssumption ==
  /\ IsFiniteSet(Ranks) /\ Ranks # {}
  /\ {Slots, LeadWindow, LaneDepth, QueueDepth, Workers, Threads} \subseteq Nat \ {0}
  /\ {MaxReaders, MaxSubchunks} \subseteq Nat
  /\ \A i \in DOMAIN scenarios :
       /\ scenarios[i].programs \in Seq(AllPrograms) /\ scenarios[i].may_fail \in BOOLEAN
       /\ \A g \in GraphsOf(scenarios[i]) : ListsItsKeys(g)
  /\ \A p \in AllPrograms : p.subchunks \in 1 .. MaxSubchunks

VARIABLES
  scenario,            \* index into scenarios
  \* ChunkState in shared memory, per key and (but for num_readers) epoch
  write_progress, consume_progress, reader_done, num_readers,
  user_ready_seq,      \* shared: doorbells seen, per rank and slot
  entered,             \* barrier rounds each rank has entered
  \* per rank: the executor thread
  pc, work_seq, next_subchunk, completed, lanes, h2h_inflight, failed,
  pool, working,       \* per rank and NUMA node: the H2H engine's queue and what its workers hold
  \* per rank: doorbells rung by the user stream, collectives it was released from
  rung, released,
  mem                  \* cell |-> contributions

Keys == DOMAIN num_readers

counters == <<write_progress, consume_progress, reader_done>>
engine   == <<pool, working>>
inflight == <<lanes, h2h_inflight, engine>>
progress == <<next_subchunk, completed>>
user     == <<rung, released>>
vars     == <<scenario, counters, num_readers, user_ready_seq, entered, pc, work_seq, progress, inflight,
              failed, user, mem>>

-----------------------------------------------------------------------------
(* Addresses and data *)

programs        == scenarios[scenario].programs
MayFail         == scenarios[scenario].may_fail
NumCollectives  == Len(programs)
GraphOf(r, seq) == programs[seq].graphs[r + 1]

(* The work item of rank r. *)
Program(r)      == programs[work_seq[r]]
Graph(r)        == GraphOf(r, work_seq[r])
Nodes(r)        == DOMAIN Graph(r).nodes
NumSubchunks(r) == Program(r).subchunks

(* resolve: where a slice of a chunk lies *)
Cell(home, loc, sc, ring) ==
  IF loc[1] = "HOST" THEN <<loc, IF ring THEN sc % Slots ELSE sc>>
  ELSE <<home[loc][1], home[loc][2] + sc>>

InCell(r, input, sc) == Cell(Program(r).home, input.key[1], sc, input.ring)
OutCell(r, node, sc) == Cell(Program(r).home, node.output[1], sc, node.out_ring)

CellsOf(s) == UNION {{Cell(p.home, key[1], sc, ring) :
                        key \in KeysOf(s), sc \in 0 .. p.subchunks - 1, ring \in BOOLEAN} :
                     p \in ProgramsOf(s)}

Cells == DOMAIN mem

Busy    == {}
Garbage == {<<>>}

Contribution(r, chunk, sc, seq) == <<r, chunk, sc, seq>>

(* A copy of one source, or the reduction of two. *)
Combine(values) ==
  IF \/ \E i \in DOMAIN values : values[i] \in {Busy, Garbage}
     \/ \E i, j \in DOMAIN values : i # j /\ values[i] \cap values[j] # {}
  THEN Garbage
  ELSE UNION {values[i] : i \in DOMAIN values}

SourceValues(r, node, sc) == [j \in DOMAIN node.inputs |-> mem[InCell(r, node.inputs[j], sc)]]

-----------------------------------------------------------------------------
(* Shared counters *)

(* Mutation: all collectives use the same counters. *)
EpochOf_Single(seq) == 0

EpochOf(seq) == seq % 2

Epoch(r) == EpochOf(work_seq[r])

Slot(seq) == (seq - 1) % QueueDepth

AtomicMax(old, new) == IF new > old THEN new ELSE old

(* Mutation: the slice after the finished one is published too. *)
PublishNode_OneAhead(node, sc, ep) ==
  write_progress' = [write_progress EXCEPT ![node.output][ep] = AtomicMax(@, sc + 2)]

(* publishNodeProgress: advanceWriteProgress *)
PublishNode(node, sc, ep) ==
  write_progress' = [write_progress EXCEPT ![node.output][ep] = AtomicMax(@, sc + 1)]

(* publishInputReaders: advanceReaderDone for every input with a reader id *)
PublishReaders(node, sc, ep) ==
  LET readers == {node.inputs[j] : j \in {i \in DOMAIN node.inputs : node.inputs[i].reads}}
      done    == [key \in Keys |-> [e \in 0 .. 1 |-> [id \in DOMAIN reader_done[key][e] |->
                    IF e = ep /\ \E in \in readers : in.key = key /\ in.reader_id = id
                    THEN AtomicMax(reader_done[key][e][id], sc + 1)
                    ELSE reader_done[key][e][id]]]]
      minimum(key) == Min({sc + 1} \cup {done[key][ep][id] : id \in 0 .. num_readers[key] - 1})
  IN  /\ reader_done' = done
      /\ consume_progress' = [key \in Keys |->
            IF \E in \in readers : in.key = key
            THEN [consume_progress[key] EXCEPT ![ep] = AtomicMax(@, minimum(key))]
            ELSE consume_progress[key]]

-----------------------------------------------------------------------------

Init ==
  /\ scenario \in DOMAIN scenarios
  /\ write_progress = [key \in KeysOf(scenarios[scenario]) |-> [e \in 0 .. 1 |-> 0]]
  /\ consume_progress = [key \in KeysOf(scenarios[scenario]) |-> [e \in 0 .. 1 |-> 0]]
  /\ reader_done = [key \in KeysOf(scenarios[scenario]) |-> [e \in 0 .. 1 |->
        [id \in 0 .. MaxReaders - 1 |-> 0]]]
  /\ num_readers = [key \in KeysOf(scenarios[scenario]) |-> 0]
  /\ user_ready_seq = [r \in Ranks |-> [s \in 0 .. QueueDepth - 1 |-> 0]]
  /\ entered = [r \in Ranks |-> 0]
  /\ pc = [r \in Ranks |-> "idle"]
  /\ work_seq = [r \in Ranks |-> 0]
  /\ next_subchunk = [r \in Ranks |-> <<>>]
  /\ completed = [r \in Ranks |-> <<>>]
  /\ lanes = [r \in Ranks |-> [l \in Lanes |-> <<>>]]
  /\ h2h_inflight = [r \in Ranks |-> {}]
  /\ pool = [r \in Ranks |-> [numa \in Numas |-> <<>>]]
  /\ working = [r \in Ranks |-> [numa \in Numas |-> {}]]
  /\ failed = [r \in Ranks |-> FALSE]
  /\ rung = [r \in Ranks |-> 0]
  /\ released = [r \in Ranks |-> 0]
  /\ mem = [c \in CellsOf(scenarios[scenario]) |-> Garbage]

-----------------------------------------------------------------------------
(* The user stream *)

(* What the memory holds when rank r has produced its inputs: every slice  *)
(* that is not empty lies in an element of its own.                        *)
Memory(seq, r) ==
  LET program  == programs[seq]
      inputs   == {key[1] : key \in GraphOf(r, seq).initial_ready_inputs}
      produced == (inputs \X (0 .. program.subchunks - 1)) \ program.empty
      cell     == [s \in produced |-> Cell(program.home, s[1], s[2], FALSE)]
  IN  [c \in Cells |->
         IF \E s \in produced : cell[s] = c
         THEN LET s == CHOOSE p \in produced : cell[p] = c
              IN  {Contribution(r, s[1][3], s[2], seq)}
         ELSE mem[c]]

(* Once released from the previous collective, the stream produces the     *)
(* next inputs and rings the doorbell (CompletionFlag::prepareUserWait).   *)
(* The waits of a failed executor's stream have all been signalled.        *)
UserRing(r) ==
  /\ rung[r] = released[r]
  /\ rung[r] < NumCollectives
  /\ rung' = [rung EXCEPT ![r] = @ + 1]
  /\ released' = [released EXCEPT ![r] = IF failed[r] THEN @ + 1 ELSE @]
  /\ mem' = Memory(rung[r] + 1, r)
  /\ UNCHANGED <<scenario, counters, num_readers, user_ready_seq, entered, pc, work_seq, progress,
                 inflight, failed>>

-----------------------------------------------------------------------------
(* The executor thread of rank r *)

(* executorThreadFunc pops a work item: first it zeroes the reader counts  *)
(* of its active keys ...                                                  *)
PopZeroesReaders(r) ==
  LET graph == GraphOf(r, work_seq[r] + 1)
      fresh == [n \in DOMAIN graph.nodes |-> 0]
  IN  /\ pc[r] = "idle"
      /\ work_seq[r] < NumCollectives
      /\ work_seq' = [work_seq EXCEPT ![r] = @ + 1]
      /\ num_readers' = [key \in Keys |->
            IF key \in graph.active_progress_keys THEN 0 ELSE num_readers[key]]
      /\ next_subchunk' = [next_subchunk EXCEPT ![r] = fresh]
      /\ completed' = [completed EXCEPT ![r] = fresh]
      /\ pc' = [pc EXCEPT ![r] = "popped"]
      /\ UNCHANGED <<scenario, counters, user_ready_seq, entered, inflight, failed, user, mem>>

(* ... then it stores the compiled ones. *)
PopSetsReaders(r) ==
  /\ pc[r] = "popped"
  /\ num_readers' = [key \in Keys |->
        IF \E n \in 1 .. MaxReaders : <<key, n>> \in Graph(r).num_readers
        THEN CHOOSE n \in 1 .. MaxReaders : <<key, n>> \in Graph(r).num_readers
        ELSE num_readers[key]]
  /\ pc' = [pc EXCEPT ![r] = "doorbell"]
  /\ UNCHANGED <<scenario, counters, user_ready_seq, entered, work_seq, progress, inflight,
                 failed, user, mem>>

(* Mutation: the doorbell is not published to the other ranks. *)
SeeDoorbell_KeptPrivate(r) ==
  /\ pc[r] = "doorbell"
  /\ rung[r] = work_seq[r]
  /\ write_progress' = [key \in Keys |->
        IF key \in Graph(r).initial_ready_inputs
        THEN [write_progress[key] EXCEPT ![Epoch(r)] = NumSubchunks(r)]
        ELSE write_progress[key]]
  /\ pc' = [pc EXCEPT ![r] = "run"]
  /\ UNCHANGED <<scenario, consume_progress, reader_done, num_readers, user_ready_seq, entered,
                 work_seq, progress, inflight, failed, user, mem>>

(* publishUserReadySeq: the other ranks learn that the inputs are there. *)
PublishUserReadySeq(r) == user_ready_seq' = [user_ready_seq EXCEPT ![r][Slot(work_seq[r])] = work_seq[r]]

(* waitForUserReadyAndPublishInputs *)
SeeDoorbell(r) ==
  /\ pc[r] = "doorbell"
  /\ rung[r] = work_seq[r]
  /\ PublishUserReadySeq(r)
  /\ write_progress' = [key \in Keys |->
        IF key \in Graph(r).initial_ready_inputs
        THEN [write_progress[key] EXCEPT ![Epoch(r)] = NumSubchunks(r)]
        ELSE write_progress[key]]
  /\ pc' = [pc EXCEPT ![r] = "run"]
  /\ UNCHANGED <<scenario, consume_progress, reader_done, num_readers, entered, work_seq,
                 progress, inflight, failed, user, mem>>

(* inputsReady *)
InputsReady(r, node, sc) ==
  \A j \in DOMAIN node.inputs : write_progress[node.inputs[j].key][Epoch(r)] >= sc + 1

(* overwriteReady: the slice that had the ring slot, and the contents the   *)
(* slice replaces, have been read.                                         *)
OverwriteReady(r, node, sc) ==
  /\ ~ /\ node.out_ring
       /\ sc >= Slots
       /\ num_readers[node.output] > 0
       /\ consume_progress[node.output][Epoch(r)] < (sc - Slots) + 1
  /\ node.guard[2] > 0 => write_progress[node.guard][Epoch(r)] >= sc + 1
  /\ \/ num_readers[node.guard] = 0
     \/ consume_progress[node.guard][Epoch(r)] >= sc + 1

(* graphUsesMultipleHostNumas *)
UsesMultipleHostNumas(r) ==
  Cardinality({key[1][2] : key \in {k \in Graph(r).active_progress_keys : k[1][1] = "HOST"}}) > 1

(* Mutation: the window is one slice too small. *)
WithinLeadWindow_OneShort(r, node, sc) ==
  ~ /\ UsesMultipleHostNumas(r)
    /\ node.op = "D2H"
    /\ num_readers[node.output] > 0
    /\ sc + 1 >= consume_progress[node.output][Epoch(r)] + LeadWindow

(* A D2H node runs at most LeadWindow slices ahead of its readers. *)
WithinLeadWindow(r, node, sc) ==
  ~ /\ UsesMultipleHostNumas(r)
    /\ node.op = "D2H"
    /\ num_readers[node.output] > 0
    /\ sc >= consume_progress[node.output][Epoch(r)] + LeadWindow

(* Mutation: a doorbell of an earlier collective in the slot is enough. *)
RemoteReady_AnySequence(r, node) ==
  node.placement # "Local" => user_ready_seq[node.remote][Slot(work_seq[r])] > 0

(* The peer whose buffer a remote copy touches has seen its own doorbell.  *)
RemoteReady(r, node) ==
  node.placement # "Local" => user_ready_seq[node.remote][Slot(work_seq[r])] = work_seq[r]

(* selectDmaLane *)
DmaLane(node) ==
  CASE node.op = "D2H" -> "D2H"
    [] node.op = "D2D" -> IF node.placement = "Local" THEN "D2D_LOCAL" ELSE "D2D_PEER"
    [] node.op = "D2DReduce" -> "D2D_REDUCE"
    [] OTHER -> "H2D"

IsHostOp(node) == node.op \in {"H2H", "H2HReduce"}

NothingToMove(r, node, sc) ==
  \/ <<node.output[1], sc>> \in Program(r).empty
  \/ node.op = "D2D" /\ node.placement = "Local" /\ InCell(r, node.inputs[1], sc) = OutCell(r, node, sc)

(* The guards of trySubmitNode common to all nodes. *)
Submittable(r, n) ==
  LET node == Graph(r).nodes[n]
      sc   == next_subchunk[r][n]
  IN  /\ pc[r] = "run"
      /\ sc < NumSubchunks(r)
      /\ InputsReady(r, node, sc)
      /\ OverwriteReady(r, node, sc)

(* trySubmitNode: an empty slice, or a copy onto itself, is published at   *)
(* once.                                                                   *)
SkipSlice(r, n) ==
  LET node == Graph(r).nodes[n]
      sc   == next_subchunk[r][n]
  IN  /\ Submittable(r, n)
      /\ NothingToMove(r, node, sc)
      /\ next_subchunk' = [next_subchunk EXCEPT ![r][n] = @ + 1]
      /\ completed' = [completed EXCEPT ![r][n] = @ + 1]
      /\ PublishNode(node, sc, Epoch(r))
      /\ PublishReaders(node, sc, Epoch(r))
      /\ UNCHANGED <<scenario, num_readers, user_ready_seq, entered, pc, work_seq, inflight,
                     failed, user, mem>>

(* submitGraphWork: the slice is cut into shards for the workers of the    *)
(* destination's NUMA node.                                                *)
SubmitGraphWork(r, node, transfer) ==
  pool' = [pool EXCEPT ![r][node.output[1][2]] =
             @ \o [tid \in 1 .. Min({Threads, Workers}) |-> [transfer |-> transfer, tid |-> tid]]]

(* trySubmitNode: the slice goes to the H2H engine, *)
ToEngine(r, node, transfer) ==
  /\ IsHostOp(node)
  /\ SubmitGraphWork(r, node, transfer)
  /\ h2h_inflight' = [h2h_inflight EXCEPT ![r] = @ \cup {transfer}]
  /\ UNCHANGED <<lanes, working>>

(* or to its DMA lane, if the peer whose buffer it touches is ready. *)
ToLane(r, node, transfer) ==
  /\ ~IsHostOp(node)
  /\ Len(lanes[r][DmaLane(node)]) < LaneDepth
  /\ RemoteReady(r, node)
  /\ lanes' = [lanes EXCEPT ![r][DmaLane(node)] = Append(@, transfer)]
  /\ UNCHANGED <<h2h_inflight, engine>>

SubmitSlice(r, n) ==
  LET node     == Graph(r).nodes[n]
      sc       == next_subchunk[r][n]
      transfer == [node |-> n, sc |-> sc, got |-> SourceValues(r, node, sc)]
  IN  /\ Submittable(r, n)
      /\ ~NothingToMove(r, node, sc)
      /\ WithinLeadWindow(r, node, sc)
      /\ ToEngine(r, node, transfer) \/ ToLane(r, node, transfer)
      /\ next_subchunk' = [next_subchunk EXCEPT ![r][n] = @ + 1]
      /\ mem' = [mem EXCEPT ![OutCell(r, node, sc)] = Busy]
      /\ UNCHANGED <<scenario, counters, num_readers, user_ready_seq, entered, pc, work_seq,
                     completed, failed, user>>

(* What the transfer leaves in its destination. *)
Moved(r, node, transfer) ==
  LET dst    == OutCell(r, node, transfer.sc)
      intact == \A j \in DOMAIN node.inputs :
                  LET src == InCell(r, node.inputs[j], transfer.sc)
                  IN  src # dst => mem[src] = transfer.got[j]
  IN  IF mem[dst] = Busy /\ intact THEN Combine(transfer.got) ELSE Garbage

(* A finished slice is published. *)
Complete(r, transfer) ==
  LET node == Graph(r).nodes[transfer.node]
  IN  /\ completed' = [completed EXCEPT ![r][transfer.node] = @ + 1]
      /\ PublishNode(node, transfer.sc, Epoch(r))
      /\ PublishReaders(node, transfer.sc, Epoch(r))
      /\ UNCHANGED <<scenario, num_readers, user_ready_seq, entered, pc, work_seq, next_subchunk,
                     engine, failed, user>>

Arrived(r, transfer) ==
  LET node == Graph(r).nodes[transfer.node]
  IN  mem' = [mem EXCEPT ![OutCell(r, node, transfer.sc)] = Moved(r, node, transfer)]

(* pollCudaLane: only the oldest event of a lane is looked at. *)
CompleteDma(r, lane) ==
  /\ pc[r] = "run"
  /\ lanes[r][lane] # <<>>
  /\ Arrived(r, Head(lanes[r][lane]))
  /\ Complete(r, Head(lanes[r][lane]))
  /\ lanes' = [lanes EXCEPT ![r][lane] = Tail(@)]
  /\ UNCHANGED h2h_inflight

(* The shards of a slice that are not done: its done_counter has not       *)
(* reached what the executor expects.                                      *)
Undone(r, transfer) ==
  UNION {{shard \in working[r][numa] \cup {pool[r][numa][i] : i \in DOMAIN pool[r][numa]} :
            shard.transfer = transfer} : numa \in Numas}

(* pollH2HCompletions: any finished slice is taken. *)
CompleteH2H(r) ==
  /\ pc[r] = "run"
  /\ \E transfer \in h2h_inflight[r] :
       /\ Undone(r, transfer) = {}
       /\ Complete(r, transfer)
       /\ h2h_inflight' = [h2h_inflight EXCEPT ![r] = @ \ {transfer}]
  /\ UNCHANGED <<lanes, mem>>

(* The H2H engine's workerLoop: a worker takes the oldest shard of its     *)
(* node's queue ...                                                        *)
TakeShard(r, numa) ==
  /\ pool[r][numa] # <<>>
  /\ Cardinality(working[r][numa]) < Workers
  /\ working' = [working EXCEPT ![r][numa] = @ \cup {Head(pool[r][numa])}]
  /\ pool' = [pool EXCEPT ![r][numa] = Tail(@)]
  /\ UNCHANGED <<scenario, counters, num_readers, user_ready_seq, entered, pc, work_seq, progress,
                 lanes, h2h_inflight, failed, user, mem>>

(* ... and copies or reduces its part (processGraphWork). *)
FinishShard(r, numa) ==
  \E shard \in working[r][numa] :
    /\ working' = [working EXCEPT ![r][numa] = @ \ {shard}]
    /\ IF Undone(r, shard.transfer) = {shard} THEN Arrived(r, shard.transfer) ELSE UNCHANGED mem
    /\ UNCHANGED <<scenario, counters, num_readers, user_ready_seq, entered, pc, work_seq, progress,
                   lanes, h2h_inflight, pool, failed, user>>

TerminalsComplete(r) ==
  /\ \A n \in Nodes(r) : completed[r][n] >= NumSubchunks(r)
  /\ \A key \in Graph(r).terminal_outputs : write_progress[key][Epoch(r)] >= NumSubchunks(r)

(* runGraph: the loop ends and the rank enters the barrier. *)
EnterBarrier(r) ==
  /\ pc[r] = "run"
  /\ TerminalsComplete(r)
  /\ entered' = [entered EXCEPT ![r] = @ + 1]
  /\ pc' = [pc EXCEPT ![r] = "barrier"]
  /\ UNCHANGED <<scenario, counters, num_readers, user_ready_seq, work_seq, progress, inflight,
                 failed, user, mem>>

(* Mutation: nobody is waited for. *)
LeaveBarrier_NoWait(r) ==
  /\ pc[r] = "barrier"
  /\ pc' = [pc EXCEPT ![r] = "reset"]
  /\ UNCHANGED <<scenario, counters, num_readers, user_ready_seq, entered, work_seq, progress,
                 inflight, failed, user, mem>>

LeaveBarrier(r) ==
  /\ pc[r] = "barrier"
  /\ \A q \in Ranks : entered[q] >= entered[r]
  /\ pc' = [pc EXCEPT ![r] = "reset"]
  /\ UNCHANGED <<scenario, counters, num_readers, user_ready_seq, entered, work_seq, progress,
                 inflight, failed, user, mem>>

ResetEpochKeys(r) ==
  LET keys == Graph(r).active_progress_keys
      Cleared(f, zero) == [key \in Keys |->
        IF key \in keys THEN [f[key] EXCEPT ![Epoch(r)] = zero] ELSE f[key]]
  IN  /\ pc[r] = "reset"
      /\ write_progress' = Cleared(write_progress, 0)
      /\ consume_progress' = Cleared(consume_progress, 0)
      /\ reader_done' = Cleared(reader_done, [id \in 0 .. MaxReaders - 1 |-> 0])
      /\ pc' = [pc EXCEPT ![r] = "signal"]
      /\ UNCHANGED <<scenario, num_readers, user_ready_seq, entered, work_seq, progress, inflight,
                     failed, user, mem>>

(* signalComplete and finishCurrentWork(pcclSuccess) *)
FinishCurrentWork(r) ==
  /\ pc[r] = "signal"
  /\ released' = [released EXCEPT ![r] = work_seq[r]]
  /\ pc' = [pc EXCEPT ![r] = "idle"]
  /\ UNCHANGED <<scenario, counters, num_readers, user_ready_seq, entered, work_seq, progress,
                 inflight, failed, rung, mem>>

(* A device error or a timeout: finishCurrentWork releases the user stream *)
(* and drops the rings; nothing is reset, and the executor takes no more   *)
(* work.  What was in flight stays torn.                                   *)
Fail(r) ==
  /\ MayFail
  /\ pc[r] \in {"doorbell", "run", "barrier"}
  /\ failed' = [failed EXCEPT ![r] = TRUE]
  /\ released' = [released EXCEPT ![r] = rung[r]]
  /\ lanes' = [lanes EXCEPT ![r] = [l \in Lanes |-> <<>>]]
  /\ h2h_inflight' = [h2h_inflight EXCEPT ![r] = {}]
  /\ pc' = [pc EXCEPT ![r] = "failed"]
  /\ UNCHANGED <<scenario, counters, num_readers, user_ready_seq, entered, work_seq, progress, engine,
                 rung, mem>>

-----------------------------------------------------------------------------

ExecutorStep(r) ==
  \/ PopZeroesReaders(r)
  \/ PopSetsReaders(r)
  \/ SeeDoorbell(r)
  \/ \E n \in DOMAIN next_subchunk[r] : SkipSlice(r, n) \/ SubmitSlice(r, n)
  \/ \E lane \in Lanes : CompleteDma(r, lane)
  \/ CompleteH2H(r)
  \/ EnterBarrier(r)
  \/ LeaveBarrier(r)
  \/ ResetEpochKeys(r)
  \/ FinishCurrentWork(r)

EngineStep(r) == \E numa \in Numas : TakeShard(r, numa) \/ FinishShard(r, numa)

Next == \E r \in Ranks : UserRing(r) \/ ExecutorStep(r) \/ EngineStep(r) \/ Fail(r)

Spec == Init /\ [][Next]_vars

(* The executor polls without end, transfers end, the H2H workers run, and *)
(* the user stream makes progress; failures are not forced.                *)
FairSpec == Spec /\ \A r \in Ranks :
  WF_vars(ExecutorStep(r)) /\ WF_vars(EngineStep(r)) /\ WF_vars(UserRing(r))

-----------------------------------------------------------------------------
(* Properties *)

(* No counter passes the number of slices, and every executor's local      *)
(* state is one that runGraph can be in.                                   *)
TypeOK ==
  /\ write_progress \in [Keys -> [0 .. 1 -> 0 .. MaxSubchunks]]
  /\ consume_progress \in [Keys -> [0 .. 1 -> 0 .. MaxSubchunks]]
  /\ num_readers \in [Keys -> 0 .. MaxReaders]
  /\ pc \in [Ranks -> {"idle", "popped", "doorbell", "run", "barrier", "reset", "signal", "failed"}]
  /\ \A r \in Ranks :
       /\ work_seq[r] \in 0 .. NumCollectives
       /\ pc[r] = "run" => /\ next_subchunk[r] \in [Nodes(r) -> 0 .. NumSubchunks(r)]
                           /\ completed[r] \in [Nodes(r) -> 0 .. NumSubchunks(r)]
       /\ released[r] <= rung[r]
       /\ \A l \in Lanes : Len(lanes[r][l]) <= LaneDepth

(* What collective seq must leave in slice sc of an output location. *)
Wanted(loc, sc, seq) ==
  {Contribution(in[1], in[2], sc, seq) : in \in programs[seq].expected[loc]}

HoldsResult(r, seq) ==
  \A loc \in DOMAIN programs[seq].expected, sc \in 0 .. programs[seq].subchunks - 1 :
    (loc[2] = r /\ <<loc, sc>> \notin programs[seq].empty) =>
      mem[Cell(programs[seq].home, loc, sc, FALSE)] = Wanted(loc, sc, seq)

(* From the moment a user stream is released from a collective until it    *)
(* rings for the next one, its result buffers hold exactly the sums of     *)
(* that collective's inputs of all ranks: nothing missing, nothing added   *)
(* twice, nothing left over from an earlier collective, and no peer        *)
(* already writing for the next one.                                       *)
ResultCorrect ==
  \A r \in Ranks :
    (~failed[r] /\ released[r] > 0 /\ rung[r] = released[r]) => HoldsResult(r, released[r])

(* While a rank is running, nobody clears a counter of its epoch: a slow   *)
(* rank's resetEpochKeys of collective k must not hit collective k + 2,    *)
(* which uses the same counters.                                           *)
NoResetUnderway ==
  [][\A r \in Ranks : pc[r] = "run" =>
       \A key \in Keys : /\ write_progress'[key][Epoch(r)] >= write_progress[key][Epoch(r)]
                         /\ consume_progress'[key][Epoch(r)] >= consume_progress[key][Epoch(r)]]_vars

(* Unless something fails, every collective completes on every rank. *)
AllCollectivesComplete == <>(MayFail \/ \A r \in Ranks : released[r] = NumCollectives)

(* To the user streams a collective is a barrier where nothing can fail:   *)
(* none is released from collective k before all have rung for it.         *)
Promise == INSTANCE BarrierPromise WITH
  Parties <- Ranks,
  entered <- IF MayFail THEN [r \in Ranks |-> 0] ELSE rung,
  left    <- IF MayFail THEN [r \in Ranks |-> 0] ELSE released

(* The executors of all ranks together give the user streams a barrier.    *)
CollectiveIsBarrier == Promise!Spec

=============================================================================
