---------------------------- MODULE PlanCompiler ----------------------------
(***************************************************************************)
(* Compiler::compileGraph: from the IR program of a collective, a sequence *)
(* of instructions of all ranks, to the graph of one rank's executor.      *)
(*                                                                         *)
(* A chunk location is <<space, owner, chunk>>; a ProgressKey is a         *)
(* location with a version: version v is what the v-th instruction that    *)
(* writes the location leaves there, version 0 what was there before.      *)
(* An instruction is [rank, op, src, src2, dst], the locations resolved.   *)
(***************************************************************************)
EXTENDS Naturals, Sequences, SequencesExt

Space(loc) == loc[1]
Owner(loc) == loc[2]
Chunk(loc) == loc[3]

Key(loc, version) == <<loc, version>>

(* The rest of CompileOptions and GraphCompileOptions that matters here:   *)
(*   in_place     sendbuff == recvbuff                                     *)
(*   alias        InPlaceAliasMode                                         *)
(*   staging      StagingPolicy is Conservative                            *)
(*   push         PCCL_D2D_PUSH                                            *)
(*   slots        pcclRingSlotsFor                                         *)
(*   count        seg_count, the elements of a segment                     *)
(*   d2h_segments, h2d_segments  segments of the send, the receive buffer  *)
(* Sizes are in elements, and a slice (pcclSubchunkSliceFor) is one.       *)

(* program.input_chunk_count, output_chunk_count *)
InputChunkCount(plan) ==
  1 + Max({Chunk(plan[i].src) : i \in {j \in DOMAIN plan : Space(plan[j].src) = "INPUT"}})

OutputChunkCount(plan) ==
  1 + Max({Chunk(plan[i].dst) : i \in {j \in DOMAIN plan : Space(plan[j].dst) = "OUTPUT"}})

WritesDevice(inst) == inst.op \in {"H2D", "D2D", "D2DReduce"}

Locations(plan) == UNION {{plan[i].src, plan[i].src2, plan[i].dst} : i \in DOMAIN plan}

-----------------------------------------------------------------------------
(* Layout *)

DivUp(a, b) == (a + b - 1) \div b

(* d2h_cps, h2d_cps: chunks per segment *)
ChunksPerSegment(chunks, segments) == Max({1, chunks \div Max({1, segments})})

InputCps(plan, opts)  == ChunksPerSegment(InputChunkCount(plan), opts.d2h_segments)
OutputCps(plan, opts) == ChunksPerSegment(OutputChunkCount(plan), opts.h2d_segments)

(* makeDeviceLayout: the first element of chunk c in its segment.  Chunks  *)
(* are uneven, and the first ones are empty if there are fewer elements.   *)
ChunkBegin(count, cps, c) == (count * (c % cps)) \div cps

ChunkElements(count, cps, c) ==
  (count * ((c % cps) + 1)) \div cps - ChunkBegin(count, cps, c)

(* resolve: where a chunk starts in a buffer of several segments *)
ChunkOffset(count, cps, c) == (c \div cps) * count + ChunkBegin(count, cps, c)

(* graph.chunk_size: no chunk of either layout is larger *)
ChunkSize(plan, opts) ==
  Max({DivUp(opts.count, InputCps(plan, opts)), DivUp(opts.count, OutputCps(plan, opts))})

PlanSubchunks(plan, opts) == Max({1, ChunkSize(plan, opts)})

(* chunkBytesForKey: host and internal chunks have the full size *)
WorkElements(plan, opts, loc) ==
  CASE Space(loc) = "INPUT"  -> ChunkElements(opts.count, InputCps(plan, opts), Chunk(loc))
    [] Space(loc) = "OUTPUT" -> ChunkElements(opts.count, OutputCps(plan, opts), Chunk(loc))
    [] OTHER                 -> ChunkSize(plan, opts)

(* The slices of a location for which subchunkSize is 0 *)
EmptySlices(plan, opts) ==
  {<<loc, sc>> \in Locations(plan) \X (0 .. PlanSubchunks(plan, opts) - 1) :
     sc >= WorkElements(plan, opts, loc)}

-----------------------------------------------------------------------------
(* Plan selection.  Of a topology, pattern is the NUMA node of each GPU,   *)
(* nvlink and switch are the pairs of GPUs with an NVLink and below one    *)
(* PCIe switch, and peer are the <<reader, owner>> with peer access.  A    *)
(* plan's file is <<collective, pattern, variant>>.  Of the environment,   *)
(* files are the files there are, and small_max is                         *)
(* PCCL_SMALL_IR_MAX_BYTES.                                                *)

PeersBothWays(topo, pair) ==
  pair \in topo.switch /\ \A a, b \in pair : a # b => <<a, b>> \in topo.peer

(* The topologies for which peer copies are preferred to the host relay *)
DirectCandidate(collective, topo) ==
  LET oneNuma == {<<0, 0>>, <<0, 0, 0, 0>>}
      pairs == IF Len(topo.pattern) = 2 THEN {{0, 1}} ELSE {{0, 1}, {2, 3}}
  IN  /\ \/ collective \in {"allgather", "reducescatter"} /\ topo.pattern \in oneNuma \cup {<<0, 0, 1, 1>>}
         \/ collective = "allreduce" /\ topo.pattern \in oneNuma
      /\ topo.nvlink = {}
      /\ \A pair \in pairs : PeersBothWays(topo, pair)

NotFound == <<"not found">>

Existing(env, file) == IF file \in env.files THEN file ELSE NotFound

FindIRFile(env, collective, topo) ==
  Existing(env, <<collective, topo.pattern, IF DirectCandidate(collective, topo) THEN "direct" ELSE "relay">>)

FindRelayIRFile(env, collective, topo) == Existing(env, <<collective, topo.pattern, "relay">>)

(* The variant for small messages of a file that does not copy directly *)
SmallIRVariant(env, file, bytes) ==
  LET small == <<file[1], file[2], "small">>
  IN  IF bytes \in 1 .. env.small_max /\ file[3] # "direct" /\ small \in env.files THEN small ELSE file

LoadIR(env, collective, topo, bytes) ==
  IF collective = "broadcast" THEN FindRelayIRFile(env, collective, topo)
  ELSE LET file == FindIRFile(env, collective, topo)
       IN  IF file = NotFound THEN NotFound ELSE SmallIRVariant(env, file, bytes)

(* What submitCollective refuses when the ranks are threads of one process *)
UsesUnsupportedPeerD2D(plan, topo, rank) ==
  \E i \in DOMAIN plan :
    /\ plan[i].rank = rank /\ plan[i].op = "D2D" /\ Owner(plan[i].src) # rank
    /\ ~(<<rank, Owner(plan[i].src)>> \in topo.peer /\ {rank, Owner(plan[i].src)} \in topo.switch)

-----------------------------------------------------------------------------
(* In-place staging *)

(* mark_input_read: a D2H counts whatever buffer it reads. *)
InputRead(plan, owner, chunk) ==
  \E i \in DOMAIN plan :
    \/ plan[i].op = "D2H" /\ plan[i].rank = owner /\ Chunk(plan[i].src) = chunk
    \/ plan[i].op \in {"D2D", "D2DReduce"} /\ plan[i].src = <<"INPUT", owner, chunk>>

OutputOverlapsLiveInput(plan, opts, owner, chunk) ==
  IF opts.alias = "AllGather"
  THEN /\ chunk >= owner * InputChunkCount(plan)
       /\ InputRead(plan, owner, chunk - owner * InputChunkCount(plan))
  ELSE InputRead(plan, owner, chunk)

(* stage_output_chunk_by_rank: the output locations that are staged *)
StagedOutputs(plan, opts) ==
  {loc \in {plan[i].dst : i \in {j \in DOMAIN plan : WritesDevice(plan[j])}} :
     /\ opts.in_place
     /\ opts.staging
     /\ Space(loc) = "OUTPUT"
     /\ OutputOverlapsLiveInput(plan, opts, Owner(loc), Chunk(loc))}

(* programUsesPeerD2D *)
UsesPeerD2D(plan) ==
  \E i \in DOMAIN plan : plan[i].op \in {"D2D", "D2DReduce"} /\ Owner(plan[i].src) # plan[i].rank

(* Mutation: reads by other ranks are not considered. *)
DirectOverwriteSafe_IgnoresPeers(plan) ==
  \A i \in DOMAIN plan :
    ( /\ ~(plan[i].op \in {"D2H", "D2D", "D2DReduce"} /\ Space(plan[i].src) = "INPUT")
      /\ WritesDevice(plan[i])
      /\ Space(plan[i].dst) = "OUTPUT" ) =>
    \E j \in 1 .. i - 1 : plan[j].src = <<"INPUT", plan[i].rank, Chunk(plan[i].dst)>>

(* allreduceDirectOverwriteSafe: every output chunk that lies on an input  *)
(* chunk is written after an instruction that reads that input.  A copy    *)
(* from an input is not looked at as a writer.                             *)
DirectOverwriteSafe(plan) ==
  LET ReadsInput(i) == plan[i].op \in {"D2H", "D2D", "D2DReduce"} /\ Space(plan[i].src) = "INPUT"
  IN  /\ ~UsesPeerD2D(plan)
      /\ \A i \in DOMAIN plan :
           ( /\ ~ReadsInput(i)
             /\ WritesDevice(plan[i])
             /\ Space(plan[i].dst) = "OUTPUT"
             /\ Chunk(plan[i].dst) < InputChunkCount(plan) ) =>
           \E j \in 1 .. i - 1 : ReadsInput(j) /\ plan[j].src = <<"INPUT", plan[i].rank, Chunk(plan[i].dst)>>

(* submitCollective: whether the StagingPolicy is Conservative *)
ConservativeStaging(collective, plan) ==
  ~ \/ collective \in {"allgather", "reducescatter", "broadcast"}
    \/ collective = "allreduce" /\ DirectOverwriteSafe(plan)

(* visible_src_buf, visible_dst_buf *)
Visible(staged, loc) ==
  IF loc \in staged THEN <<"INTERNAL", Owner(loc), Chunk(loc)>> ELSE loc

-----------------------------------------------------------------------------
(* Host rings *)

WrittenBy(plan, ops, loc) == {i \in DOMAIN plan : plan[i].op \in ops /\ plan[i].dst = loc}

StagingRing(plan, opts) == opts.slots >= 2 /\ PlanSubchunks(plan, opts) > opts.slots

(* ChunkMeta::ring *)
Ring(plan, opts, loc) ==
  LET d2h_writers == WrittenBy(plan, {"D2H"}, loc)
      is_h2h_dst  == WrittenBy(plan, {"H2H", "H2HReduce"}, loc) # {}
      is_h2d_src  == \E i \in DOMAIN plan : plan[i].op = "H2D" /\ plan[i].src = loc
  IN  /\ Space(loc) = "HOST"
      /\ \/ is_h2h_dst /\ d2h_writers = {} /\ ~is_h2d_src
         \/ StagingRing(plan, opts) /\ Cardinality(d2h_writers) = 1 /\ is_h2d_src /\ ~is_h2h_dst

-----------------------------------------------------------------------------
(* Versions and readers *)

InputLocations(plan) == {loc \in Locations(plan) : Space(loc) = "INPUT"}

(* The tables made before the walk: the staged outputs, the host locations *)
(* that are rings, and how often each location is written in all           *)
(* (final_produced_by_base).                                               *)
Tables(plan, opts, staged) ==
  [staged |-> staged,
   rings  |-> {loc \in Locations(plan) : Ring(plan, opts, loc)},
   final  |-> [loc \in {Visible(staged, l) : l \in Locations(plan)} |->
                 Cardinality({i \in DOMAIN plan : Visible(staged, plan[i].dst) = loc})],
   inputs |-> InputChunkCount(plan)]

(* The compiler's state while it walks the program: the version each       *)
(* location has been given last, the readers counted for each key, and the *)
(* nodes of the rank it compiles for.  Every rank's inputs start at        *)
(* version 0.                                                              *)
Start(inputs) == [latest |-> [loc \in inputs |-> 0], readers |-> <<>>, nodes |-> <<>>]

LatestExisting(walk, loc) ==
  Key(loc, IF loc \in DOMAIN walk.latest THEN walk.latest[loc] ELSE 0)

(* A location that is only written later is read at its final version. *)
Latest(tables, walk, loc) ==
  Key(loc, IF loc \in DOMAIN walk.latest THEN walk.latest[loc]
           ELSE IF loc \in DOMAIN tables.final THEN tables.final[loc]
           ELSE 0)

(* Mutation: every write of a location yields version 1. *)
Produce_OneVersion(walk, loc) == Key(loc, 1)

Produce(walk, loc) == Key(loc, LatestExisting(walk, loc)[2] + 1)

ReaderCount(walk, key) == IF key \in DOMAIN walk.readers THEN walk.readers[key] ELSE 0

Placement(opts, inst) ==
  CASE inst.op # "D2D" \/ Owner(inst.src) = inst.rank -> "Local"
    [] OTHER -> IF opts.push THEN "RemoteWrite" ELSE "RemoteRead"

ExecutionRank(opts, inst) ==
  IF Placement(opts, inst) = "RemoteWrite" THEN Owner(inst.src) ELSE inst.rank

(* NodeInput: the reader id is the number of readers counted before. *)
InputOf(tables, walk, key, id) ==
  [key |-> key, reader_id |-> ReaderCount(walk, key) + id, reads |-> TRUE, ring |-> key[1] \in tables.rings]

(* An input that is not counted as a reader (reader_id -1). *)
UncountedInput(key) == [key |-> key, reader_id |-> 0, reads |-> FALSE, ring |-> FALSE]

(* H2HReduce has two sources.  D2DReduce reads and rewrites its            *)
(* destination; that second input has no reader id of its own.             *)
InputsOf(tables, walk, op, src, src2, dst) ==
  <<InputOf(tables, walk, src, 0)>> \o
    CASE op = "D2DReduce" -> <<UncountedInput(Latest(tables, walk, dst))>>
      [] op = "H2HReduce" -> <<InputOf(tables, walk, src2, IF src2 = src THEN 1 ELSE 0)>>
      [] OTHER            -> <<>>

(* The node of an instruction *)
NodeOf(tables, opts, walk, inst, dst) ==
  [op        |-> inst.op,
   placement |-> Placement(opts, inst),
   remote    |-> IF Placement(opts, inst) = "RemoteWrite" THEN inst.rank ELSE Owner(inst.src),
   inputs    |-> InputsOf(tables, walk, inst.op, Latest(tables, walk, Visible(tables.staged, inst.src)),
                          Latest(tables, walk, Visible(tables.staged, inst.src2)), dst),
   output    |-> Produce(walk, dst),
   out_ring  |-> dst \in tables.rings,
   guard     |-> LatestExisting(walk, dst)]

(* What the node adds to the versions and the reader counts; it is kept if *)
(* it is the rank's own.                                                   *)
Advance(walk, node, own) ==
  LET read       == {i \in DOMAIN node.inputs : node.inputs[i].reads}
      reads(key) == Cardinality({i \in read : node.inputs[i].key = key})
  IN  [latest  |-> [loc \in DOMAIN walk.latest \cup {node.output[1]} |->
                      IF loc = node.output[1] THEN node.output[2] ELSE walk.latest[loc]],
       readers |-> [key \in DOMAIN walk.readers \cup {node.inputs[i].key : i \in read} |->
                      ReaderCount(walk, key) + reads(key)],
       nodes   |-> IF own THEN Append(walk.nodes, node) ELSE walk.nodes]

(* Pass 1: versions and reader ids are assigned over the whole program, so *)
(* that all ranks agree on them.                                           *)
Walk(plan, opts, tables, rank) ==
  LET walk[i \in 0 .. Len(plan)] ==
        IF i = 0 THEN Start(InputLocations(plan))
        ELSE Advance(walk[i - 1],
                     NodeOf(tables, opts, walk[i - 1], plan[i], Visible(tables.staged, plan[i].dst)),
                     ExecutionRank(opts, plan[i]) = rank)
  IN  walk[Len(plan)]

(* The copy of a staged result into the user's buffer.  It waits for the   *)
(* readers of the input chunk it overwrites.                               *)
Copyback(tables, opts, walk, loc) ==
  [op        |-> "D2D",
   placement |-> "Local",
   remote    |-> Owner(loc),
   inputs    |-> <<UncountedInput(Latest(tables, walk, Visible(tables.staged, loc)))>>,
   output    |-> Produce(walk, loc),
   out_ring  |-> FALSE,
   guard     |-> Latest(tables, walk,
                        IF opts.alias = "SameBase" /\ Chunk(loc) < tables.inputs
                        THEN <<"INPUT", Owner(loc), Chunk(loc)>> ELSE loc)]

(* The nodes of the walk, the copybacks, and the keys they use *)
CompiledGraph(tables, rank, outputs, walk, nodes) ==
  LET inputs    == {Key(<<"INPUT", rank, c>>, 0) : c \in 0 .. tables.inputs - 1}
      terminals == {IF loc \in tables.staged THEN Produce(walk, loc) ELSE Latest(tables, walk, loc) :
                      loc \in outputs}
      touched   == UNION {{nodes[n].output, nodes[n].guard}
                            \cup {nodes[n].inputs[j].key : j \in DOMAIN nodes[n].inputs} : n \in DOMAIN nodes}
  IN  [nodes                |-> nodes,
       initial_ready_inputs |-> inputs,
       terminal_outputs     |-> terminals,
       active_progress_keys |-> inputs \cup terminals \cup touched,
       num_readers          |-> {<<key, walk.readers[key]>> : key \in DOMAIN walk.readers}]

Finish(tables, opts, rank, outputs, walk) ==
  CompiledGraph(tables, rank, outputs, walk,
    walk.nodes \o SetToSeq({Copyback(tables, opts, walk, loc) : loc \in outputs \cap tables.staged}))

Compile(plan, opts, rank) ==
  LET tables == Tables(plan, opts, StagedOutputs(plan, opts))
  IN  Finish(tables, opts, rank, {"OUTPUT"} \X {rank} \X (0 .. OutputChunkCount(plan) - 1),
             Walk(plan, opts, tables, rank))

=============================================================================
