----------------------------- MODULE MCGraphRun -----------------------------
(* GraphRun on the plans of pcie-ccl-cuda/ir, compiled by PlanCompiler. *)
EXTENDS GraphRun, PlanCompiler, TLC

TwoRanks == {0, 1}
TwoNumas == {0, 1}

Inst(rank, op, src, dst) == [rank |-> rank, op |-> op, src |-> src, src2 |-> src, dst |-> dst]

In(r, c)   == <<"INPUT", r, c>>
Out(r, c)  == <<"OUTPUT", r, c>>
Tmp(r, c)  == <<"INTERNAL", r, c>>
Host(n, c) == <<"HOST", n, c>>

(* allgather_01.xml *)
AllGather01 == <<
  Inst(0, "D2H", In(0, 0), Host(0, 0)),
  Inst(0, "D2D", In(0, 0), Out(0, 0)),
  Inst(0, "H2D", Host(1, 1), Out(0, 1)),
  Inst(1, "D2H", In(1, 0), Host(1, 1)),
  Inst(1, "D2D", In(1, 0), Out(1, 1)),
  Inst(1, "H2D", Host(0, 0), Out(1, 0))>>

(* allgather_00_direct.xml *)
AllGather00Direct == <<
  Inst(0, "D2D", In(0, 0), Out(0, 0)),
  Inst(0, "D2D", In(1, 0), Out(0, 1)),
  Inst(1, "D2D", In(0, 0), Out(1, 0)),
  Inst(1, "D2D", In(1, 0), Out(1, 1))>>

(* allreduce_01.xml *)
AllReduce01 == <<
  Inst(0, "D2H", In(0, 1), Host(1, 1)),
  Inst(0, "D2D", In(0, 0), Tmp(0, 2)),
  Inst(0, "H2D", Host(0, 2), Tmp(0, 3)),
  Inst(0, "D2DReduce", Tmp(0, 3), Tmp(0, 2)),
  Inst(0, "D2H", Tmp(0, 2), Host(0, 4)),
  Inst(0, "D2D", Tmp(0, 2), Out(0, 0)),
  Inst(0, "H2D", Host(1, 5), Out(0, 1)),
  Inst(1, "D2H", In(1, 0), Host(0, 2)),
  Inst(1, "D2D", In(1, 1), Tmp(1, 2)),
  Inst(1, "H2D", Host(1, 1), Tmp(1, 3)),
  Inst(1, "D2DReduce", Tmp(1, 3), Tmp(1, 2)),
  Inst(1, "D2H", Tmp(1, 2), Host(1, 5)),
  Inst(1, "H2D", Host(0, 4), Out(1, 0)),
  Inst(1, "D2D", Tmp(1, 2), Out(1, 1))>>

(* broadcast_root0_00.xml *)
Broadcast00 == <<
  Inst(0, "D2H", In(0, 0), Host(0, 0)),
  Inst(0, "D2D", In(0, 0), Out(0, 0)),
  Inst(1, "H2D", Host(0, 0), Out(1, 0))>>

(* The first chunk of allreduce_00_direct.xml *)
AllReduce00Direct == <<
  Inst(0, "D2D", In(0, 0), Tmp(0, 2)),
  Inst(0, "D2D", In(1, 0), Tmp(0, 3)),
  Inst(0, "D2DReduce", Tmp(0, 3), Tmp(0, 2)),
  Inst(0, "D2D", Tmp(0, 2), Out(0, 0)),
  Inst(1, "D2D", In(1, 0), Tmp(1, 2)),
  Inst(1, "D2D", In(0, 0), Tmp(1, 3)),
  Inst(1, "D2DReduce", Tmp(1, 3), Tmp(1, 2)),
  Inst(1, "D2D", Tmp(1, 2), Out(1, 0))>>

(* The reduction of one NUMA node's ranks in allreduce_00112233.xml *)
HostReduce == <<
  Inst(0, "D2H", In(0, 0), Host(0, 0)),
  [Inst(0, "H2HReduce", Host(0, 0), Host(0, 8)) EXCEPT !.src2 = Host(0, 4)],
  Inst(0, "H2D", Host(0, 8), Out(0, 0)),
  Inst(1, "D2H", In(1, 0), Host(0, 4)),
  Inst(1, "H2D", Host(0, 8), Out(1, 0))>>

(* The GPUs on two NUMA nodes, and on one below one PCIe switch; the       *)
(* server with two GPUs on each of four nodes                              *)
Across   == [pattern |-> <<0, 1>>, nvlink |-> {}, switch |-> {}, peer |-> {}]
Together == [pattern |-> <<0, 0>>, nvlink |-> {}, switch |-> {{0, 1}}, peer |-> {<<0, 1>>, <<1, 0>>}]
Large    == [pattern |-> <<0, 0, 1, 1, 2, 2, 3, 3>>, nvlink |-> {}, switch |-> {}, peer |-> {}]

Plans ==
  (<<"allgather", <<0, 1>>, "relay">> :> AllGather01) @@
  (<<"allgather", <<0, 0>>, "direct">> :> AllGather00Direct) @@
  (<<"allreduce", <<0, 1>>, "relay">> :> AllReduce01) @@
  (<<"allreduce", <<0, 0>>, "direct">> :> AllReduce00Direct) @@
  (<<"broadcast", <<0, 0>>, "relay">> :> Broadcast00) @@
  (<<"allreduce", <<0, 0, 1, 1, 2, 2, 3, 3>>, "relay">> :> HostReduce)

Environment == [files |-> DOMAIN Plans, small_max |-> 4]

PlanFor(item) == Plans[LoadIR(Environment, item.collective, item.topo, 1)]

(* What the collectives promise about each output chunk. *)
Promised(collective, loc) ==
  CASE collective = "allgather" -> {<<loc[3], 0>>}
    [] collective = "allreduce" -> {<<q, loc[3]>> : q \in TwoRanks}
    [] collective = "broadcast" -> {<<0, 0>>}

DeviceLocs == {f \o <<c>> : f \in {"INPUT", "OUTPUT", "INTERNAL"} \X TwoRanks, c \in 0 .. 9}

(* In place a rank has one buffer; the input of an all-gather is its own   *)
(* segment of it.  An internal chunk is a buffer of its own.               *)
Home(item, plan, opts) ==
  [loc \in DeviceLocs |->
     CASE loc[1] = "INPUT" ->
            <<<<IF item.in_place THEN "BUFFER" ELSE "INPUT", loc[2]>>,
              ChunkOffset(opts.count, InputCps(plan, opts), loc[3])
                + IF item.in_place /\ item.collective = "allgather" THEN loc[2] * opts.count ELSE 0>>
       [] loc[1] = "OUTPUT" ->
            <<<<IF item.in_place THEN "BUFFER" ELSE "OUTPUT", loc[2]>>,
              ChunkOffset(opts.count, OutputCps(plan, opts), loc[3])>>
       [] OTHER -> <<loc, 0>>]

(* On no pair of GPUs does the selection end at a plan that is then        *)
(* refused for its peer copies.                                            *)
PairTopologies ==
  [pattern : {<<0, 0>>, <<0, 1>>}, nvlink : SUBSET {{0, 1}}, switch : SUBSET {{0, 1}},
   peer : SUBSET {<<0, 1>>, <<1, 0>>}]

ASSUME SelectionSupported ==
  \A topo \in PairTopologies, collective \in {"allgather", "allreduce", "broadcast"}, r \in TwoRanks :
    LET file == LoadIR(Environment, collective, topo, 1)
    IN  file # NotFound => ~UsesUnsupportedPeerD2D(Plans[file], topo, r)

Item(collective, topo, in_place, count) ==
  [collective |-> collective, topo |-> topo, in_place |-> in_place, count |-> count]

(* The work items of a descriptor *)
Built(item) ==
  LET plan == PlanFor(item)
      opts == [in_place |-> item.in_place,
               alias |-> IF item.collective = "allgather" THEN "AllGather" ELSE "SameBase",
               staging |-> ConservativeStaging(item.collective, plan), push |-> TRUE, slots |-> Slots,
               count |-> item.count, d2h_segments |-> 1,
               h2d_segments |-> IF item.collective = "allgather" THEN 2 ELSE 1]
  IN  [graphs |-> [i \in 1 .. 2 |-> Compile(plan, opts, i - 1)],
       subchunks |-> PlanSubchunks(plan, opts),
       home |-> Home(item, plan, opts),
       expected |-> [loc \in {Out(r, c) : r \in TwoRanks, c \in 0 .. OutputChunkCount(plan) - 1} |->
                       Promised(item.collective, loc)],
       empty |-> EmptySlices(plan, opts)]

(* Three workloads: host-relay collectives that follow each other on one   *)
(* communicator, the all-reduce of one element, whose chunk 0 is empty; a  *)
(* staged all-reduce with peer copies, then a reduction by the hosts; peer *)
(* copies where executors may fail.                                        *)
Workloads ==
  LET plain == <<
        [items |-> <<Item("allgather", Across, TRUE, 2),
                     Item("allreduce", Across, TRUE, 1),
                     Item("broadcast", Together, FALSE, 2)>>,
         may_fail |-> FALSE],
        [items |-> <<Item("allreduce", Together, TRUE, 2),
                     Item("allreduce", Large, TRUE, 1)>>,
         may_fail |-> FALSE],
        [items |-> <<Item("allgather", Together, FALSE, 2),
                     Item("allgather", Together, FALSE, 1)>>,
         may_fail |-> TRUE]>>
  IN  [i \in DOMAIN plain |->
         [programs |-> [k \in DOMAIN plain[i].items |-> Built(plain[i].items[k])],
          may_fail |-> plain[i].may_fail]]

=============================================================================
