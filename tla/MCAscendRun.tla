---------------------------- MODULE MCAscendRun -----------------------------
(* AscendRun on plans of pcie-ccl-ascend/ir, compiled by AscendPlan. *)
EXTENDS AscendRun, AscendPlan

TwoRanks == {0, 1}
TwoNumas == {0, 1}

Inst(rank, op, src, dst) == [rank |-> rank, op |-> op, src |-> src, src2 |-> src, dst |-> dst]

In(r, c)   == <<"INPUT", r, c>>
Out(r, c)  == <<"OUTPUT", r, c>>
Tmp(r, c)  == <<"INTERNAL", r, c>>
Host(n, c) == <<"HOST", n, c>>

(* reducescatter_00.xml *)
ReduceScatter00 == <<
  Inst(0, "D2H", In(0, 1), Host(0, 1)),
  Inst(0, "D2D", In(0, 0), Out(0, 0)),
  Inst(0, "H2D", Host(0, 2), Tmp(0, 0)),
  Inst(0, "D2DReduce", Tmp(0, 0), Out(0, 0)),
  Inst(1, "D2H", In(1, 0), Host(0, 2)),
  Inst(1, "D2D", In(1, 1), Out(1, 0)),
  Inst(1, "H2D", Host(0, 1), Tmp(1, 0)),
  Inst(1, "D2DReduce", Tmp(1, 0), Out(1, 0))>>

(* allgather_00.xml *)
AllGather00 == <<
  Inst(0, "D2H", In(0, 0), Host(0, 0)),
  Inst(0, "D2D", In(0, 0), Out(0, 0)),
  Inst(0, "H2D", Host(0, 1), Out(0, 1)),
  Inst(1, "D2H", In(1, 0), Host(0, 1)),
  Inst(1, "D2D", In(1, 0), Out(1, 1)),
  Inst(1, "H2D", Host(0, 0), Out(1, 0))>>

(* allreduce_00.xml *)
AllReduce00 == <<
  Inst(0, "D2H", In(0, 1), Host(0, 0)),
  Inst(0, "D2D", In(0, 0), Tmp(0, 0)),
  Inst(0, "H2D", Host(0, 1), Tmp(0, 1)),
  Inst(0, "D2DReduce", Tmp(0, 1), Tmp(0, 0)),
  Inst(0, "D2H", Tmp(0, 0), Host(0, 2)),
  Inst(0, "D2D", Tmp(0, 0), Out(0, 0)),
  Inst(0, "H2D", Host(0, 3), Out(0, 1)),
  Inst(1, "D2H", In(1, 0), Host(0, 1)),
  Inst(1, "D2D", In(1, 1), Tmp(1, 1)),
  Inst(1, "H2D", Host(0, 0), Tmp(1, 0)),
  Inst(1, "D2DReduce", Tmp(1, 0), Tmp(1, 1)),
  Inst(1, "D2H", Tmp(1, 1), Host(0, 3)),
  Inst(1, "D2D", Tmp(1, 1), Out(1, 1)),
  Inst(1, "H2D", Host(0, 2), Out(1, 0))>>

(* broadcast_root0_00.xml *)
Broadcast00 == <<
  Inst(0, "D2H", In(0, 0), Host(0, 0)),
  Inst(0, "D2D", In(0, 0), Out(0, 0)),
  Inst(1, "H2D", Host(0, 0), Out(1, 0))>>

(* The way of one chunk in allgather_0011.xml, from a rank of one NUMA     *)
(* node to a rank of the other                                             *)
Relay01 == <<
  Inst(0, "D2H", In(0, 0), Host(0, 0)),
  Inst(0, "D2D", In(0, 0), Out(0, 0)),
  Inst(1, "H2H", Host(0, 0), Host(1, 4)),
  Inst(1, "H2D", Host(1, 4), Out(1, 0))>>

Plans == [reducescatter |-> ReduceScatter00, allgather |-> AllGather00, allreduce |-> AllReduce00,
          broadcast |-> Broadcast00, relay |-> Relay01]

(* compileGraph refuses none of them. *)
ASSUME PlansSupported == \A name \in DOMAIN Plans : ~ProgramUsesCrossRankDeviceSource(Plans[name])

(* The buffer of a device location.  In place both buffers are one; the    *)
(* input of an all-gather is then the rank's own segment of the output.    *)
Buffer(submission, loc) ==
  CASE loc[1] = "INTERNAL" -> loc
    [] submission.in_place /\ submission.collective = "allgather" ->
         <<"RECV", loc[2], IF loc[1] = "INPUT" THEN loc[2] ELSE loc[3]>>
    [] submission.in_place -> <<"RECV", loc[2], loc[3]>>
    [] submission.collective = "reducescatter" /\ loc[1] = "OUTPUT" -> <<"RECV", loc[2], loc[2]>>
    [] loc[1] = "INPUT" -> <<"SEND", loc[2], loc[3]>>
    [] OTHER -> <<"RECV", loc[2], loc[3]>>

(* What the collective promises of chunk c on rank r, of the inputs        *)
(* produced for work item seq                                              *)
Promise(collective, seq, r, c) ==
  CASE collective = "reducescatter" -> {<<seq, q, r>> : q \in TwoRanks}
    [] collective = "allreduce"     -> {<<seq, q, c>> : q \in TwoRanks}
    [] collective = "broadcast"     -> {<<seq, 0, 0>>}

(* A work item: submission `part` of a call of a collective, by a plan, on *)
(* the inputs of work item seq                                             *)
Item(collective, plan, in_place, count, part, seq) ==
  [collective |-> collective, plan |-> plan, in_place |-> in_place, count |-> count, part |-> part, seq |-> seq]

WorkItem(submission, plan, opts, item) ==
  LET outs == {"OUTPUT"} \X TwoRanks \X (0 .. OutputChunkCount(plan) - 1)
  IN  [graphs     |-> [i \in 1 .. 2 |-> AscendCompile(plan, opts, i - 1)],
       remap      |-> [n \in TwoNumas |-> DenseHostChunkMap(plan, n)],
       internal   |-> [i \in 1 .. 2 |-> InternalElements(plan, opts, i - 1)],
       subchunks  |-> PlanSubchunks(plan, opts),
       chunk_size |-> ChunkSize(plan, opts),
       required   |-> [n \in TwoNumas |-> RequiredStaging(plan, opts, n)],
       home       |-> [loc \in Locations(plan) \cup outs |-> Buffer(submission, loc)],
       empty      |-> EmptySlices(plan, opts),
       produced   |-> IF item.part = 1 THEN InputLocations(plan) ELSE {},
       expected   |-> [loc \in outs |->
                         Promise(IF item.part = 1 THEN submission.collective ELSE item.collective,
                                 item.seq, loc[2], loc[3])]]

Built(item) ==
  LET submission == Submissions(item.collective, 2, item.in_place, item.count)[item.part]
  IN  WorkItem(submission, Plans[item.plan], PlanOptions(submission, Plans[item.plan]), item)

ThreeComms == {"A", "B", "C"}

OnlyA(items) == [c \in ThreeComms |-> IF c = "A" THEN items ELSE <<>>]

(* An all-reduce out of place is two work items. *)
AllReduceScenario ==
  [script |-> <<<<"init", "A">>, <<"submit", "A">>, <<"submit", "A">>, <<"sync", "A">>, <<"destroy", "A">>>>,
   items |-> OnlyA(<<Item("allreduce", "reducescatter", FALSE, 2, 1, 1),
                     Item("allreduce", "allgather", FALSE, 2, 2, 1)>>),
   capacity |-> 8, failures |-> FALSE]

(* In place, of one element in two chunks: the first one is empty. *)
InPlaceScenario ==
  [script |-> <<<<"init", "A">>, <<"submit", "A">>, <<"sync", "A">>>>,
   items |-> OnlyA(<<Item("allreduce", "allreduce", TRUE, 1, 1, 1)>>), capacity |-> 8, failures |-> FALSE]

(* The internal buffer grows between two reduce-scatters. *)
GrowScenario ==
  [script |-> <<<<"init", "A">>, <<"submit", "A">>, <<"submit", "A">>, <<"destroy", "A">>>>,
   items |-> OnlyA(<<Item("reducescatter", "reducescatter", FALSE, 1, 1, 1),
                     Item("reducescatter", "reducescatter", FALSE, 2, 1, 2)>>),
   capacity |-> 8, failures |-> FALSE]

(* Copies between NUMA nodes *)
RelayScenario ==
  [script |-> <<<<"init", "A">>, <<"submit", "A">>, <<"submit", "A">>, <<"sync", "A">>>>,
   items |-> OnlyA(<<Item("broadcast", "relay", FALSE, 3, 1, 1), Item("broadcast", "relay", FALSE, 1, 1, 2)>>),
   capacity |-> 4, failures |-> FALSE]

(* Two communicators with the same hash, whose regions lie side by side *)
ShareScenario ==
  [script |-> <<<<"init", "A">>, <<"init", "B">>, <<"submit", "A">>, <<"submit", "B">>>>,
   items |-> [c \in ThreeComms |-> <<Item("broadcast", "broadcast", TRUE, 1, 1, 1)>>],
   capacity |-> 4, failures |-> FALSE]

(* There is room for one of their regions, and a third communicator finds  *)
(* no place.                                                               *)
WaitScenario ==
  [ShareScenario EXCEPT
     !.script = <<<<"init", "A">>, <<"init", "B">>, <<"init", "C">>, <<"submit", "C">>, <<"destroy", "C">>,
                  <<"submit", "A">>, <<"submit", "B">>, <<"destroy", "B">>, <<"destroy", "A">>>>,
     !.capacity = 2]

(* Waits time out, prepareUserWait fails, and a work may be pushed after   *)
(* the one before has failed.                                              *)
FailureScenario ==
  [script |-> <<<<"init", "A">>, <<"submit", "A">>, <<"submit", "A">>>>,
   items |-> OnlyA(<<Item("broadcast", "broadcast", FALSE, 1, 1, 1), Item("broadcast", "relay", FALSE, 1, 1, 2)>>),
   capacity |-> 4, failures |-> TRUE]

(* A communicator is destroyed after failures. *)
DestroyScenario ==
  [FailureScenario EXCEPT !.script = <<<<"init", "A">>, <<"submit", "A">>, <<"destroy", "A">>>>,
                          !.items = OnlyA(<<Item("broadcast", "relay", FALSE, 1, 1, 1)>>)]

(* The hashes of all communicators collide. *)
AllScenarios ==
  LET plain == <<AllReduceScenario, InPlaceScenario, GrowScenario, RelayScenario, ShareScenario, WaitScenario,
                 FailureScenario, DestroyScenario>>
  IN  [i \in DOMAIN plain |->
         [script   |-> plain[i].script,
          index    |-> [c \in ThreeComms |-> 0],
          works    |-> [c \in ThreeComms |->
                          [k \in DOMAIN plain[i].items[c] |-> Built(plain[i].items[c][k])]],
          capacity |-> [n \in TwoNumas |-> plain[i].capacity],
          failures |-> plain[i].failures]]

=============================================================================
