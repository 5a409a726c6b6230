---------------------------- MODULE MCCommSetup ----------------------------
(***************************************************************************)
(* Small programs of communicator calls for CommSetup.                     *)
(***************************************************************************)
EXTENDS CommSetup, TLC

InitRankOf(c) == [op |-> "InitRank", comm |-> c, makes |-> c]
SplitTo(c, color, new) == [op |-> "Split", comm |-> c, color |-> color, makes |-> new, ok |-> TRUE]
FailedSplit(c) == [op |-> "Split", comm |-> c, color |-> 0, makes |-> "none", ok |-> FALSE]
SubCommOf(c, id, ranks, new) ==
  [op |-> "SubComm", comm |-> c, color |-> id, ranks |-> ranks, makes |-> new]
On(c, collective, n) ==
  [op |-> collective, comm |-> c, makes |-> "none", count |-> n, recv_count |-> n]
Unequal(c) == [On(c, "AllToAll", 2) EXCEPT !.recv_count = 1]
DestroyOf(c) == [op |-> "Destroy", comm |-> c, makes |-> "none"]

(* two communicators of one process, destroyed one after the other *)
TwoComms ==
  [prog |-> [t \in 1..2 |-> <<InitRankOf("A"), InitRankOf("B"), On("A", "AllReduce", 2),
                              DestroyOf("A"), On("B", "AllGather", 1), DestroyOf("B")>>],
   proc |-> <<1, 2>>, node |-> <<1, 1>>, dev |-> <<0, 1>>, pcie |-> {"A", "B"}, child_pcie |-> FALSE]

(* three ranks on two nodes *)
TwoNodes ==
  [prog |-> [t \in 1..3 |-> <<InitRankOf("A"), On("A", "AllReduce", 6), DestroyOf("A")>>],
   proc |-> <<1, 2, 3>>, node |-> <<1, 1, 2>>, dev |-> <<0, 1, 2>>, pcie |-> {"A"}, child_pcie |-> FALSE]

(* splits that fail, that leave a rank out, that take all ranks *)
Splits(child) ==
  [prog |-> [t \in 1..3 |->
     <<InitRankOf("A"), FailedSplit("A"),
       SplitTo("A", 0, IF t = 1 THEN "none" ELSE "S"), SplitTo("A", 0, "U")>>
     \o (IF t = 1 THEN <<>> ELSE <<On("S", "ReduceScatter", 1)>>)
     \o <<On("U", "AllToAll", 2), DestroyOf("U")>>],
   proc |-> <<1, 2, 3>>, node |-> <<1, 1, 1>>, dev |-> <<0, 1, 2>>, pcie |-> {"U"}, child_pcie |-> child]

(* two threads in each process; the handle of A may be given to B *)
Threaded ==
  [prog |-> [t \in 1..4 |-> IF t \in {1, 3} THEN <<InitRankOf("A"), DestroyOf("A")>>
                            ELSE <<InitRankOf("B"), On("B", "AllToAll", 1), DestroyOf("B")>>],
   proc |-> <<1, 1, 2, 2>>, node |-> <<1, 1>>, dev |-> <<0, 2, 1, 3>>, pcie |-> {"B"}, child_pcie |-> FALSE]

(* sub-communicators of HCCL that differ in their id or in their ranks *)
SubComms ==
  [prog |-> [t \in 1..3 |->
     <<InitRankOf("A")>>
     \o (IF t = 3 THEN <<>> ELSE <<SubCommOf("A", 7, <<0, 1>>, "S"), SubCommOf("A", 8, <<0, 1>>, "T"),
                                   On("S", "AllGather", 5), Unequal("T")>>)
     \o (IF t = 1 THEN <<>> ELSE <<SubCommOf("A", 7, <<1, 2>>, "U"), On("U", "Broadcast", 1)>>)],
   proc |-> <<1, 2, 3>>, node |-> <<1, 1, 1>>, dev |-> <<0, 1, 2>>, pcie |-> {"S", "T"}, child_pcie |-> FALSE]

MCScenarios == {TwoComms, TwoNodes, Splits(TRUE), Splits(FALSE), Threaded, SubComms}
=============================================================================
