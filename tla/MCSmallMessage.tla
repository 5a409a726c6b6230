--------------------------- MODULE MCSmallMessage ---------------------------
(* SmallMessage on two ranks. *)
EXTENDS SmallMessage

Everywhere(addr) == [r \in Ranks |-> addr]
OwnSegment(allocation) == [r \in Ranks |-> <<allocation, r>>]

AllReduceApart        == [kind |-> "AllReduce", send |-> Everywhere(<<"A", 0>>), recv |-> Everywhere(<<"B", 0>>)]
AllReduceInPlace      == [kind |-> "AllReduce", send |-> Everywhere(<<"A", 0>>), recv |-> Everywhere(<<"A", 0>>)]
AllGatherApart        == [kind |-> "AllGather", send |-> Everywhere(<<"A", 0>>), recv |-> Everywhere(<<"B", 0>>)]
AllGatherInPlace      == [kind |-> "AllGather", send |-> OwnSegment("B"), recv |-> Everywhere(<<"B", 0>>)]
ReduceScatterInPlace  == [kind |-> "ReduceScatter", send |-> Everywhere(<<"A", 0>>), recv |-> OwnSegment("A")]
ReduceScatterApart    == [kind |-> "ReduceScatter", send |-> Everywhere(<<"A", 0>>), recv |-> Everywhere(<<"B", 0>>)]

AllPairs  == {<<0, 1>>, <<1, 0>>}
OneWay    == {<<0, 1>>}

Setup(work, peers, ipc_enabled, may_fail) ==
  [work |-> work, peers |-> peers, ipc_enabled |-> ipc_enabled, may_fail |-> may_fail]

(* Collectives that follow each other use the same send buffer. *)
SameBufferSetups ==
  {Setup(<<AllReduceApart, ReduceScatterInPlace>>, AllPairs, ipc, FALSE) : ipc \in BOOLEAN} \cup
  {Setup(work, machine[1], machine[2], FALSE) :
     work \in {<<AllGatherInPlace, AllGatherInPlace>>, <<AllGatherApart, ReduceScatterApart>>},
     machine \in {<<AllPairs, TRUE>>, <<AllPairs, FALSE>>, <<OneWay, TRUE>>, <<{}, FALSE>>}} \cup
  {Setup(<<AllGatherApart, AllGatherApart, AllGatherApart>>, {}, FALSE, FALSE)} \cup
  {Setup(<<AllGatherApart, AllGatherApart>>, {}, FALSE, TRUE)}

(* In place, with direct reads *)
InPlaceSetups == {Setup(<<AllReduceInPlace>>, AllPairs, TRUE, FALSE)}

=============================================================================
