----------------------------- MODULE CommSetup -----------------------------
(***************************************************************************)
(* Communicators under the orchestrator's hooks: how a communicator of the *)
(* native library (NCCL or HCCL) gets its domain, how its ranks decide     *)
(* whether it lies inside one node, how its PCIe twin is made, which route *)
(* a collective takes, and how everything is taken down again.             *)
(*                                                                         *)
(* A thread drives one device and runs a program of communicator calls.    *)
(* Threads of a process share the domain map, the split ordinals and the   *)
(* count of PCIe communicators; processes of a node share one registration *)
(* segment per communicator key.  Hashes are taken to be free of           *)
(* collisions: a key is the list of what is hashed.                        *)
(***************************************************************************)
EXTENDS Integers, Sequences, FiniteSets, Functions

CONSTANTS
  Scenarios,     \* what may run: threads, where they are placed, their programs
  MaySkew,       \* a rank may come later than AMPCCL_NODE_SCOPE_WAIT_MS
  MinMsgSize,    \* bytes from which a collective is worth splitting
  ManyRanks,     \* the communicator size that has a threshold of its own (8 in the code)
  ManyRanksMin,  \* ... which is kEightRankInterceptMinBytes
  SizeMax        \* greatest size_t

(* A call of a program names the communicator it works on and, if it makes  *)
(* one, the new communicator ("none" for a split without colour).           *)
Collectives == {"AllReduce", "AllGather", "ReduceScatter", "AllToAll", "Broadcast"}
Ops == {"InitRank", "Split", "SubComm", "Destroy"} \cup Collectives

ASSUME ScenarioAssumption ==
  /\ MaySkew \in BOOLEAN
  /\ {MinMsgSize, ManyRanks, ManyRanksMin, SizeMax} \subseteq Nat
  /\ \A s \in Scenarios :
       /\ DOMAIN s.prog \subseteq Nat
       /\ \A t \in DOMAIN s.prog : \A i \in DOMAIN s.prog[t] : s.prog[t][i].op \in Ops

VARIABLES
  scenario,
  ip, pc, calls,            \* each thread: position, step of the current call, calls made per communicator
  handle,                   \* each thread: the raw handle it has for a communicator
  domains, ordinals, live,  \* each process: raw_to_domain_, split ordinals, g_pccl_comm_live
  pccl, finalized,          \* each process: PCIe communicators that exist, and those a finalize tore down
  segments,                 \* registrations: of a key on a node, the threads in the slots
  joined,                   \* threads that have entered pcclCommInitRank of a communicator
  registered, route         \* history: keys the communicators got; routes the collectives took

program == <<scenario>>
threads == <<ip, pc, calls, handle>>
process == <<domains, ordinals, live, pccl, finalized>>
vars == <<program, threads, process, segments, joined, registered, route>>

Threads == DOMAIN scenario.prog
Proc(t) == scenario.proc[t]
Procs == Range(scenario.proc)
NodeOf(t) == scenario.node[Proc(t)]
AllOps == UNION {Range(scenario.prog[t]) : t \in Threads}
Comms == {o.comm : o \in AllOps} \cup ({o.makes : o \in AllOps} \ {"none"})
ThreadIds == 1..4                     \* bound on the threads of a scenario
Handles == 1..4                       \* addresses the native library may return

(* who belongs to a communicator: the threads whose programs make it *)
Members(c) == {t \in Threads : \E o \in Range(scenario.prog[t]) : o.makes = c}
RankIn(t, c) == Cardinality({u \in Members(c) : u < t})
Size(c) == Cardinality(Members(c))
Op(t) == scenario.prog[t][ip[t]]
Domain(t, c) == domains[Proc(t)][handle[t][c]]

NoHandle == 0
NewDomain(c, k) ==
  [comm |-> c, key |-> k, allow |-> TRUE, pcie_comm |-> FALSE, pcie_nranks |-> 0]
NoDomain == [NewDomain("none", <<>>) EXCEPT !.allow = FALSE]

Init ==
  /\ scenario \in Scenarios
  /\ ip = [t \in Threads |-> 1]
  /\ pc = [t \in Threads |-> "call"]
  /\ calls = [t \in Threads |-> [c \in Comms |-> 0]]
  /\ handle = [t \in Threads |-> [c \in Comms |-> NoHandle]]
  /\ domains = [p \in Procs |-> [h \in Handles |-> NoDomain]]
  /\ ordinals = [p \in Procs |-> [h \in Handles |-> 0]]
  /\ live = [p \in Procs |-> 0]
  /\ pccl = [p \in Procs |-> {}]
  /\ finalized = [p \in Procs |-> {}]
  /\ segments = {}
  /\ joined = {}
  /\ registered = {}
  /\ route = {}

Goto(t, label) == pc' = [pc EXCEPT ![t] = label]
Return(t) ==
  /\ pc' = [pc EXCEPT ![t] = "call"]
  /\ ip' = [ip EXCEPT ![t] = @ + 1]
At(t, label) == t \in Threads /\ ip[t] <= Len(scenario.prog[t]) /\ pc[t] = label
Running(t, ops, label) == At(t, label) /\ Op(t).op \in ops

(***************************************************************************)
(* The native library (external): a call on a communicator returns on a    *)
(* rank once every rank has made it.                                       *)
(***************************************************************************)
Together(t, c) == \A u \in Members(c) : calls[u][c] >= calls[t][c]
CallNative(t, c) == calls' = [calls EXCEPT ![t][c] = @ + 1]
FreeHandle(p) ==                      \* memory just freed is given out again
  CHOOSE h \in Handles :
    LET free == {i \in Handles : \A t \in Threads : Proc(t) = p => i \notin Range(handle[t])}
    IN h \in free /\ \A i \in free : h <= i

(***************************************************************************)
(* Keys (comm_init.h): the bootstrap bytes, or the parent's key and what   *)
(* tells its children apart.                                               *)
(***************************************************************************)
BuildLogicalKeyFromBootstrap(c) == <<c, Size(c)>>
BuildLogicalKeyFromCommSplit(parent, color, split_ordinal, n) ==
  parent \o <<n, color, split_ordinal>>
BuildLogicalKeyFromHcclSubComm(parent, rank_ids, sub_comm_id, n) ==
  parent \o <<n, sub_comm_id>> \o rank_ids

(***************************************************************************)
(* Making a communicator: the native call, then a domain under its handle. *)
(***************************************************************************)
CallInit(t) ==
  /\ Running(t, {"InitRank", "Split", "SubComm"}, "call")
  /\ CallNative(t, IF Op(t).op = "Split" THEN Op(t).comm ELSE Op(t).makes)
  /\ Goto(t, "native")
  /\ UNCHANGED <<program, ip, handle, process, segments, joined, registered, route>>

RegisterRawComm(t, c, key) ==
  LET h == FreeHandle(Proc(t))
  IN /\ handle' = [handle EXCEPT ![t][c] = h]
     /\ domains' = [domains EXCEPT ![Proc(t)][h] = NewDomain(c, key)]
     /\ registered' = registered \cup {[comm |-> c, key |-> key]}

InitRank(t) ==
  /\ Running(t, {"InitRank"}, "native")
  /\ Together(t, Op(t).makes)
  /\ RegisterRawComm(t, Op(t).makes, BuildLogicalKeyFromBootstrap(Op(t).makes))
  /\ Goto(t, "register")
  /\ UNCHANGED <<program, ip, calls, ordinals, live, pccl, finalized, segments, joined, route>>

(* The ordinal counts the successful splits of the parent handle, whether  *)
(* or not this rank gets a child.                                          *)
NextNcclCommSplitOrdinal(t, h) == ordinals' = [ordinals EXCEPT ![Proc(t)][h] = @ + 1]

(* mutant: only a rank that gets a child counts the split *)
CommSplit_CountsChildren(t) ==
  LET o == Op(t)
      h == handle[t][o.comm]
  IN /\ Running(t, {"Split"}, "native")
     /\ Together(t, o.comm)
     /\ \/ /\ ~o.ok \/ o.makes = "none"
           /\ Return(t)
           /\ UNCHANGED <<handle, process, registered>>
        \/ /\ o.ok /\ o.makes # "none"
           /\ NextNcclCommSplitOrdinal(t, h)
           /\ RegisterRawComm(t, o.makes,
                BuildLogicalKeyFromCommSplit(Domain(t, o.comm).key, o.color,
                                             ordinals[Proc(t)][h], Size(o.makes)))
           /\ Goto(t, "register")
           /\ UNCHANGED <<ip, live, pccl, finalized>>
     /\ UNCHANGED <<program, calls, segments, joined, route>>

CommSplit(t) ==
  LET o == Op(t)
      h == handle[t][o.comm]
  IN /\ Running(t, {"Split"}, "native")
     /\ Together(t, o.comm)
     /\ \/ /\ ~o.ok
           /\ Return(t)
           /\ UNCHANGED <<handle, process, registered>>
        \/ /\ o.ok /\ o.makes = "none"
           /\ NextNcclCommSplitOrdinal(t, h)
           /\ Return(t)
           /\ UNCHANGED <<handle, domains, live, pccl, finalized, registered>>
        \/ /\ o.ok /\ o.makes # "none"
           /\ NextNcclCommSplitOrdinal(t, h)
           /\ RegisterRawComm(t, o.makes,
                BuildLogicalKeyFromCommSplit(Domain(t, o.comm).key, o.color,
                                             ordinals[Proc(t)][h], Size(o.makes)))
           /\ Goto(t, "register")
           /\ UNCHANGED <<ip, live, pccl, finalized>>
     /\ UNCHANGED <<program, calls, segments, joined, route>>

(* HcclCreateSubCommConfig: only the named ranks call it *)
CreateSubComm(t) ==
  LET o == Op(t)
  IN /\ Running(t, {"SubComm"}, "native")
     /\ Together(t, o.makes)
     /\ RegisterRawComm(t, o.makes,
          BuildLogicalKeyFromHcclSubComm(Domain(t, o.comm).key, o.ranks, o.color, Size(o.makes)))
     /\ Goto(t, "register")
     /\ UNCHANGED <<program, ip, calls, ordinals, live, pccl, finalized, segments, joined, route>>

(***************************************************************************)
(* Node scope (node_scope.cc): each rank enters itself in the segment of   *)
(* the key on its node and polls until all have, or a deadline passes.     *)
(***************************************************************************)
Slot(t, c) == [node |-> NodeOf(t), key |-> Domain(t, c).key, thread |-> t, comm |-> c]

RegisterNodeScopeRank(t) ==
  /\ At(t, "register")
  /\ segments' = segments \cup {Slot(t, Op(t).makes)}
  /\ Goto(t, "resolve")
  /\ UNCHANGED <<program, ip, calls, handle, process, joined, registered, route>>

Seen(t, c) ==
  {s.thread : s \in {x \in segments : x.node = NodeOf(t) /\ x.key = Domain(t, c).key}}

Contiguous(c) ==
  LET dev(r) == scenario.dev[CHOOSE t \in Members(c) : RankIn(t, c) = r]
  IN /\ \A r \in 0..Size(c) - 1 : dev(r) = dev(0) + r
     /\ Size(c) = 2 => dev(0) \div 2 = dev(1) \div 2

(* ApplyNodeScopeDecision, and what its caller does with the answer: make  *)
(* the PCIe communicator, or leave the domain on the native route.  A split *)
(* child stays native unless AMPCCL_PCIE_CHILD_COMMS is set.               *)
MayUsePCIe(t) == Op(t).op = "Split" => scenario.child_pcie

ApplyNodeScopeDecision(t, allow) ==
  LET c == Op(t).makes
      use == allow /\ MayUsePCIe(t)
  IN /\ domains' = [domains EXCEPT ![Proc(t)][handle[t][c]].allow = use]
     /\ IF use THEN Goto(t, "pcie") /\ UNCHANGED ip ELSE Return(t)
     /\ UNCHANGED <<program, calls, handle, ordinals, live, pccl, finalized, segments, joined, registered, route>>

(* mutant: most ranks are enough *)
ResolveNodeScope_MostRanks(t) ==
  /\ At(t, "resolve")
  /\ 2 * Cardinality(Seen(t, Op(t).makes)) > Size(Op(t).makes)
  /\ ApplyNodeScopeDecision(t, Contiguous(Op(t).makes))

ResolveNodeScope(t) ==
  /\ At(t, "resolve")
  /\ Seen(t, Op(t).makes) = Members(Op(t).makes)
  /\ ApplyNodeScopeDecision(t, Contiguous(Op(t).makes))

(* mutant: polls without a deadline *)
NodeScopeTimeout_Never(t) ==
  /\ At(t, "resolve") /\ FALSE
  /\ ApplyNodeScopeDecision(t, FALSE)

(* The deadline is assumed to be longer than the ranks are apart, unless    *)
(* MaySkew: then it may pass while another rank is still to come.          *)
NodeScopeTimeout(t) ==
  LET c == Op(t).makes
  IN /\ At(t, "resolve")
     /\ Seen(t, c) # Members(c)
     /\ MaySkew \/ \A u \in Members(c) : \E s \in segments : s.thread = u /\ s.comm = c
     /\ ApplyNodeScopeDecision(t, FALSE)

(***************************************************************************)
(* InitPCIeForDomain (comm_init.cc): pcclCommInitRank meets the other      *)
(* ranks; if it fails the domain stays allowed and has no PCIe             *)
(* communicator.                                                           *)
(***************************************************************************)
InitPCIeForDomain(t) ==
  LET c == Op(t).makes
  IN /\ At(t, "pcie")
     /\ domains' = [domains EXCEPT ![Proc(t)][handle[t][c]].pcie_nranks = Size(c)]
     /\ joined' = joined \cup {<<t, c>>}
     /\ Goto(t, "pccl")
     /\ UNCHANGED <<program, ip, calls, handle, ordinals, live, pccl, finalized, segments, registered, route>>

PcclReady(t) ==
  LET c == Op(t).makes
  IN /\ At(t, "pccl")
     /\ c \in scenario.pcie /\ Members(c) \X {c} \subseteq joined
     /\ domains' = [domains EXCEPT ![Proc(t)][handle[t][c]].pcie_comm = TRUE]
     /\ pccl' = [pccl EXCEPT ![Proc(t)] = @ \cup {c}]
     /\ Goto(t, "count")
     /\ UNCHANGED <<program, ip, calls, handle, ordinals, live, finalized, segments, joined, registered, route>>

(* it fails everywhere, or a peer registered otherwise and never comes *)
PcclFails(t) ==
  LET c == Op(t).makes
      bypassed(u) == /\ handle[u][c] \in Handles
                     /\ Domain(u, c).comm = c /\ ~Domain(u, c).allow
  IN /\ At(t, "pccl")
     /\ c \notin scenario.pcie \/ \E u \in Members(c) : bypassed(u)
     /\ Return(t)
     /\ UNCHANGED <<program, calls, handle, process, segments, joined, registered, route>>

CountLive(t) ==
  /\ At(t, "count")
  /\ live' = [live EXCEPT ![Proc(t)] = @ + 1]
  /\ Return(t)
  /\ UNCHANGED <<program, calls, handle, domains, ordinals, pccl, finalized, segments, joined, registered, route>>

(***************************************************************************)
(* A collective: the hook takes the native route, or enters the            *)
(* orchestrator, whose ranks first meet in the parameter store.            *)
(***************************************************************************)
HookInterceptMinBytes(n) == IF n = ManyRanks THEN ManyRanksMin ELSE MinMsgSize

(* Counts are per rank but for the all-reduce, in elements of one byte. *)
LargestCollectiveBufferBytes(op, n, count) == IF op = "AllReduce" THEN count ELSE count * n

(* A size that does not fit, or a domain without PCIe ranks, is not taken. *)
ShouldIntercept(op, n, count) ==
  /\ n > 0
  /\ LargestCollectiveBufferBytes(op, n, count) \in HookInterceptMinBytes(n) .. SizeMax

RouteOf(t) ==
  LET d == Domain(t, Op(t).comm)
  IN IF /\ d.comm # "none"
        /\ d.allow
        /\ ShouldIntercept(Op(t).op, d.pcie_nranks, Op(t).count)
     THEN "ampccl" ELSE "native"

Enter(t, way) ==
  LET c == Op(t).comm
  IN /\ route' = route \cup {[comm |-> c, nth |-> calls[t][c], thread |-> t, route |-> way]}
     /\ Goto(t, IF way = "native" THEN "fast" ELSE "store")
     /\ UNCHANGED <<program, ip, calls, handle, process, segments, joined, registered>>

AllReduce(t) == Running(t, {"AllReduce"}, "call") /\ Enter(t, RouteOf(t))

AllGather(t) == Running(t, {"AllGather"}, "call") /\ Enter(t, RouteOf(t))

ReduceScatter(t) == Running(t, {"ReduceScatter"}, "call") /\ Enter(t, RouteOf(t))

(* HcclAlltoAll leaves unequal counts to the native library. *)
AllToAll(t) ==
  /\ Running(t, {"AllToAll"}, "call")
  /\ Enter(t, IF Op(t).recv_count # Op(t).count THEN "native" ELSE RouteOf(t))

(* The other collectives are passed on without a look at the domain. *)
Broadcast(t) == Running(t, {"Broadcast"}, "call") /\ Enter(t, "native")

ShmRound(t) ==
  /\ Running(t, Collectives, "store")
  /\ LET c == Op(t).comm
     IN \A u \in Members(c) :
          [comm |-> c, nth |-> calls[t][c], thread |-> u, route |-> "ampccl"] \in route
  /\ Goto(t, "fast")
  /\ UNCHANGED <<program, ip, calls, handle, process, segments, joined, registered, route>>

NativeCollective(t) ==
  /\ Running(t, Collectives, "fast")
  /\ CallNative(t, Op(t).comm)
  /\ Goto(t, "running")
  /\ UNCHANGED <<program, ip, handle, process, segments, joined, registered, route>>

CollectiveEnds(t) ==
  /\ Running(t, Collectives, "running")
  /\ Together(t, Op(t).comm)
  /\ Return(t)
  /\ UNCHANGED <<program, calls, handle, process, segments, joined, registered, route>>

(***************************************************************************)
(* Destroying a communicator: PCIe resources, the count and perhaps the    *)
(* library, the domain, and last the native communicator.                  *)
(***************************************************************************)
DestroyPCIeForDomain(t) ==
  LET c == Op(t).comm
      p == Proc(t)
      h == handle[t][c]
  IN /\ Running(t, {"Destroy"}, "call")
     /\ ordinals' = [ordinals EXCEPT ![p][h] = 0]
     /\ IF Domain(t, c).pcie_comm
        THEN /\ pccl' = [pccl EXCEPT ![p] = @ \ {c}]
             /\ domains' = [domains EXCEPT ![p][h].pcie_comm = FALSE]
             /\ Goto(t, "uncount")
        ELSE /\ Goto(t, "unregister")
             /\ UNCHANGED <<pccl, domains>>
     /\ UNCHANGED <<program, ip, calls, handle, live, finalized, segments, joined, registered, route>>

(* mutant: compares the count before the decrement *)
Uncount_OldValue(t) ==
  LET p == Proc(t)
  IN /\ Running(t, {"Destroy"}, "uncount")
     /\ live' = [live EXCEPT ![p] = @ - 1]
     /\ Goto(t, IF live[p] <= 2 THEN "finalize" ELSE "unregister")
     /\ UNCHANGED <<program, ip, calls, handle, domains, ordinals, pccl, finalized, segments, joined, registered, route>>

Uncount(t) ==
  LET p == Proc(t)
  IN /\ Running(t, {"Destroy"}, "uncount")
     /\ live' = [live EXCEPT ![p] = @ - 1]
     /\ Goto(t, IF live[p] = 1 THEN "finalize" ELSE "unregister")
     /\ UNCHANGED <<program, ip, calls, handle, domains, ordinals, pccl, finalized, segments, joined, registered, route>>

PcclFinalize(t) ==
  LET p == Proc(t)
  IN /\ Running(t, {"Destroy"}, "finalize")
     /\ finalized' = [finalized EXCEPT ![p] = @ \cup pccl[p]]
     /\ Goto(t, "unregister")
     /\ UNCHANGED <<program, ip, calls, handle, domains, ordinals, live, pccl, segments, joined, registered, route>>

(* mutant: the native communicator is destroyed before its domain is removed *)
UnregisterRawComm_AfterNative(t) ==
  LET c == Op(t).comm
  IN \/ /\ Running(t, {"Destroy"}, "unregister")
        /\ handle' = [handle EXCEPT ![t][c] = -@]
        /\ Goto(t, "late")
        /\ UNCHANGED <<program, ip, calls, process, segments, joined, registered, route>>
     \/ /\ Running(t, {"Destroy"}, "late")
        /\ domains' = [domains EXCEPT ![Proc(t)][-handle[t][c]] = NoDomain]
        /\ Goto(t, "release")
        /\ UNCHANGED <<program, ip, calls, handle, ordinals, live, pccl, finalized, segments, joined, registered, route>>

UnregisterRawComm(t) ==
  LET c == Op(t).comm
  IN /\ Running(t, {"Destroy"}, "unregister")
     /\ domains' = [domains EXCEPT ![Proc(t)][handle[t][c]] = NoDomain]
     /\ Goto(t, "release")
     /\ UNCHANGED <<program, ip, calls, handle, ordinals, live, pccl, finalized, segments, joined, registered, route>>

DestroyNative(t) ==
  /\ Running(t, {"Destroy"}, "release")
  /\ handle' = [handle EXCEPT ![t][Op(t).comm] = NoHandle]
  /\ Return(t)
  /\ UNCHANGED <<program, calls, process, segments, joined, registered, route>>

Finished == \A t \in Threads : ip[t] > Len(scenario.prog[t])

Step(t) ==
  \/ CallInit(t) \/ InitRank(t) \/ CommSplit(t) \/ CreateSubComm(t)
  \/ RegisterNodeScopeRank(t) \/ ResolveNodeScope(t) \/ NodeScopeTimeout(t)
  \/ InitPCIeForDomain(t) \/ PcclReady(t) \/ PcclFails(t) \/ CountLive(t)
  \/ AllReduce(t) \/ AllGather(t) \/ ReduceScatter(t) \/ AllToAll(t) \/ Broadcast(t)
  \/ ShmRound(t) \/ NativeCollective(t) \/ CollectiveEnds(t)
  \/ DestroyPCIeForDomain(t) \/ Uncount(t) \/ PcclFinalize(t)
  \/ UnregisterRawComm(t) \/ DestroyNative(t)

Next == \E t \in ThreadIds : Step(t)

(* every thread goes on: the application calls, the waits poll or block *)
Spec == Init /\ [][Next]_vars /\ \A t \in ThreadIds : WF_vars(Step(t))

(* The counters and maps keep their ranges; g_pccl_comm_live is a signed   *)
(* counter that the code takes to be the number of PCIe communicators.     *)
TypeOK ==
  /\ \A t \in Threads : ip[t] \in 1..Len(scenario.prog[t]) + 1
  /\ \A t \in Threads, c \in Comms : handle[t][c] \in Handles \cup {NoHandle}
  /\ \A p \in Procs : live[p] \in 0..Cardinality(Comms) /\ pccl[p] \subseteq Comms
  /\ \A p \in Procs, h \in Handles :
       domains[p][h].comm \in Comms \cup {"none"} /\ ordinals[p][h] \in Nat
  /\ \A s \in segments : s.thread \in Threads
  /\ joined \subseteq Threads \X Comms

(* A key names one communicator and a communicator has one key: its ranks  *)
(* meet in the same segments and under the same PCIe id, and never with    *)
(* the ranks of another one, although each rank derives the key by itself  *)
(* from the calls it has seen (comm_init.h, NextNcclCommSplitOrdinal).     *)
KeyIdentifies ==
  \A d, e \in registered : d.comm = e.comm <=> d.key = e.key

(* All ranks of a collective take the same route.  Otherwise those inside  *)
(* the orchestrator wait in the parameter store for ranks that have gone   *)
(* to the native library, which waits for them (nccl_hook.cc:473-497).     *)
SameRoute ==
  \A r, s \in route : r.comm = s.comm /\ r.nth = s.nth => r.route = s.route

(* Only a communicator whose ranks all sit on one node, on neighbouring    *)
(* devices, enters the orchestrator (node_scope.cc:303-304).               *)
NodeLocal ==
  \A r \in route : r.route = "ampccl" =>
    /\ \A u \in Members(r.comm) : NodeOf(u) = NodeOf(r.thread)
    /\ Contiguous(r.comm)

(* pcclFinalize never runs while a PCIe communicator of the process is in  *)
(* use: the count reaches zero with the last one (comm_init.cc:216-221).   *)
FinalizeAfterLastUser == \A p \in Procs : finalized[p] = {}

(* Communicators are told apart and counted: one key for one communicator, *)
(* and PCCL lives as long as its last user.                                *)
CommsIdentified == TypeOK /\ KeyIdentifies /\ FinalizeAfterLastUser

(* Ranks that decide on their own come to one route, and to the            *)
(* orchestrator only inside a node.                                        *)
RoutesAgree == SameRoute /\ NodeLocal

(* Every call of the program returns on every thread: no rank is left      *)
(* waiting for registrations, for PCCL, in the store or in the native      *)
(* library.                                                                *)
EveryCallReturns == <>Finished
====
