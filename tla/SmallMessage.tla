---------------------------- MODULE SmallMessage ----------------------------
(***************************************************************************)
(* SmallMessageExecutor: the executor for messages below the threshold.    *)
(* Every rank has a queue and a thread.  For each collective the ranks     *)
(* agree whether all can read all peers' device buffers (all_direct); if   *)
(* not, each stages its input in a host buffer of its own.  Then each rank *)
(* reads its sources, directly or staged, meets the others at a barrier    *)
(* and releases its user stream.                                           *)
(*                                                                         *)
(* Which device buffer a peer reads is not part of the request: it is the  *)
(* one the peer's last call of a collective registered.                    *)
(*                                                                         *)
(* A cell holds the set of contributions summed into it, as in GraphRun; a *)
(* transfer occupies its destination from its start to its end and needs   *)
(* its source unchanged over that time.  Broadcasts never get here         *)
(* (makeSmallMessageRequest refuses them).                                 *)
(***************************************************************************)
EXTENDS Integers, Sequences, FiniteSets

CONSTANTS
  NumRanks,        \* world_size
  Setups,          \* the applications and machines to look at, see setup
  QueueDepth       \* queue_depth

Ranks == 0 .. NumRanks - 1

(* pairDirectAllowed for every rank and every peer it may need *)
CollectiveTopologyCanAllDirect(peers) == \A dst, source \in Ranks : dst # source => <<dst, source>> \in peers

(* canHandle: an all-reduce is taken only if every pair may read directly. *)
CanHandle(req, peers) == req.kind = "AllReduce" => CollectiveTopologyCanAllDirect(peers)

ASSUME SmallMessageAssumption ==
  /\ NumRanks \in Nat \ {0, 1}
  /\ QueueDepth \in Nat \ {0}
  /\ \A s \in Setups :
       /\ s.work \in Seq({s.work[k] : k \in DOMAIN s.work})
       /\ \A k \in DOMAIN s.work :
            s.work[k].kind \in {"AllGather", "AllReduce", "ReduceScatter"} /\ CanHandle(s.work[k], s.peers)

VARIABLES
  setup,           \* never changes:
                   \*   work          the collectives all ranks call, in order: [kind, send, recv], the
                   \*                 buffers as <<allocation, segment>> for every rank
                   \*   peers         the <<reader, source>> with pairDirectAllowed
                   \*   ipc_enabled   device_ipc_needed
                   \*   may_fail      whether a device error or a timeout may happen
  \* shared memory
  ipc_record,      \* rank |-> the address published last, or NoRecord
  ready_seq, stage_seq, direct_status,   \* rank |-> slot |-> published sequence (and answer)
  entered,         \* barrier rounds each rank has entered
  \* per rank: the calling thread
  registered, admitted, pushed, stopped,
  \* per rank: the executor
  queue, last_ok, failed, pc, item, peer, all_direct, mapped,
  \* per rank: the device
  stream, active, rung, signalled,
  mem              \* cell |-> contributions

shared   == <<ready_seq, stage_seq, direct_status, entered>>
caller   == <<registered, admitted, pushed, stopped>>
executor == <<queue, last_ok, failed, pc, item, peer, all_direct, mapped>>
device   == <<stream, active>>
vars     == <<setup, ipc_record, shared, caller, executor, device, rung, signalled, mem>>

-----------------------------------------------------------------------------
(* Buffers and data *)

NoRecord == <<"none", 0>>
Busy     == {}
Garbage  == {<<>>}

Segments == 0 .. NumRanks - 1
Cells    == (Ranks \X {"A", "B", "HOST"} \X Segments) \cup (Ranks \X {"SCRATCH"} \X (0 .. QueueDepth - 1))

At(rank, addr, seg) == <<rank, addr[1], addr[2] + seg>>

Contribution(rank, seg, seq) == <<rank, seg, seq>>

Slot(seq) == (seq - 1) % QueueDepth

Request(r) == setup.work[item[r]]

InPlace(req) == req.send = req.recv

(* The segments of the input that a rank stages and its peers read. *)
SendSegments(req) == IF req.kind = "ReduceScatter" THEN Segments ELSE {0}

(* What the collective must leave in each cell of rank r's result. *)
Result(r, req, seq) ==
  CASE req.kind = "AllGather" ->
         [c \in {At(r, req.recv[r], q) : q \in Ranks} |-> {Contribution(c[3] - req.recv[r][2], 0, seq)}]
    [] req.kind = "AllReduce" ->
         [c \in {At(r, req.recv[r], 0)} |-> {Contribution(q, 0, seq) : q \in Ranks}]
    [] req.kind = "ReduceScatter" ->
         [c \in {At(r, req.recv[r], 0)} |-> {Contribution(q, r, seq) : q \in Ranks}]

-----------------------------------------------------------------------------

Init ==
  /\ setup \in Setups
  /\ ipc_record = [r \in Ranks |-> NoRecord]
  /\ ready_seq = [r \in Ranks |-> [s \in 0 .. QueueDepth - 1 |-> 0]]
  /\ stage_seq = [r \in Ranks |-> [s \in 0 .. QueueDepth - 1 |-> 0]]
  /\ direct_status = [r \in Ranks |-> [s \in 0 .. QueueDepth - 1 |-> <<0, FALSE>>]]
  /\ entered = [r \in Ranks |-> 0]
  /\ registered = [r \in Ranks |-> 0]
  /\ admitted = [r \in Ranks |-> 0]
  /\ pushed = [r \in Ranks |-> 0]
  /\ stopped = [r \in Ranks |-> FALSE]
  /\ queue = [r \in Ranks |-> <<>>]
  /\ last_ok = [r \in Ranks |-> TRUE]
  /\ failed = [r \in Ranks |-> FALSE]
  /\ pc = [r \in Ranks |-> "idle"]
  /\ item = [r \in Ranks |-> 0]
  /\ peer = [r \in Ranks |-> 0]
  /\ all_direct = [r \in Ranks |-> FALSE]
  /\ mapped = [r \in Ranks |-> [q \in Ranks |-> "none"]]
  /\ stream = [r \in Ranks |-> <<>>]
  /\ active = [r \in Ranks |-> <<>>]
  /\ rung = [r \in Ranks |-> 0]
  /\ signalled = [r \in Ranks |-> {}]
  /\ mem = [c \in Cells |-> Garbage]

-----------------------------------------------------------------------------
(* The thread that calls the collectives *)

(* submitCollective starts with registerDeviceBuffers: the address is      *)
(* published, whatever is still running.                                   *)
Register(r) ==
  /\ ~stopped[r]
  /\ registered[r] = pushed[r]
  /\ registered[r] < Len(setup.work)
  /\ registered' = [registered EXCEPT ![r] = @ + 1]
  /\ ipc_record' = IF setup.ipc_enabled
                   THEN [ipc_record EXCEPT ![r] = setup.work[registered[r] + 1].send[r]]
                   ELSE ipc_record
  /\ UNCHANGED <<setup, shared, admitted, pushed, stopped, executor, device, rung, signalled, mem>>

InFlight(r) == Len(queue[r]) + (IF pc[r] = "idle" THEN 0 ELSE 1)

(* submit: the sequence number is taken and the doorbell and the wait are  *)
(* put on the user stream.                                                 *)
Admit(r) ==
  /\ ~stopped[r]
  /\ admitted[r] < registered[r]
  /\ last_ok[r]
  /\ InFlight(r) < QueueDepth
  /\ admitted' = [admitted EXCEPT ![r] = @ + 1]
  /\ UNCHANGED <<setup, ipc_record, shared, registered, pushed, stopped, executor, device, rung,
                 signalled, mem>>

(* submit returns an error, its own timeout or an earlier one; the         *)
(* application gives up.                                                   *)
Refuse(r) ==
  /\ ~stopped[r]
  /\ admitted[r] < registered[r]
  /\ ~last_ok[r] \/ (setup.may_fail /\ InFlight(r) >= QueueDepth)
  /\ last_ok' = [last_ok EXCEPT ![r] = FALSE]
  /\ stopped' = [stopped EXCEPT ![r] = TRUE]
  /\ UNCHANGED <<setup, ipc_record, shared, registered, admitted, pushed, queue, failed, pc, item,
                 peer, all_direct, mapped, device, rung, signalled, mem>>

(* submit: the item is queued. *)
Push(r) ==
  /\ pushed[r] < admitted[r]
  /\ pushed' = [pushed EXCEPT ![r] = @ + 1]
  /\ queue' = [queue EXCEPT ![r] = Append(@, admitted[r])]
  /\ UNCHANGED <<setup, ipc_record, shared, registered, admitted, stopped, last_ok, failed, pc, item,
                 peer, all_direct, mapped, device, rung, signalled, mem>>

-----------------------------------------------------------------------------
(* The user stream: once released it writes the inputs of the next         *)
(* collective and rings its doorbell.                                      *)

UserRing(r) ==
  /\ rung[r] < admitted[r]
  /\ rung[r] \in signalled[r] \cup {0}
  /\ rung' = [rung EXCEPT ![r] = @ + 1]
  /\ LET req    == setup.work[rung[r] + 1]
         inputs == {At(r, req.send[r], s) : s \in SendSegments(req)}
     IN  mem' = [c \in Cells |-> IF c \in inputs
                                 THEN {Contribution(r, c[3] - req.send[r][2], rung[r] + 1)}
                                 ELSE mem[c]]
  /\ UNCHANGED <<setup, ipc_record, shared, caller, executor, device, signalled>>

-----------------------------------------------------------------------------
(* The device: the transfers of a rank run one after the other. *)

StartTransfer(r) ==
  /\ stream[r] # <<>>
  /\ active[r] = <<>>
  /\ LET op == Head(stream[r])
     IN  /\ active' = [active EXCEPT ![r] = <<mem[op.from], mem[op.to]>>]
         /\ mem' = [mem EXCEPT ![op.to] = Busy]
  /\ UNCHANGED <<setup, ipc_record, shared, caller, executor, stream, rung, signalled>>

(* A copy, or a sum with what the destination held. *)
Moved(op, got) ==
  CASE \/ mem[op.to] # Busy
       \/ mem[op.from] # got[1]
       \/ got[1] \in {Busy, Garbage} -> Garbage
    [] op.add /\ (got[2] \in {Busy, Garbage} \/ got[1] \cap got[2] # {}) -> Garbage
    [] OTHER -> IF op.add THEN got[1] \cup got[2] ELSE got[1]

EndTransfer(r) ==
  /\ active[r] # <<>>
  /\ LET op == Head(stream[r])
     IN  mem' = [mem EXCEPT ![op.to] = Moved(op, active[r])]
  /\ stream' = [stream EXCEPT ![r] = Tail(@)]
  /\ active' = [active EXCEPT ![r] = <<>>]
  /\ UNCHANGED <<setup, ipc_record, shared, caller, executor, rung, signalled>>

Copy(from, to) == IF from = to THEN <<>> ELSE <<[from |-> from, to |-> to, add |-> FALSE]>>
Reduce(from, to) == <<[from |-> from, to |-> to, add |-> TRUE]>>

-----------------------------------------------------------------------------
(* The executor thread *)

Goto(r, where) == pc' = [pc EXCEPT ![r] = where]

(* threadFunc *)
Pop(r) ==
  /\ pc[r] = "idle"
  /\ queue[r] # <<>>
  /\ item' = [item EXCEPT ![r] = Head(queue[r])]
  /\ queue' = [queue EXCEPT ![r] = Tail(@)]
  /\ Goto(r, "doorbell")
  /\ UNCHANGED <<setup, ipc_record, shared, caller, last_ok, failed, peer, all_direct, mapped, device,
                 rung, signalled, mem>>

(* publishFastpathReadySeq, publishFastpathStageSeq *)
Published(table, r) == [table EXCEPT ![r][Slot(item[r])] = item[r]]

(* publishFastpathDirectStatus: the sequence number and the answer in one  *)
(* word                                                                    *)
PublishDirectStatus(r, answer) ==
  direct_status' = [direct_status EXCEPT ![r][Slot(item[r])] = <<item[r], answer>>]

(* waitForUserReadyAndPublish *)
SeeDoorbell(r) ==
  /\ pc[r] = "doorbell"
  /\ rung[r] >= item[r]
  /\ ready_seq' = Published(ready_seq, r)
  /\ Goto(r, IF CollectiveTopologyCanAllDirect(setup.peers) THEN "publish" ELSE "stage")
  /\ all_direct' = [all_direct EXCEPT ![r] = FALSE]
  /\ UNCHANGED <<setup, ipc_record, stage_seq, direct_status, entered, caller, queue, last_ok, failed,
                 item, peer, mapped, device, rung, signalled, mem>>

(* getRemoteDeviceBuffer: a peer's allocation that is not mapped yet is    *)
(* opened, which may fail.                                                 *)
Unmapped(r) ==
  {q \in Ranks \ {r} : ipc_record[q] = NoRecord \/ mapped[r][q] # ipc_record[q][1]}

(* publishAndResolveDirectMode: localNeedsAllDirectSources asks for the     *)
(* sources in order up to the first it cannot read; the answer is          *)
(* published for the others.  An open that fails has closed the mapping    *)
(* there was.                                                              *)
PublishDirect(r) ==
  /\ pc[r] = "publish"
  /\ \E fail \in Unmapped(r) \cup {NumRanks} :
       /\ \A q \in Unmapped(r) : ipc_record[q] = NoRecord => fail <= q
       /\ mapped' = [mapped EXCEPT ![r] =
                       [q \in Ranks |-> CASE q \in Unmapped(r) /\ q < fail -> ipc_record[q][1]
                                          [] q = fail /\ ipc_record[q] # NoRecord -> "none"
                                          [] OTHER -> @[q]]]
       /\ PublishDirectStatus(r, fail = NumRanks)
  /\ all_direct' = [all_direct EXCEPT ![r] = TRUE]
  /\ peer' = [peer EXCEPT ![r] = 0]
  /\ Goto(r, "resolve")
  /\ UNCHANGED <<setup, ipc_record, ready_seq, stage_seq, entered, caller, queue, last_ok, failed, item,
                 device, rung, signalled, mem>>

(* Mutation: the rank goes by its own answer. *)
ResolveDirect_OwnAnswer(r) ==
  /\ pc[r] = "resolve"
  /\ all_direct' = [all_direct EXCEPT ![r] = direct_status[r][Slot(item[r])][2]]
  /\ Goto(r, "stage")
  /\ UNCHANGED <<setup, ipc_record, shared, caller, queue, last_ok, failed, item, peer, mapped, device,
                 rung, signalled, mem>>

(* publishAndResolveDirectMode: the answers are collected peer by peer. *)
ResolveDirect(r) ==
  LET status == direct_status[peer[r]][Slot(item[r])]
  IN  /\ pc[r] = "resolve"
      /\ status[1] = item[r]
      /\ all_direct' = [all_direct EXCEPT ![r] = @ /\ status[2]]
      /\ peer' = [peer EXCEPT ![r] = @ + 1]
      /\ Goto(r, IF peer[r] = NumRanks - 1 THEN "stage" ELSE "resolve")
      /\ UNCHANGED <<setup, ipc_record, shared, caller, queue, last_ok, failed, item, mapped, device,
                     rung, signalled, mem>>

(* stageLocalSource: the input goes to the rank's host buffer. *)
Stage(r) ==
  LET req    == Request(r)
      copies == [s \in 1 .. Cardinality(SendSegments(req)) |->
                   [from |-> At(r, req.send[r], s - 1), to |-> <<r, "HOST", s - 1>>, add |-> FALSE]]
  IN  /\ pc[r] = "stage"
      /\ ~all_direct[r]
      /\ stream' = [stream EXCEPT ![r] = @ \o copies]
      /\ Goto(r, "staging")
      /\ UNCHANGED <<setup, ipc_record, shared, caller, queue, last_ok, failed, item, peer, all_direct,
                     mapped, active, rung, signalled, mem>>

(* publishFastpathStageSeq, after waitEvent if the input was staged *)
PublishStage(r) ==
  /\ \/ pc[r] = "staging" /\ stream[r] = <<>>
     \/ pc[r] = "stage" /\ all_direct[r]
  /\ stage_seq' = Published(stage_seq, r)
  /\ peer' = [peer EXCEPT ![r] = 1]
  /\ Goto(r, "sources")
  /\ UNCHANGED <<setup, ipc_record, ready_seq, direct_status, entered, caller, queue, last_ok, failed,
                 item, all_direct, mapped, device, rung, signalled, mem>>

(* The order in which executeAllGather, executeAllReduce and               *)
(* executeReduceScatter take their sources.  The first source of a         *)
(* reduction is copied to the result, but for an all-reduce in place,      *)
(* where the result starts as the rank's own input.                        *)
Everybody == [i \in 1 .. NumRanks |-> i - 1]
AllBut(q) == [i \in 1 .. NumRanks - 1 |-> IF i <= q THEN i - 1 ELSE i]

Sources(r, req) ==
  LET first == IF r = 0 THEN 1 ELSE 0
  IN  CASE req.kind = "AllGather"                      -> Everybody
        [] req.kind = "ReduceScatter"                  -> <<r>> \o AllBut(r)
        [] req.kind = "AllReduce" /\ InPlace(req)      -> AllBut(r)
        [] req.kind = "AllReduce" /\ ~InPlace(req)     -> <<first>> \o AllBut(first)

(* The transfers for one source, read at cell from *)
Transfers(r, req, n, source, from) ==
  LET scratch == <<r, "SCRATCH", Slot(item[r])>>
      recv    == At(r, req.recv[r], 0)
  IN  CASE req.kind = "AllGather" -> Copy(from, At(r, req.recv[r], source))
        [] n = 1 /\ ~InPlace(req) -> Copy(from, recv)
        [] source = r             -> Reduce(from, recv)
        [] OTHER                  -> Copy(from, scratch) \o Reduce(scratch, recv)

Source(r) == Sources(r, Request(r))[peer[r]]

(* Whether the source's device buffer may be read: execute still allows    *)
(* it for some collectives when not all reads are direct.                  *)
AllowRemoteDirect(r) ==
  LET req == Request(r)
  IN  /\ setup.ipc_enabled
      /\ <<r, Source(r)>> \in setup.peers
      /\ \/ all_direct[r]
         \/ req.kind = "AllReduce"
         \/ req.kind = "AllGather" /\ At(r, req.send[r], 0) # At(r, req.recv[r], r)

(* buildSourceInfo, copySourceToDevice and the loop around them: the       *)
(* transfers of the source whose turn it is are given to the device.       *)
SourceSegment(r) == IF Request(r).kind = "ReduceScatter" THEN r ELSE 0

ReadFrom(r, from) ==
  /\ stream' = [stream EXCEPT ![r] = @ \o Transfers(r, Request(r), peer[r], Source(r), from)]
  /\ peer' = [peer EXCEPT ![r] = @ + 1]
  /\ Goto(r, IF peer[r] = Len(Sources(r, Request(r))) THEN "sync" ELSE "sources")
  /\ UNCHANGED <<setup, ipc_record, shared, caller, queue, last_ok, failed, item, all_direct, active,
                 rung, signalled, mem>>

ReadOwn(r) ==
  /\ pc[r] = "sources"
  /\ Source(r) = r
  /\ ReadFrom(r, At(r, Request(r).send[r], SourceSegment(r)))
  /\ UNCHANGED mapped

(* waitForFastpathReady *)
PeerReady(r) ==
  /\ pc[r] = "sources"
  /\ Source(r) # r
  /\ ready_seq[Source(r)][Slot(item[r])] = item[r]

(* The peer's device buffer as it is registered now *)
ReadDirect(r) ==
  /\ PeerReady(r)
  /\ AllowRemoteDirect(r)
  /\ ipc_record[Source(r)] # NoRecord
  /\ mapped' = [mapped EXCEPT ![r][Source(r)] = ipc_record[Source(r)][1]]
  /\ ReadFrom(r, At(Source(r), ipc_record[Source(r)], SourceSegment(r)))

(* waitForFastpathStage: the peer's host buffer, where its device buffer   *)
(* may not be read or could not be opened                                  *)
ReadStaged(r) ==
  LET tried == AllowRemoteDirect(r) /\ ipc_record[Source(r)] # NoRecord
  IN  /\ PeerReady(r)
      /\ ~(AllowRemoteDirect(r) /\ Source(r) \notin Unmapped(r))
      /\ stage_seq[Source(r)][Slot(item[r])] = item[r]
      /\ mapped' = IF tried THEN [mapped EXCEPT ![r][Source(r)] = "none"] ELSE mapped
      /\ ReadFrom(r, <<Source(r), "HOST", SourceSegment(r)>>)

(* synchronizeStream, and into the barrier *)
EnterBarrier(r) ==
  /\ pc[r] = "sync"
  /\ stream[r] = <<>>
  /\ entered' = [entered EXCEPT ![r] = @ + 1]
  /\ Goto(r, "barrier")
  /\ UNCHANGED <<setup, ipc_record, ready_seq, stage_seq, direct_status, caller, queue, last_ok, failed,
                 item, peer, all_direct, mapped, device, rung, signalled, mem>>

(* Mutation: the barrier is left at once. *)
FinishWork_NoBarrier(r) ==
  /\ pc[r] = "barrier"
  /\ signalled' = [signalled EXCEPT ![r] = @ \cup {item[r]}]
  /\ last_ok' = [last_ok EXCEPT ![r] = TRUE]
  /\ Goto(r, "idle")
  /\ UNCHANGED <<setup, ipc_record, shared, caller, queue, failed, item, peer, all_direct, mapped, device,
                 rung, mem>>

(* The barrier is complete: signalComplete and finishWork(pcclSuccess) *)
FinishWork(r) ==
  /\ pc[r] = "barrier"
  /\ \A q \in Ranks : entered[q] >= entered[r]
  /\ signalled' = [signalled EXCEPT ![r] = @ \cup {item[r]}]
  /\ last_ok' = [last_ok EXCEPT ![r] = TRUE]
  /\ Goto(r, "idle")
  /\ UNCHANGED <<setup, ipc_record, shared, caller, queue, failed, item, peer, all_direct, mapped, device,
                 rung, mem>>

(* Mutation: the queued items are dropped without a signal. *)
FailWork_DropsQueue(r) ==
  /\ setup.may_fail
  /\ pc[r] \in {"doorbell", "resolve", "stage", "staging", "sources", "sync", "barrier"}
  /\ signalled' = [signalled EXCEPT ![r] = @ \cup {item[r]}]
  /\ queue' = [queue EXCEPT ![r] = <<>>]
  /\ last_ok' = [last_ok EXCEPT ![r] = FALSE]
  /\ failed' = [failed EXCEPT ![r] = TRUE]
  /\ Goto(r, "idle")
  /\ UNCHANGED <<setup, ipc_record, shared, caller, item, peer, all_direct, mapped, device, rung, mem>>

(* A timeout of any of the waits, or a device error: finishWork releases   *)
(* the item and all that are queued.  The device goes on with what it was  *)
(* given.                                                                  *)
FailWork(r) ==
  /\ setup.may_fail
  /\ pc[r] \in {"doorbell", "resolve", "stage", "staging", "sources", "sync", "barrier"}
  /\ signalled' = [signalled EXCEPT ![r] = @ \cup {item[r]} \cup {queue[r][i] : i \in DOMAIN queue[r]}]
  /\ queue' = [queue EXCEPT ![r] = <<>>]
  /\ last_ok' = [last_ok EXCEPT ![r] = FALSE]
  /\ failed' = [failed EXCEPT ![r] = TRUE]
  /\ Goto(r, "idle")
  /\ UNCHANGED <<setup, ipc_record, shared, caller, item, peer, all_direct, mapped, device, rung, mem>>

-----------------------------------------------------------------------------

CallerStep(r) == Register(r) \/ Admit(r) \/ Refuse(r) \/ Push(r)

DeviceStep(r) == StartTransfer(r) \/ EndTransfer(r)

ExecutorStep(r) ==
  \/ Pop(r)
  \/ SeeDoorbell(r)
  \/ PublishDirect(r)
  \/ ResolveDirect(r)
  \/ Stage(r)
  \/ PublishStage(r)
  \/ ReadOwn(r)
  \/ ReadDirect(r)
  \/ ReadStaged(r)
  \/ EnterBarrier(r)
  \/ FinishWork(r)

Next == \E r \in Ranks :
  CallerStep(r) \/ UserRing(r) \/ DeviceStep(r) \/ ExecutorStep(r) \/ FailWork(r)

Spec == Init /\ [][Next]_vars

(* The threads and the device run; a wait that would never end times out.  *)
FairSpec ==
  /\ Spec
  /\ \A r \in Ranks :
       /\ WF_vars(CallerStep(r))
       /\ WF_vars(UserRing(r))
       /\ WF_vars(DeviceStep(r))
       /\ WF_vars(ExecutorStep(r))
       /\ WF_vars(FailWork(r))

-----------------------------------------------------------------------------
(* Properties *)

(* The ranges of the counters and indices; submit never has more items in  *)
(* hand than there are slots, and what a rank publishes is a buffer of one *)
(* of its calls.                                                           *)
TypeOK ==
  /\ \A r \in Ranks :
       /\ InFlight(r) + (admitted[r] - pushed[r]) <= QueueDepth
       /\ peer[r] \in 0 .. NumRanks + 1
       /\ pc[r] # "idle" => item[r] \in 1 .. pushed[r]
       /\ rung[r] <= admitted[r]
       /\ ipc_record[r] \in {NoRecord} \cup {setup.work[k].send[r] : k \in DOMAIN setup.work}

(* While no executor has failed, the result buffers of a released user     *)
(* stream hold the sums of that collective's inputs, until the stream      *)
(* rings again: nothing missing, nothing added twice, nothing of another   *)
(* collective, no transfer still under way.                                *)
ResultCorrect ==
  (\A q \in Ranks : ~failed[q]) =>
    \A r \in Ranks :
      (rung[r] > 0 /\ rung[r] \in signalled[r]) =>
        \A c \in DOMAIN Result(r, setup.work[rung[r]], rung[r]) :
          mem[c] = Result(r, setup.work[rung[r]], rung[r])[c]

(* Ranks that have decided how to exchange a collective have decided the   *)
(* same, though each asks for itself and opening a buffer may fail on one  *)
(* of them: a rank that expects staged data finds a peer that stages.      *)
SamePath ==
  \A r, q \in Ranks :
    (/\ item[r] = item[q]
     /\ {pc[r], pc[q]} \subseteq {"stage", "staging", "sources", "sync", "barrier"}) =>
      all_direct[r] = all_direct[q]

(* Ranks agree on the path of every item, of which there are never more    *)
(* than the slots their marks are kept in.                                 *)
PathAgreed == TypeOK /\ SamePath

(* Every wait that a user stream enters ends, whatever fails. *)
EveryWaitEnds == \A r \in Ranks : []<>(rung[r] \in signalled[r] \cup {0})

=============================================================================
