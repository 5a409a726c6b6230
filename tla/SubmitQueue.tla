---------------------------- MODULE SubmitQueue ----------------------------
(***************************************************************************)
(* GraphExecutor::submit, its executor thread and CompletionFlag, on one   *)
(* rank: how a collective gets from the caller to the executor and how the *)
(* caller's stream waits for it.                                           *)
(*                                                                         *)
(* submit takes a sequence number and the slot that goes with it, puts a   *)
(* doorbell and a wait on the user stream and pushes the work item.  The   *)
(* executor pops items in order, waits for the doorbell, runs the graph    *)
(* (GraphRun) and stores the sequence number in the slot, which lets the   *)
(* stream continue.  Slots are used again: sequence numbers that differ by *)
(* QueueDepth share one.  On a failure the executor lets the streams of    *)
(* the current and all queued items go.                                    *)
(*                                                                         *)
(* Modelled is the path with stream memory operations: the wait is         *)
(* cuStreamWaitValue64 on complete_seq.  A CUDA stream executes its        *)
(* operations in order; different streams only wait for each other through *)
(* events, and an event wait means the event's last record before it.      *)
(***************************************************************************)
EXTENDS Naturals, Sequences, FiniteSetsExt

CONSTANTS
  Users,        \* calling threads, each with its own user stream
  NoUser,
  QueueDepth,   \* queue_depth_
  MaxWork,      \* bound: collectives submitted
  MayFail       \* whether device errors and timeouts may happen

ASSUME SubmitAssumption ==
  /\ QueueDepth \in Nat \ {0}
  /\ MaxWork \in Nat
  /\ MayFail \in BOOLEAN
  /\ NoUser \notin Users

Works == 1 .. MaxWork
Slots == 0 .. QueueDepth - 1

(* Mutation: one slot fewer than queue_depth_. *)
Slot_OneFewer(seq) == (seq - 1) % (QueueDepth - 1)

(* The completion slot of a work item. *)
Slot(seq) == (seq - 1) % QueueDepth

VARIABLES
  submitter, sub_pc,     \* who holds submit_mutex_, and how far submit is
  work_seq_counter,      \* the last sequence number given out
  queue, busy, stop,
  last_result,           \* pcclSuccess, or one of the errors and pcclTimeout
  exec_pc, current,      \* the executor thread and current_work_seq_
  ready_seq,             \* slot |-> doorbell, written by the user stream
  complete_seq,          \* slot |-> last completed sequence number
  reset_stream,          \* pending on reset_stream_: [seq, after]
  streams,               \* user |-> operations on its stream, unfinished
  slot_user,             \* slot |-> the last one whose wait_done_event was recorded
  reset_done, rung, passed,   \* events recorded, doorbells rung, waits passed
  returned, ended,       \* submit returned success; the executor is done with it
  burned,                \* failed submits: [seq, parked], with its wait on the stream or not
  drainer, drain_goal    \* a caller of waitForIdle and what was submitted before

submit_vars == <<submitter, sub_pc, work_seq_counter, returned, burned>>
stream_vars == <<reset_stream, streams, slot_user, reset_done, rung, passed>>
drain_vars  == <<drainer, drain_goal>>
vars == <<submit_vars, queue, busy, last_result, stop, exec_pc, current, ready_seq, complete_seq,
          stream_vars, ended, drain_vars>>

(* The queue never holds more than queue_depth_ items, and sequence        *)
(* numbers are those that submit has given.                                *)
TypeOK ==
  /\ submitter \in Users \cup {NoUser}
  /\ sub_pc \in {"idle", "admitted", "prepared"}
  /\ work_seq_counter \in 0 .. MaxWork
  /\ queue \in Seq(Works) /\ Len(queue) <= QueueDepth
  /\ busy \in BOOLEAN /\ stop \in BOOLEAN
  /\ last_result \in {"Success", "Failure"}
  /\ exec_pc \in {"idle", "doorbell", "run", "barrier", "signalled", "exited"}
  /\ current \in 0 .. MaxWork
  /\ ready_seq \in [Slots -> 0 .. MaxWork]
  /\ complete_seq \in [Slots -> 0 .. MaxWork]
  /\ drainer \in {"out", "waiting", "returned", "timed_out"}

Init ==
  /\ submitter = NoUser
  /\ sub_pc = "idle"
  /\ work_seq_counter = 0
  /\ queue = <<>>
  /\ busy = FALSE
  /\ last_result = "Success"
  /\ stop = FALSE
  /\ exec_pc = "idle"
  /\ current = 0
  /\ ready_seq = [s \in Slots |-> 0]
  /\ complete_seq = [s \in Slots |-> 0]
  /\ reset_stream = <<>>
  /\ streams = [u \in Users |-> <<>>]
  /\ slot_user = [s \in Slots |-> 0]
  /\ reset_done = {} /\ rung = {} /\ passed = {}
  /\ returned = {} /\ ended = {} /\ burned = {}
  /\ drainer = "out" /\ drain_goal = {}

-----------------------------------------------------------------------------
(* submit *)

(* Items that count against queue_depth_. *)
Occupied == (IF busy THEN 1 ELSE 0) + Len(queue)

(* A place in the queue is free: the item gets its number.  A stopped or   *)
(* failed executor rejects the call, which changes nothing.                *)
Admit(u) ==
  /\ sub_pc = "idle"
  /\ ~stop
  /\ last_result = "Success"
  /\ Occupied < QueueDepth
  /\ work_seq_counter < MaxWork
  /\ work_seq_counter' = work_seq_counter + 1
  /\ submitter' = u
  /\ sub_pc' = "admitted"
  /\ UNCHANGED <<queue, busy, last_result, stop, exec_pc, current, ready_seq, complete_seq,
                 stream_vars, returned, burned, ended, drain_vars>>

(* No place became free in time. *)
AdmitTimesOut ==
  /\ MayFail
  /\ sub_pc = "idle"
  /\ ~stop /\ last_result = "Success"
  /\ Occupied >= QueueDepth
  /\ last_result' = "Failure"
  /\ UNCHANGED <<submit_vars, queue, busy, stop, exec_pc, current, ready_seq, complete_seq,
                 stream_vars, ended, drain_vars>>

(* What prepareUserWait puts on the user stream.  The wait for reset_event *)
(* in front of the doorbell is part of "ring"; enqueued alone it only      *)
(* repeats what the next item's own wait demands, reset_stream_ being in   *)
(* order.                                                                  *)
UserOps(seq) == << [op |-> "ring", seq |-> seq], [op |-> "wait", seq |-> seq] >>

(* prepareUserWait clears the doorbell, makes reset_stream_ wait for the   *)
(* slot's previous wait, and puts the first n operations on the user       *)
(* stream.                                                                 *)
Enqueue(n) ==
  LET seq  == work_seq_counter
      slot == Slot(seq)
  IN  /\ ready_seq' = [ready_seq EXCEPT ![slot] = 0]
      /\ reset_stream' = Append(reset_stream, [seq |-> seq, after |-> slot_user[slot]])
      /\ streams' = [streams EXCEPT ![submitter] = @ \o SubSeq(UserOps(seq), 1, n)]

PrepareUserWait ==
  /\ sub_pc = "admitted"
  /\ Enqueue(2)
  /\ slot_user' = [slot_user EXCEPT ![Slot(work_seq_counter)] = work_seq_counter]
  /\ sub_pc' = "prepared"
  /\ UNCHANGED <<submitter, work_seq_counter, returned, burned, queue, busy, last_result, stop,
                 exec_pc, current, complete_seq, reset_done, rung, passed, ended, drain_vars>>

(* One of its calls fails: the first, when the slot has been used before,  *)
(* or a later one, behind n operations of the user stream.  The number is  *)
(* lost, the item is not pushed and last_result_ stays as it is.           *)
PrepareFails ==
  /\ MayFail
  /\ sub_pc = "admitted"
  /\ sub_pc' = "idle"
  /\ submitter' = NoUser
  /\ \/ /\ slot_user[Slot(work_seq_counter)] # 0
        /\ burned' = burned \cup {[seq |-> work_seq_counter, parked |-> FALSE]}
        /\ UNCHANGED <<ready_seq, reset_stream, streams>>
     \/ \E n \in 0 .. 2 :
          /\ Enqueue(n)
          /\ burned' = burned \cup {[seq |-> work_seq_counter, parked |-> n = 2]}
  /\ UNCHANGED <<work_seq_counter, returned, queue, busy, last_result, stop, exec_pc, current,
                 complete_seq, slot_user, reset_done, rung, passed, ended, drain_vars>>

(* The item is pushed although the executor may have failed meanwhile. *)
Push ==
  /\ sub_pc = "prepared"
  /\ queue' = Append(queue, work_seq_counter)
  /\ returned' = returned \cup {work_seq_counter}
  /\ sub_pc' = "idle"
  /\ submitter' = NoUser
  /\ UNCHANGED <<work_seq_counter, burned, busy, last_result, stop, exec_pc, current, ready_seq,
                 complete_seq, stream_vars, ended, drain_vars>>

-----------------------------------------------------------------------------
(* The executor thread *)

(* Mutation: busy_ is not raised where the item leaves the queue. *)
PopWork_NotBusy ==
  /\ exec_pc = "idle"
  /\ queue # <<>>
  /\ current' = Head(queue)
  /\ queue' = Tail(queue)
  /\ exec_pc' = "doorbell"
  /\ UNCHANGED <<submit_vars, busy, last_result, stop, ready_seq, complete_seq, stream_vars, ended,
                 drain_vars>>

PopWork ==
  /\ exec_pc = "idle"
  /\ queue # <<>>
  /\ current' = Head(queue)
  /\ queue' = Tail(queue)
  /\ busy' = TRUE
  /\ exec_pc' = "doorbell"
  /\ UNCHANGED <<submit_vars, last_result, stop, ready_seq, complete_seq, stream_vars, ended,
                 drain_vars>>

(* isReady *)
SeeDoorbell ==
  /\ exec_pc = "doorbell"
  /\ ready_seq[Slot(current)] = current
  /\ exec_pc' = "run"
  /\ UNCHANGED <<submit_vars, queue, busy, last_result, stop, current, ready_seq, complete_seq,
                 stream_vars, ended, drain_vars>>

(* runGraph has everything it waits for and looks at last_result_ for the  *)
(* last time.                                                              *)
GraphDone ==
  /\ exec_pc = "run"
  /\ last_result = "Success"
  /\ exec_pc' = "barrier"
  /\ UNCHANGED <<submit_vars, queue, busy, last_result, stop, current, ready_seq, complete_seq,
                 stream_vars, ended, drain_vars>>

(* The barrier is passed: signalComplete. *)
SignalComplete ==
  /\ exec_pc = "barrier"
  /\ complete_seq' = [complete_seq EXCEPT ![Slot(current)] = current]
  /\ ended' = ended \cup {current}
  /\ exec_pc' = "signalled"
  /\ UNCHANGED <<submit_vars, queue, busy, last_result, stop, current, ready_seq, stream_vars,
                 drain_vars>>

(* finishCurrentWork(pcclSuccess); a timeout set meanwhile is lost. *)
FinishWork ==
  /\ exec_pc = "signalled"
  /\ last_result' = "Success"
  /\ busy' = FALSE
  /\ exec_pc' = "idle"
  /\ UNCHANGED <<submit_vars, queue, stop, current, ready_seq, complete_seq, stream_vars, ended,
                 drain_vars>>

Released == {current} \cup {queue[i] : i \in DOMAIN queue}

(* Mutation: queued items are dropped without a signal. *)
FailWork_DropsQueue ==
  /\ exec_pc \in {"doorbell", "run", "barrier"}
  /\ MayFail \/ (exec_pc = "run" /\ last_result # "Success")
  /\ complete_seq' = [complete_seq EXCEPT ![Slot(current)] = current]
  /\ ended' = ended \cup Released
  /\ queue' = <<>>
  /\ last_result' = "Failure"
  /\ busy' = FALSE
  /\ exec_pc' = "idle"
  /\ UNCHANGED <<submit_vars, stop, current, ready_seq, stream_vars, drain_vars>>

(* finishCurrentWork(failure), for an error or a timeout of this item, or  *)
(* because runGraph finds last_result_ set.                                *)
FailWork ==
  /\ exec_pc \in {"doorbell", "run", "barrier"}
  /\ MayFail \/ (exec_pc = "run" /\ last_result # "Success")
  /\ complete_seq' = [s \in Slots |->
        LET signalled == {seq \in Released : Slot(seq) = s}   \* in queue order
        IN  IF signalled = {} THEN complete_seq[s] ELSE Max(signalled)]
  /\ ended' = ended \cup Released
  /\ queue' = <<>>
  /\ last_result' = "Failure"
  /\ busy' = FALSE
  /\ exec_pc' = "idle"
  /\ UNCHANGED <<submit_vars, stop, current, ready_seq, stream_vars, drain_vars>>

ThreadExit ==
  /\ exec_pc = "idle"
  /\ stop
  /\ queue = <<>>
  /\ exec_pc' = "exited"
  /\ UNCHANGED <<submit_vars, queue, busy, last_result, stop, current, ready_seq, complete_seq,
                 stream_vars, ended, drain_vars>>

-----------------------------------------------------------------------------
(* The device's streams *)

(* reset_stream_ passes the wait_done_event of the slot's previous item    *)
(* and records reset_event.                                                *)
ResetStreamStep ==
  /\ reset_stream # <<>>
  /\ Head(reset_stream).after \in passed \cup {0}
  /\ reset_done' = reset_done \cup {Head(reset_stream).seq}
  /\ reset_stream' = Tail(reset_stream)
  /\ UNCHANGED <<submit_vars, queue, busy, last_result, stop, exec_pc, current, ready_seq,
                 complete_seq, streams, slot_user, rung, passed, ended, drain_vars>>

(* The user stream gets behind reset_event and writes the doorbell. *)
Ring(u) ==
  /\ streams[u] # <<>>
  /\ LET this == Head(streams[u])
     IN  /\ this.op = "ring"
         /\ this.seq \in reset_done
         /\ ready_seq' = [ready_seq EXCEPT ![Slot(this.seq)] = this.seq]
         /\ rung' = rung \cup {this.seq}
  /\ streams' = [streams EXCEPT ![u] = Tail(@)]
  /\ UNCHANGED <<submit_vars, queue, busy, last_result, stop, exec_pc, current, complete_seq,
                 reset_stream, slot_user, reset_done, passed, ended, drain_vars>>

(* Mutation: any value the slot has been given ends the wait. *)
Pass_AnyValue(u) ==
  /\ streams[u] # <<>>
  /\ LET this == Head(streams[u])
     IN  /\ this.op = "wait"
         /\ complete_seq[Slot(this.seq)] # 0
         /\ passed' = passed \cup {this.seq}
  /\ streams' = [streams EXCEPT ![u] = Tail(@)]
  /\ UNCHANGED <<submit_vars, queue, busy, last_result, stop, exec_pc, current, ready_seq, complete_seq,
                 reset_stream, slot_user, reset_done, rung, ended, drain_vars>>

(* The wait for complete_seq >= seq ends and wait_done_event is recorded. *)
Pass(u) ==
  /\ streams[u] # <<>>
  /\ LET this == Head(streams[u])
     IN  /\ this.op = "wait"
         /\ complete_seq[Slot(this.seq)] >= this.seq
         /\ passed' = passed \cup {this.seq}
  /\ streams' = [streams EXCEPT ![u] = Tail(@)]
  /\ UNCHANGED <<submit_vars, queue, busy, last_result, stop, exec_pc, current, ready_seq, complete_seq,
                 reset_stream, slot_user, reset_done, rung, ended, drain_vars>>

-----------------------------------------------------------------------------
(* waitForIdle, and the destructor that calls it *)

DrainCall ==
  /\ drainer = "out"
  /\ drainer' = "waiting"
  /\ drain_goal' = returned
  /\ UNCHANGED <<submit_vars, queue, busy, last_result, stop, exec_pc, current, ready_seq,
                 complete_seq, stream_vars, ended>>

DrainReturn ==
  /\ drainer = "waiting"
  /\ ~busy /\ queue = <<>>
  /\ drainer' = "returned"
  /\ UNCHANGED <<submit_vars, queue, busy, last_result, stop, exec_pc, current, ready_seq,
                 complete_seq, stream_vars, ended, drain_goal>>

DrainTimesOut ==
  /\ MayFail
  /\ drainer = "waiting"
  /\ drainer' = "timed_out"
  /\ last_result' = "Failure"
  /\ UNCHANGED <<submit_vars, queue, busy, stop, exec_pc, current, ready_seq, complete_seq,
                 stream_vars, ended, drain_goal>>

(* The caller destroys the executor; it is not inside submit then. *)
Stop ==
  /\ drainer \in {"returned", "timed_out"}
  /\ sub_pc = "idle"
  /\ ~stop
  /\ stop' = TRUE
  /\ UNCHANGED <<submit_vars, queue, busy, last_result, exec_pc, current, ready_seq, complete_seq,
                 stream_vars, ended, drain_vars>>

-----------------------------------------------------------------------------

SubmitStep   == (\E u \in Users : Admit(u)) \/ AdmitTimesOut \/ PrepareUserWait \/ PrepareFails \/ Push
ExecutorStep == PopWork \/ SeeDoorbell \/ GraphDone \/ SignalComplete \/ FinishWork \/ FailWork \/ ThreadExit
StreamStep   == ResetStreamStep \/ \E u \in Users : Ring(u) \/ Pass(u)
DrainStep    == DrainCall \/ DrainReturn \/ DrainTimesOut \/ Stop

Next == SubmitStep \/ ExecutorStep \/ StreamStep \/ DrainStep

Spec == Init /\ [][Next]_vars

(* A call of submit that has been admitted goes on, the executor thread    *)
(* runs, and every stream executes what it can; nobody is obliged to       *)
(* submit, to drain or to fail.                                            *)
FairSpec ==
  /\ Spec
  /\ WF_vars(PrepareUserWait \/ PrepareFails) /\ WF_vars(Push)
  /\ WF_vars(ExecutorStep)
  /\ WF_vars(ResetStreamStep)
  /\ \A u \in Users : WF_vars(Ring(u) \/ Pass(u))

-----------------------------------------------------------------------------
(* Properties *)

(* A user stream continues behind a collective only when the executor is   *)
(* done with that very collective: an older number left in the slot by     *)
(* signalComplete does not let it through.                                 *)
PassedOnlyEnded == (passed \cap returned) \subseteq ended

(* A doorbell stays until the executor has seen it: prepareUserWait of a   *)
(* later item on the same slot does not wipe out one that still waits its  *)
(* turn.  A submit that fails in prepareUserWait has used up a number, and *)
(* from then on two items of the queue may share a slot.                   *)
DoorbellKept ==
  burned = {} => \A seq \in rung \ ended : ready_seq[Slot(seq)] = seq

(* Items never outnumber the completion slots, and each keeps its doorbell *)
(* until it is served.                                                     *)
SlotsKept == TypeOK /\ DoorbellKept

(* When waitForIdle returns, everything that was submitted before the call *)
(* has been carried out or failed, even when other threads keep            *)
(* submitting.                                                             *)
DrainedMeansEnded == drainer = "returned" => drain_goal \subseteq ended

(* No user stream is left hanging: the wait of every successful submit     *)
(* ends, also when the executor fails while submit is between taking a     *)
(* number and pushing the item, and when the executor is destroyed.  A     *)
(* call of submit that fails behind its wait parks the stream.           *)
EveryWaitEnds ==
  \A seq \in Works : seq \in returned ~> seq \in passed \/ \E b \in burned : b.parked

=============================================================================
