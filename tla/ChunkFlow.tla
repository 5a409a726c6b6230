----------------------------- MODULE ChunkFlow -----------------------------
(***************************************************************************)
(* Flow control of one chunk version in one epoch: the counters of         *)
(* ChunkState and the lock-free operations on them, driven by the executor *)
(* threads of the rank that writes the chunk and of the ranks that read    *)
(* it.  Slices of a ring-buffered chunk share Slots slots of host memory;  *)
(* the writer may reuse a slot once consume_progress says that every       *)
(* reader is done with the slice it holds.                                 *)
(*                                                                         *)
(* A transfer occupies the time between its submission and its completion: *)
(* the destination slot is lost to its former slice from the submission    *)
(* on, and the source must stay intact until the completion.  DMA lanes    *)
(* complete in submission order; the H2H worker pool completes a node's    *)
(* slices in any order.                                                    *)
(***************************************************************************)
EXTENDS Naturals

CONSTANTS
  NumReaders,    \* ChunkVersion::num_readers, the readers of this version
  NumSubchunks,  \* graph_->num_subchunks
  Slots,         \* pcclRingSlotsFor(chunk_size)
  Kinds          \* kinds of chunk: [writer_op: "dma" (D2H) or "h2h" (H2H, H2HReduce),
                 \*   reader_op: the same for each reader,
                 \*   late: the readers whose rank has not popped this collective yet]

Readers == 0 .. NumReaders - 1
Slices  == 0 .. NumSubchunks - 1

ASSUME ConstantsAssumption ==
  /\ NumReaders \in Nat \ {0}
  /\ NumSubchunks \in Nat \ {0}
  /\ Slots \in Nat \ {0}
  /\ Kinds \subseteq [writer_op : {"dma", "h2h"}, reader_op : [Readers -> {"dma", "h2h"}],
                     late : SUBSET Readers]

VARIABLES
  kind,
  \* ChunkState in shared memory
  write_progress, consume_progress, reader_done, num_readers,
  \* the writing node: next_subchunk, the transfers in flight
  w_next, w_fly,
  \* the slice each slot was last given to
  ring,
  \* each reading node: next_subchunk, transfers in flight, and where its
  \* thread stands, with the locals of advanceReaderDone
  r_next, r_fly, pc, scan_idx, min_rd

counters == <<write_progress, consume_progress, reader_done, num_readers>>
writer   == <<w_next, w_fly, ring>>
locals   == <<scan_idx, min_rd>>
readers  == <<r_next, r_fly, pc, locals>>
vars     == <<kind, counters, writer, readers>>

NoSlice == NumSubchunks

(* No counter passes the number of slices and no cursor leaves its range.  *)
TypeOK ==
  /\ kind \in Kinds
  /\ write_progress \in 0 .. NumSubchunks
  /\ consume_progress \in 0 .. NumSubchunks
  /\ reader_done \in [Readers -> 0 .. NumSubchunks]
  /\ num_readers \in {0, NumReaders}
  /\ w_next \in 0 .. NumSubchunks
  /\ w_fly \in SUBSET Slices
  /\ ring \in [0 .. Slots - 1 -> 0 .. NumSubchunks]
  /\ r_next \in [Readers -> 0 .. NumSubchunks]
  /\ r_fly \in [Readers -> SUBSET Slices]
  /\ pc \in [Readers -> {"queued", "zeroed", "poll", "scan", "cas"}]
  /\ scan_idx \in [Readers -> 0 .. NumReaders]
  /\ min_rd \in [Readers -> 0 .. NumSubchunks]

(* The writer's rank has popped the collective: the counters of this epoch *)
(* are zero (resetEpochKeys) and num_readers has its compiled value.       *)
Init ==
  /\ kind \in Kinds
  /\ write_progress = 0
  /\ consume_progress = 0
  /\ reader_done = [r \in Readers |-> 0]
  /\ num_readers = NumReaders
  /\ w_next = 0
  /\ w_fly = {}
  /\ ring = [s \in 0 .. Slots - 1 |-> NoSlice]
  /\ r_next = [r \in Readers |-> 0]
  /\ r_fly = [r \in Readers |-> {}]
  /\ pc = [r \in Readers |-> IF r \in kind.late THEN "queued" ELSE "poll"]
  /\ scan_idx = [r \in Readers |-> 0]
  /\ min_rd = [r \in Readers |-> 0]

-----------------------------------------------------------------------------

(* compare_exchange loops that only ever raise a counter. *)
AtomicMax(old, new) == IF new > old THEN new ELSE old

(* Mutation: any finished event is taken, not only the oldest of the lane. *)
Completes_AnyOrder(op, fly, sc) == sc \in fly

(* Which transfer of a node may complete next: a lane is FIFO, the worker  *)
(* pool is not.                                                            *)
Completes(op, fly, sc) ==
  /\ sc \in fly
  /\ op = "dma" => \A other \in fly : sc <= other

(* Mutation: one slice too few is required to be consumed. *)
SlotFree_OffByOne(sc) ==
  ~ (sc >= Slots /\ num_readers > 0 /\ consume_progress < sc - Slots)

(* overwriteReady, the output_ring_buffered part *)
SlotFree(sc) ==
  ~ /\ sc >= Slots
    /\ num_readers > 0
    /\ consume_progress < (sc - Slots) + 1

-----------------------------------------------------------------------------
(* The writer *)

(* trySubmitNode of the writing node: the slice's slot is given away here. *)
SubmitWrite ==
  /\ w_next < NumSubchunks
  /\ SlotFree(w_next)
  /\ w_next' = w_next + 1
  /\ w_fly' = w_fly \cup {w_next}
  /\ ring' = [ring EXCEPT ![w_next % Slots] = w_next]
  /\ UNCHANGED <<kind, counters, readers>>

(* pollCudaLane / pollH2HCompletions, publishNodeProgress *)
CompleteWrite(sc) ==
  /\ Completes(kind.writer_op, w_fly, sc)
  /\ w_fly' = w_fly \ {sc}
  /\ write_progress' = AtomicMax(write_progress, sc + 1)
  /\ UNCHANGED <<kind, consume_progress, reader_done, num_readers, w_next, ring, readers>>

-----------------------------------------------------------------------------
(* A reader *)

(* executorThreadFunc of a rank that pops the collective after the writer's *)
(* rank did: num_readers goes through 0 before it has its value again.     *)
PopZeroesReaders(r) ==
  /\ pc[r] = "queued"
  /\ num_readers' = 0
  /\ pc' = [pc EXCEPT ![r] = "zeroed"]
  /\ UNCHANGED <<kind, write_progress, consume_progress, reader_done, writer, r_next, r_fly, locals>>

PopSetsReaders(r) ==
  /\ pc[r] = "zeroed"
  /\ num_readers' = NumReaders
  /\ pc' = [pc EXCEPT ![r] = "poll"]
  /\ UNCHANGED <<kind, write_progress, consume_progress, reader_done, writer, r_next, r_fly, locals>>

(* Mutation: the reader waits for one slice more than it needs. *)
SubmitRead_WaitsOneMore(r) ==
  /\ pc[r] = "poll"
  /\ r_next[r] < NumSubchunks
  /\ write_progress > r_next[r] + 1
  /\ r_next' = [r_next EXCEPT ![r] = @ + 1]
  /\ r_fly' = [r_fly EXCEPT ![r] = @ \cup {r_next[r]}]
  /\ UNCHANGED <<kind, counters, writer, pc, locals>>

(* trySubmitNode of a reading node, inputsReady *)
SubmitRead(r) ==
  /\ pc[r] = "poll"
  /\ r_next[r] < NumSubchunks
  /\ write_progress >= r_next[r] + 1
  /\ r_next' = [r_next EXCEPT ![r] = @ + 1]
  /\ r_fly' = [r_fly EXCEPT ![r] = @ \cup {r_next[r]}]
  /\ UNCHANGED <<kind, counters, writer, pc, locals>>

(* Mutation: the minimum starts from the old cursor. *)
CompleteRead_StaleMinimum(r, sc) ==
  /\ pc[r] = "poll"
  /\ Completes(kind.reader_op[r], r_fly[r], sc)
  /\ r_fly' = [r_fly EXCEPT ![r] = @ \ {sc}]
  /\ reader_done' = [reader_done EXCEPT ![r] = AtomicMax(@, sc + 1)]
  /\ min_rd' = [min_rd EXCEPT ![r] = reader_done[r]]
  /\ scan_idx' = [scan_idx EXCEPT ![r] = 0]
  /\ pc' = [pc EXCEPT ![r] = "scan"]
  /\ UNCHANGED <<kind, write_progress, consume_progress, num_readers, writer, r_next>>

(* A read completes; advanceReaderDone raises the reader's own cursor. *)
CompleteRead(r, sc) ==
  /\ pc[r] = "poll"
  /\ Completes(kind.reader_op[r], r_fly[r], sc)
  /\ r_fly' = [r_fly EXCEPT ![r] = @ \ {sc}]
  /\ reader_done' = [reader_done EXCEPT ![r] = AtomicMax(@, sc + 1)]
  /\ min_rd' = [min_rd EXCEPT ![r] = sc + 1]
  /\ scan_idx' = [scan_idx EXCEPT ![r] = 0]
  /\ pc' = [pc EXCEPT ![r] = "scan"]
  /\ UNCHANGED <<kind, write_progress, consume_progress, num_readers, writer, r_next>>

(* advanceReaderDone reads one cursor after the other. *)
ScanReader(r) ==
  /\ pc[r] = "scan"
  /\ scan_idx[r] < num_readers
  /\ LET v == reader_done[scan_idx[r]]
     IN  min_rd' = [min_rd EXCEPT ![r] = IF v < @ THEN v ELSE @]
  /\ scan_idx' = [scan_idx EXCEPT ![r] = @ + 1]
  /\ UNCHANGED <<kind, counters, writer, r_next, r_fly, pc>>

(* Mutation: the last reader's cursor is not read. *)
EndScan_SkipsLast(r) ==
  /\ pc[r] = "scan"
  /\ scan_idx[r] + 1 >= num_readers
  /\ pc' = [pc EXCEPT ![r] = "cas"]
  /\ UNCHANGED <<kind, counters, writer, r_next, r_fly, locals>>

(* The cursors of all num_readers readers have been read. *)
EndScan(r) ==
  /\ pc[r] = "scan"
  /\ scan_idx[r] >= num_readers
  /\ pc' = [pc EXCEPT ![r] = "cas"]
  /\ UNCHANGED <<kind, counters, writer, r_next, r_fly, locals>>

(* advanceReaderDone raises consume_progress to the minimum it saw. *)
RaiseConsume(r) ==
  /\ pc[r] = "cas"
  /\ consume_progress' = AtomicMax(consume_progress, min_rd[r])
  /\ pc' = [pc EXCEPT ![r] = "poll"]
  /\ UNCHANGED <<kind, write_progress, reader_done, num_readers, writer, r_next, r_fly, locals>>

-----------------------------------------------------------------------------

WriterStep == SubmitWrite \/ \E sc \in Slices : CompleteWrite(sc)

ReaderStep(r) ==
  \/ PopZeroesReaders(r)
  \/ PopSetsReaders(r)
  \/ SubmitRead(r)
  \/ \E sc \in Slices : CompleteRead(r, sc)
  \/ ScanReader(r)
  \/ EndScan(r)
  \/ RaiseConsume(r)

Next == WriterStep \/ \E r \in Readers : ReaderStep(r)

Spec == Init /\ [][Next]_vars

(* Executor threads poll without end and every submitted transfer ends. *)
FairSpec ==
  /\ Spec
  /\ WF_vars(WriterStep)
  /\ \A r \in Readers : WF_vars(ReaderStep(r))

-----------------------------------------------------------------------------
(* Properties *)

(* Transfers go through DMA lanes and every rank has popped the            *)
(* collective.                                                             *)
DmaChunk ==
  /\ kind.writer_op = "dma"
  /\ \A r \in Readers : kind.reader_op[r] = "dma"
  /\ kind.late = {}

(* While a reader's transfer of a slice is in flight, the slice is         *)
(* completely written and its slot has not been given to a later slice:    *)
(* graph_executor.cpp's overwriteReady "wait until all readers of the ring *)
(* chunk have consumed that older slice".  A late rank or a writer that    *)
(* finishes slices out of order breaks it.                                 *)
SliceIntact ==
  DmaChunk =>
    \A r \in Readers : \A sc \in r_fly[r] :
      /\ sc \notin w_fly
      /\ ring[sc % Slots] = sc

(* consume_progress never passes a reader's cursor, however the scans of   *)
(* advanceReaderDone interleave (ChunkState: "the minimum subchunk index   *)
(* that ALL readers have finished").                                       *)
ConsumeBelowReaders ==
  DmaChunk => \A r \in Readers : consume_progress <= reader_done[r]

(* No advance is lost: once no thread is inside advanceReaderDone,         *)
(* consume_progress has reached the slowest cursor, although the threads   *)
(* read the cursors one by one while the others move.                      *)
ConsumeCatchesUp ==
  (\A r \in Readers : pc[r] \notin {"scan", "cas"})
    => \E r \in Readers : reader_done[r] <= consume_progress

(* The writer waits for the readers and the readers for the writer, and    *)
(* still every reader gets through every slice.                            *)
AllSlicesConsumed ==
  <>(/\ write_progress = NumSubchunks
     /\ \A r \in Readers : reader_done[r] = NumSubchunks
     /\ consume_progress = NumSubchunks)

(* The counters of a ring between DMA lanes implement the credit scheme of *)
(* CreditChannel; any other chunk leaves the channel unused.               *)
Channel == INSTANCE CreditChannel WITH
  started   <- IF DmaChunk THEN w_next ELSE 0,
  available <- IF DmaChunk THEN write_progress ELSE 0,
  taken     <- IF DmaChunk THEN reader_done ELSE [r \in Readers |-> 0]

(* ChunkState on such a chunk takes only the steps of CreditChannel.       *)
ImplementsChannel == Channel!Spec

=============================================================================
