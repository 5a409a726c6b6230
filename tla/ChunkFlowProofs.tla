-------------------------- MODULE ChunkFlowProofs --------------------------
(***************************************************************************)
(* Proofs about ChunkFlow for every number of readers, of slices and of    *)
(* slots.  The safety of the ring rests on three facts about the counters: *)
(* consume_progress never passes a cursor, the writer never runs more than *)
(* Slots slices ahead of consume_progress, and lanes complete in order.    *)
(***************************************************************************)
EXTENDS ChunkFlow, Integers, TLAPS

-----------------------------------------------------------------------------
(* Slots of a ring *)

(* Division with remainder. *)
LEMMA DivMod ==
  ASSUME NEW S \in Nat \ {0}, NEW a \in Nat
  PROVE  /\ a \div S \in Nat
         /\ a % S \in 0 .. S - 1
         /\ a = S * (a \div S) + (a % S)
OBVIOUS

(* A larger factor makes the product larger by at least S. *)
LEMMA MulStep ==
  ASSUME NEW S \in Nat \ {0}, NEW p \in Nat, NEW q \in Nat, p < q
  PROVE  S * q >= S * p + S
<1>1. PICK d \in Nat : q = p + 1 + d
  <2>1. q - p - 1 \in Nat /\ q = p + 1 + (q - p - 1)
    OBVIOUS
  <2>. QED BY <2>1
<1>2. S * q = S * p + S + S * d
  BY <1>1
<1>3. S * d >= 0
  OBVIOUS
<1>. QED BY <1>2, <1>3

(* Slices less than S apart are in different slots of a ring of S slots. *)
LEMMA SlotsDiffer ==
  ASSUME NEW S \in Nat \ {0}, NEW a \in Nat, NEW b \in Nat, b < a, a < b + S
  PROVE  a % S # b % S
<1>. DEFINE qa == a \div S
            qb == b \div S
            ra == a % S
            rb == b % S
<1>1. /\ qa \in Nat /\ ra \in Nat /\ a = S * qa + ra
      /\ qb \in Nat /\ rb \in Nat /\ b = S * qb + rb
  BY DivMod
<1>. SUFFICES ASSUME ra = rb PROVE FALSE
  OBVIOUS
<1>. HIDE DEF qa, qb, ra, rb
<1>2. S * qb \in Nat /\ S * qa \in Nat
  BY <1>1
<1>3. S * qb < S * qa /\ S * qa < S * qb + S
  BY <1>1, <1>2
<1>4. CASE qb < qa
  BY <1>4, <1>1, <1>2, <1>3, MulStep
<1>5. CASE qa < qb
  <2>1. S * qb >= S * qa + S
    BY <1>5, <1>1, MulStep
  <2>. QED BY <2>1, <1>1, <1>2, <1>3
<1>6. CASE qa = qb
  BY <1>6, <1>2, <1>3
<1>. QED BY <1>1, <1>4, <1>5, <1>6

-----------------------------------------------------------------------------
(* Type correctness *)

(* What the proofs need to know of the ranges of slices and readers. *)
LEMMA Ranges ==
  /\ NumReaders \in Nat /\ NumSubchunks \in Nat /\ Slots \in Nat \ {0}
  /\ \A sc \in Slices : sc \in Nat /\ sc < NumSubchunks /\ sc + 1 \in 0 .. NumSubchunks
  /\ \A sc \in Nat : sc < NumSubchunks => sc \in Slices
  /\ \A i \in Nat : i < NumReaders => i \in Readers
  /\ \A r \in Readers : r \in Nat /\ r < NumReaders
BY ConstantsAssumption DEF Slices, Readers

(* TypeOK is inductive for every kind of writer and reader, late ranks     *)
(* included.                                                               *)
LEMMA TypeStep == TypeOK /\ [Next]_vars => TypeOK'
<1>. SUFFICES ASSUME TypeOK, [Next]_vars PROVE TypeOK'
  OBVIOUS
<1>. USE Ranges
<1>1. CASE SubmitWrite
  <2>1. w_next \in Nat /\ w_next \in Slices /\ w_next + 1 \in 0 .. NumSubchunks
    BY <1>1 DEF TypeOK, SubmitWrite
  <2>2. w_next % Slots \in 0 .. Slots - 1
    BY <2>1, DivMod
  <2>3. ring' \in [0 .. Slots - 1 -> 0 .. NumSubchunks]
    BY <1>1, <2>1, <2>2 DEF TypeOK, SubmitWrite
  <2>4. w_fly' \in SUBSET Slices
    BY <1>1, <2>1 DEF TypeOK, SubmitWrite
  <2>. QED BY <1>1, <2>1, <2>3, <2>4 DEF TypeOK, SubmitWrite, counters, readers, locals
<1>2. ASSUME NEW sc \in Slices, CompleteWrite(sc) PROVE TypeOK'
  BY <1>2 DEF TypeOK, CompleteWrite, readers, locals, AtomicMax
<1>3. ASSUME NEW r \in Readers, PopZeroesReaders(r) PROVE TypeOK'
  BY <1>3 DEF TypeOK, PopZeroesReaders, writer, locals
<1>4. ASSUME NEW r \in Readers, PopSetsReaders(r) PROVE TypeOK'
  BY <1>4 DEF TypeOK, PopSetsReaders, writer, locals
<1>5. ASSUME NEW r \in Readers, SubmitRead(r) PROVE TypeOK'
  <2>1. r_next[r] \in Slices /\ r_next[r] + 1 \in 0 .. NumSubchunks
    BY <1>5 DEF TypeOK, SubmitRead
  <2>. QED BY <1>5, <2>1 DEF TypeOK, SubmitRead, counters, writer, locals
<1>6. ASSUME NEW r \in Readers, NEW sc \in Slices, CompleteRead(r, sc) PROVE TypeOK'
  <2>1. AtomicMax(reader_done[r], sc + 1) \in 0 .. NumSubchunks /\ 0 \in 0 .. NumReaders
    BY DEF TypeOK, AtomicMax
  <2>2. r_fly' \in [Readers -> SUBSET Slices]
    BY <1>6 DEF TypeOK, CompleteRead
  <2>3. reader_done' \in [Readers -> 0 .. NumSubchunks]
    BY <1>6, <2>1 DEF TypeOK, CompleteRead
  <2>. QED BY <1>6, <2>1, <2>2, <2>3 DEF TypeOK, CompleteRead, writer
<1>7. ASSUME NEW r \in Readers, ScanReader(r) PROVE TypeOK'
  <2>0. scan_idx[r] \in Nat /\ scan_idx[r] < NumReaders
    <3>1. scan_idx[r] \in 0 .. NumReaders /\ num_readers \in {0, NumReaders}
      BY DEF TypeOK
    <3>. QED BY <1>7, <3>1 DEF ScanReader
  <2>1. scan_idx[r] \in Readers /\ scan_idx[r] + 1 \in 0 .. NumReaders
    BY <2>0
  <2>2. reader_done[scan_idx[r]] \in 0 .. NumSubchunks
    BY <2>1 DEF TypeOK
  <2>. QED BY <1>7, <2>1, <2>2 DEF TypeOK, ScanReader, counters, writer
<1>8. ASSUME NEW r \in Readers, EndScan(r) PROVE TypeOK'
  BY <1>8 DEF TypeOK, EndScan, counters, writer, locals
<1>9. ASSUME NEW r \in Readers, RaiseConsume(r) PROVE TypeOK'
  BY <1>9 DEF TypeOK, RaiseConsume, writer, locals, AtomicMax
<1>10. CASE UNCHANGED vars
  BY <1>10 DEF TypeOK, vars, counters, writer, readers, locals
<1>. QED
  BY <1>1, <1>2, <1>3, <1>4, <1>5, <1>6, <1>7, <1>8, <1>9, <1>10
     DEF Next, WriterStep, ReaderStep

(* The counters stay within their ranges (advanceWriteProgress,            *)
(* advanceReaderDone never count past num_subchunks).                      *)
THEOREM TypeCorrect == Spec => []TypeOK
<1>1. Init => TypeOK
  BY ConstantsAssumption DEF Init, TypeOK, Readers, Slices, NoSlice
<1>. QED BY <1>1, TypeStep, PTL DEF Spec

-----------------------------------------------------------------------------
(* No advance of consume_progress is lost *)

(* If every cursor has reached v, then consume_progress has, or a thread   *)
(* inside advanceReaderDone carries a minimum of at least v: the thread    *)
(* whose cursor reached v last has yet to read the cursors.                *)
AdvanceUnderWay ==
  \A v \in 1 .. NumSubchunks :
    (\A r \in Readers : reader_done[r] >= v) =>
       \/ consume_progress >= v
       \/ \E r \in Readers : pc[r] \in {"scan", "cas"} /\ min_rd[r] >= v

(* A step of any thread keeps AdvanceUnderWay: whoever raised a cursor last *)
(* is still going to carry it into consume_progress.                       *)
LEMMA AdvanceUnderWayStep ==
  TypeOK /\ AdvanceUnderWay /\ [Next]_vars => AdvanceUnderWay'
<1>. SUFFICES ASSUME TypeOK, AdvanceUnderWay, [Next]_vars,
                     NEW v \in 1 .. NumSubchunks,
                     \A r \in Readers : reader_done'[r] >= v
              PROVE  \/ consume_progress' >= v
                     \/ \E r \in Readers : pc'[r] \in {"scan", "cas"} /\ min_rd'[r] >= v
  BY DEF AdvanceUnderWay
<1>. USE Ranges
<1>1. CASE UNCHANGED <<reader_done, consume_progress, min_rd>>
           /\ \A r \in Readers : pc[r] \in {"scan", "cas"} => pc'[r] \in {"scan", "cas"}
  BY <1>1 DEF AdvanceUnderWay, TypeOK
<1>2. CASE WriterStep
  BY <1>2, <1>1 DEF WriterStep, SubmitWrite, CompleteWrite, counters, readers, locals
<1>3. ASSUME NEW r \in Readers, PopZeroesReaders(r) \/ PopSetsReaders(r) \/ SubmitRead(r) \/ EndScan(r)
      PROVE  \A q \in Readers : pc[q] \in {"scan", "cas"} => pc'[q] \in {"scan", "cas"}
  BY <1>3 DEF TypeOK, PopZeroesReaders, PopSetsReaders, SubmitRead, EndScan
<1>4. ASSUME NEW r \in Readers, PopZeroesReaders(r) \/ PopSetsReaders(r) \/ SubmitRead(r) \/ EndScan(r)
      PROVE  UNCHANGED <<reader_done, consume_progress, min_rd>>
  BY <1>4 DEF PopZeroesReaders, PopSetsReaders, SubmitRead, EndScan, counters, locals
<1>5. ASSUME NEW r \in Readers, NEW sc \in Slices, CompleteRead(r, sc)
      PROVE  \/ consume_progress' >= v
             \/ \E q \in Readers : pc'[q] \in {"scan", "cas"} /\ min_rd'[q] >= v
  <2>1. /\ pc' = [pc EXCEPT ![r] = "scan"] /\ min_rd' = [min_rd EXCEPT ![r] = sc + 1]
        /\ reader_done' = [reader_done EXCEPT ![r] = AtomicMax(@, sc + 1)]
        /\ consume_progress' = consume_progress /\ pc[r] = "poll"
    BY <1>5 DEF CompleteRead
  <2>2. CASE sc + 1 >= v
    BY <2>1, <2>2 DEF TypeOK
  <2>3. CASE ~(sc + 1 >= v)
    <3>1. \A q \in Readers : reader_done[q] >= v
      BY <2>1, <2>3 DEF TypeOK, AtomicMax
    <3>2. CASE consume_progress >= v
      BY <3>2, <2>1
    <3>3. CASE \E q \in Readers : pc[q] \in {"scan", "cas"} /\ min_rd[q] >= v
      BY <3>3, <2>1 DEF TypeOK
    <3>. QED BY <3>1, <3>2, <3>3 DEF AdvanceUnderWay
  <2>. QED BY <2>2, <2>3
<1>6. ASSUME NEW r \in Readers, ScanReader(r)
      PROVE  \/ consume_progress' >= v
             \/ \E q \in Readers : pc'[q] \in {"scan", "cas"} /\ min_rd'[q] >= v
  <2>1. /\ pc' = pc /\ reader_done' = reader_done /\ consume_progress' = consume_progress
        /\ \A q \in Readers : q # r => min_rd'[q] = min_rd[q]
    BY <1>6 DEF ScanReader, counters, TypeOK
  <2>2. scan_idx[r] \in Readers
    <3>1. scan_idx[r] \in 0 .. NumReaders /\ num_readers \in {0, NumReaders}
      BY DEF TypeOK
    <3>. QED BY <1>6, <3>1 DEF ScanReader
  <2>3. min_rd[r] >= v => min_rd'[r] >= v
    BY <1>6, <2>1, <2>2 DEF ScanReader, TypeOK
  <2>. QED BY <2>1, <2>3 DEF AdvanceUnderWay
<1>7. ASSUME NEW r \in Readers, RaiseConsume(r)
      PROVE  \/ consume_progress' >= v
             \/ \E q \in Readers : pc'[q] \in {"scan", "cas"} /\ min_rd'[q] >= v
  <2>1. /\ reader_done' = reader_done /\ min_rd' = min_rd
        /\ consume_progress' = AtomicMax(consume_progress, min_rd[r])
        /\ \A q \in Readers : q # r => pc'[q] = pc[q]
    BY <1>7 DEF RaiseConsume, locals, TypeOK
  <2>2. min_rd[r] >= v => consume_progress' >= v
    BY <2>1 DEF AtomicMax, TypeOK
  <2>3. consume_progress >= v => consume_progress' >= v
    BY <2>1 DEF AtomicMax, TypeOK
  <2>. QED BY <2>1, <2>2, <2>3 DEF AdvanceUnderWay
<1>8. CASE UNCHANGED vars
  BY <1>8, <1>1 DEF vars, counters, readers, locals
<1>. QED
  BY <1>1, <1>2, <1>3, <1>4, <1>5, <1>6, <1>7, <1>8 DEF Next, ReaderStep

(* However the threads in advanceReaderDone interleave, and whatever a     *)
(* late rank does to num_readers, consume_progress ends up at the slowest  *)
(* cursor: no writer waits for a slot that is already free.                *)
THEOREM NoLostAdvance == Spec => []ConsumeCatchesUp
<1>1. Init => AdvanceUnderWay
  <2>. SUFFICES ASSUME Init, NEW v \in 1 .. NumSubchunks,
                       \A r \in Readers : reader_done[r] >= v
                PROVE  FALSE
    BY DEF AdvanceUnderWay
  <2>1. 0 \in Readers
    BY ConstantsAssumption DEF Readers
  <2>. QED BY <2>1, Ranges DEF Init
<1>2. TypeOK /\ AdvanceUnderWay => ConsumeCatchesUp
  <2>. SUFFICES ASSUME TypeOK, AdvanceUnderWay,
                       \A r \in Readers : pc[r] \notin {"scan", "cas"},
                       \A r \in Readers : ~(reader_done[r] <= consume_progress)
                PROVE  FALSE
    BY DEF ConsumeCatchesUp
  <2>1. 0 \in Readers
    BY ConstantsAssumption DEF Readers
  <2>2. consume_progress \in 0 .. NumSubchunks /\ reader_done[0] \in 0 .. NumSubchunks
    BY <2>1 DEF TypeOK
  <2>3. consume_progress + 1 \in 1 .. NumSubchunks
    BY <2>1, <2>2, Ranges
  <2>4. \A r \in Readers : reader_done[r] >= consume_progress + 1
    BY <2>2, Ranges DEF TypeOK
  <2>5. consume_progress >= consume_progress + 1
    BY <2>3, <2>4 DEF AdvanceUnderWay
  <2>. QED BY <2>2, <2>5
<1>. QED BY <1>1, <1>2, TypeCorrect, AdvanceUnderWayStep, PTL DEF Spec

-----------------------------------------------------------------------------
(* The ring is safe when transfers go through DMA lanes and every rank has *)
(* popped the collective (DmaChunk)                                        *)

(* Lanes complete in order, so what is in flight is an interval. *)
WritesInOrder ==
  /\ write_progress <= w_next
  /\ \A sc \in Slices : sc \in w_fly <=> write_progress <= sc /\ sc < w_next

ReadsInOrder ==
  \A r \in Readers :
    /\ reader_done[r] <= r_next[r]
    /\ r_next[r] <= write_progress
    /\ \A sc \in Slices : sc \in r_fly[r] <=> reader_done[r] <= sc /\ sc < r_next[r]

(* A minimum that a thread carries is below every cursor it has read. *)
ScansBelowReaders ==
  \A r \in Readers :
    /\ pc[r] \in {"poll", "scan", "cas"}
    /\ pc[r] = "scan" => \A i \in Readers : i < scan_idx[r] => min_rd[r] <= reader_done[i]
    /\ pc[r] = "cas" => \A i \in Readers : min_rd[r] <= reader_done[i]

(* ConsumeBelowReaders of such a chunk *)
ConsumeBelow == \A r \in Readers : consume_progress <= reader_done[r]

(* The credit the writer has taken. *)
WithinCredit == w_next <= consume_progress + Slots

(* The last Slots slices submitted are in their slots. *)
RingHolds ==
  \A sc \in Slices : sc < w_next /\ w_next <= sc + Slots => ring[sc % Slots] = sc

RingInv ==
  /\ TypeOK
  /\ num_readers = NumReaders
  /\ WritesInOrder
  /\ ReadsInOrder
  /\ ScansBelowReaders
  /\ ConsumeBelow
  /\ WithinCredit
  /\ RingHolds

(* The types in the form the arithmetic steps use. *)
LEMMA NatTypes ==
  ASSUME TypeOK
  PROVE  /\ write_progress \in Nat /\ consume_progress \in Nat /\ w_next \in Nat
         /\ reader_done \in [Readers -> Nat] /\ r_next \in [Readers -> Nat]
         /\ min_rd \in [Readers -> Nat] /\ scan_idx \in [Readers -> Nat]
         /\ r_fly \in [Readers -> SUBSET Slices] /\ w_fly \in SUBSET Slices
BY Ranges DEF TypeOK

(* RingInv holds when the writer's rank has popped the collective. *)
LEMMA RingInit == DmaChunk /\ Init => RingInv
<1>. SUFFICES ASSUME DmaChunk, Init PROVE RingInv
  OBVIOUS
<1>. USE Ranges
<1>1. TypeOK
  BY ConstantsAssumption DEF Init, TypeOK, Readers, Slices, NoSlice
<1>2. WritesInOrder /\ WithinCredit /\ RingHolds /\ num_readers = NumReaders
  BY DEF Init, WritesInOrder, WithinCredit, RingHolds
<1>3. ReadsInOrder /\ ConsumeBelow
  BY DEF Init, ReadsInOrder, ConsumeBelow
<1>4. ScansBelowReaders
  BY DEF Init, ScansBelowReaders, DmaChunk
<1>. QED BY <1>1, <1>2, <1>3, <1>4 DEF RingInv

(* Every step of the writer, of a reader's transfer or of                  *)
(* advanceReaderDone preserves RingInv.                                    *)
LEMMA RingStep == DmaChunk /\ RingInv /\ [Next]_vars => RingInv'
<1>. SUFFICES ASSUME DmaChunk, RingInv, [Next]_vars PROVE RingInv'
  OBVIOUS
<1>. USE Ranges
<1>0. TypeOK /\ TypeOK'
  BY TypeStep DEF RingInv
<1>N. /\ write_progress \in Nat /\ consume_progress \in Nat /\ w_next \in Nat
      /\ reader_done \in [Readers -> Nat] /\ r_next \in [Readers -> Nat]
      /\ min_rd \in [Readers -> Nat] /\ scan_idx \in [Readers -> Nat]
      /\ r_fly \in [Readers -> SUBSET Slices] /\ w_fly \in SUBSET Slices
  BY <1>0, NatTypes
<1>1. CASE SubmitWrite
  <2>1. /\ w_next < NumSubchunks /\ w_next \in Nat /\ w_next \in Slices
        /\ w_next' = w_next + 1 /\ w_fly' = w_fly \cup {w_next}
        /\ ring' = [ring EXCEPT ![w_next % Slots] = w_next]
        /\ UNCHANGED <<counters, readers>>
    BY <1>0, <1>1 DEF SubmitWrite, TypeOK
  <2>2. WritesInOrder'
    BY <1>0, <2>1 DEF RingInv, WritesInOrder, TypeOK, counters
  <2>3. ReadsInOrder' /\ ScansBelowReaders' /\ ConsumeBelow' /\ num_readers' = NumReaders
    BY <2>1 DEF RingInv, ReadsInOrder, ScansBelowReaders, ConsumeBelow, counters, readers, locals
  <2>4. WithinCredit'
    <3>1. num_readers > 0
      BY ConstantsAssumption DEF RingInv
    <3>2. w_next < Slots \/ consume_progress >= (w_next - Slots) + 1
      BY <1>0, <1>1, <2>1, <3>1 DEF SubmitWrite, SlotFree, TypeOK
    <3>. QED BY <1>0, <2>1, <3>2 DEF WithinCredit, counters, TypeOK
  <2>5. RingHolds'
    <3>. SUFFICES ASSUME NEW sc \in Slices, sc < w_next + 1, w_next + 1 <= sc + Slots
                  PROVE  ring'[sc % Slots] = sc
      BY <2>1 DEF RingHolds
    <3>1. sc % Slots \in 0 .. Slots - 1 /\ w_next % Slots \in 0 .. Slots - 1
      BY <2>1, DivMod
    <3>2. CASE sc = w_next
      BY <1>0, <2>1, <3>1, <3>2 DEF TypeOK
    <3>3. CASE sc < w_next
      <4>1. w_next % Slots # sc % Slots
        <5>1. w_next < sc + Slots
          BY <2>1
        <5>. QED BY <2>1, <3>3, <5>1, SlotsDiffer
      <4>2. ring[sc % Slots] = sc
        BY <2>1, <3>3 DEF RingInv, RingHolds
      <4>. QED BY <1>0, <2>1, <3>1, <4>1, <4>2 DEF TypeOK
    <3>. QED BY <2>1, <3>2, <3>3
  <2>. QED BY <1>0, <2>2, <2>3, <2>4, <2>5 DEF RingInv
<1>2. ASSUME NEW sc \in Slices, CompleteWrite(sc) PROVE RingInv'
  <2>1. /\ sc = write_progress /\ write_progress' = sc + 1 /\ w_fly' = w_fly \ {sc}
        /\ sc < w_next
    <3>1. sc \in w_fly /\ \A other \in w_fly : sc <= other
      BY <1>2 DEF CompleteWrite, Completes, DmaChunk
    <3>2. write_progress <= sc /\ sc < w_next
      BY <3>1 DEF RingInv, WritesInOrder
    <3>3. write_progress \in Slices
      BY <1>N, <3>2
    <3>4. write_progress \in w_fly
      BY <1>N, <3>2, <3>3 DEF RingInv, WritesInOrder
    <3>5. sc = write_progress
      BY <1>N, <3>1, <3>2, <3>4
    <3>. QED BY <1>2, <1>N, <3>2, <3>5 DEF CompleteWrite, AtomicMax
  <2>2. UNCHANGED <<consume_progress, reader_done, num_readers, w_next, ring, readers>>
    BY <1>2 DEF CompleteWrite
  <2>3. WritesInOrder'
    BY <1>0, <2>1, <2>2 DEF RingInv, WritesInOrder, TypeOK
  <2>4. ReadsInOrder'
    <3>1. r_next' = r_next /\ r_fly' = r_fly /\ reader_done' = reader_done
      BY <2>2 DEF readers
    <3>2. \A r \in Readers : r_next[r] <= write_progress => r_next[r] <= write_progress'
      BY <1>N, <2>1
    <3>. QED BY <3>1, <3>2 DEF RingInv, ReadsInOrder
  <2>. QED
    BY <1>0, <2>2, <2>3, <2>4 DEF RingInv, ScansBelowReaders, ConsumeBelow, WithinCredit,
                                  RingHolds, readers, locals
<1>3. ASSUME NEW r \in Readers, PopZeroesReaders(r) \/ PopSetsReaders(r) PROVE RingInv'
  BY <1>3 DEF RingInv, ScansBelowReaders, PopZeroesReaders, PopSetsReaders
<1>4. ASSUME NEW r \in Readers, SubmitRead(r) PROVE RingInv'
  <2>1. ReadsInOrder'
    <3>. SUFFICES ASSUME NEW q \in Readers
                  PROVE  /\ reader_done'[q] <= r_next'[q] /\ r_next'[q] <= write_progress'
                         /\ \A sc \in Slices : sc \in r_fly'[q] <=> reader_done'[q] <= sc /\ sc < r_next'[q]
      BY DEF ReadsInOrder
    <3>1. CASE q = r
      <4>1. /\ r_next'[r] = r_next[r] + 1 /\ r_fly'[r] = r_fly[r] \cup {r_next[r]}
            /\ r_next[r] + 1 <= write_progress
            /\ UNCHANGED <<reader_done, write_progress>>
        BY <1>0, <1>4 DEF SubmitRead, counters, TypeOK
      <4>2. /\ reader_done[r] <= r_next[r] /\ r_next[r] \in Nat /\ reader_done[r] \in Nat
            /\ \A sc \in Slices : sc \in r_fly[r] <=> reader_done[r] <= sc /\ sc < r_next[r]
        BY <1>N DEF RingInv, ReadsInOrder
      <4>. QED BY <3>1, <4>1, <4>2
    <3>2. CASE q # r
      <4>1. /\ r_next'[q] = r_next[q] /\ r_fly'[q] = r_fly[q]
            /\ UNCHANGED <<reader_done, write_progress>>
        BY <1>0, <1>4, <3>2 DEF SubmitRead, counters, TypeOK
      <4>. QED BY <4>1 DEF RingInv, ReadsInOrder
    <3>. QED BY <3>1, <3>2
  <2>. QED
    BY <1>0, <1>4, <2>1 DEF RingInv, SubmitRead, WritesInOrder, ScansBelowReaders,
       ConsumeBelow, WithinCredit, RingHolds, counters, writer, locals
<1>5. ASSUME NEW r \in Readers, NEW sc \in Slices, CompleteRead(r, sc) PROVE RingInv'
  <2>1. sc = reader_done[r] /\ sc < r_next[r]
    <3>1. sc \in r_fly[r] /\ \A other \in r_fly[r] : sc <= other
      BY <1>5 DEF CompleteRead, Completes, DmaChunk
    <3>2. reader_done[r] <= sc /\ sc < r_next[r]
      BY <3>1 DEF RingInv, ReadsInOrder
    <3>3. reader_done[r] \in Slices
      BY <1>N, <3>2
    <3>4. reader_done[r] \in r_fly[r]
      BY <1>N, <3>2, <3>3 DEF RingInv, ReadsInOrder
    <3>. QED BY <1>N, <3>1, <3>2, <3>4
  <2>2. /\ reader_done' = [reader_done EXCEPT ![r] = sc + 1]
        /\ r_fly' = [r_fly EXCEPT ![r] = @ \ {sc}]
        /\ pc' = [pc EXCEPT ![r] = "scan"]
        /\ scan_idx' = [scan_idx EXCEPT ![r] = 0]
        /\ min_rd' = [min_rd EXCEPT ![r] = sc + 1]
        /\ UNCHANGED <<write_progress, consume_progress, num_readers, writer, r_next>>
    <3>1. AtomicMax(reader_done[r], sc + 1) = sc + 1
      BY <1>N, <2>1 DEF AtomicMax
    <3>. QED BY <1>5, <3>1 DEF CompleteRead
  <2>3. \A q \in Readers : reader_done[q] <= reader_done'[q]
    BY <1>N, <2>1, <2>2
  <2>4. ReadsInOrder'
    <3>. SUFFICES ASSUME NEW q \in Readers
                  PROVE  /\ reader_done'[q] <= r_next[q] /\ r_next[q] <= write_progress
                         /\ \A t \in Slices : t \in r_fly'[q] <=> reader_done'[q] <= t /\ t < r_next[q]
      BY <2>2 DEF ReadsInOrder
    <3>1. /\ reader_done[q] <= r_next[q] /\ r_next[q] <= write_progress
          /\ \A t \in Slices : t \in r_fly[q] <=> reader_done[q] <= t /\ t < r_next[q]
      BY DEF RingInv, ReadsInOrder
    <3>2. CASE q = r
      <4>1. reader_done'[q] = reader_done[q] + 1 /\ r_fly'[q] = r_fly[q] \ {reader_done[q]}
        BY <1>N, <2>1, <2>2, <3>2
      <4>2. reader_done[q] \in Nat /\ r_next[q] \in Nat /\ reader_done[q] < r_next[q]
        BY <1>N, <2>1, <3>2
      <4>3. \A t \in Slices : t \in r_fly'[q] <=> reader_done'[q] <= t /\ t < r_next[q]
        BY <3>1, <4>1, <4>2
      <4>. QED BY <3>1, <4>1, <4>2, <4>3
    <3>3. CASE q # r
      BY <1>N, <2>2, <3>1, <3>3
    <3>. QED BY <3>2, <3>3
  <2>5. ScansBelowReaders'
    <3>. SUFFICES ASSUME NEW q \in Readers
                  PROVE  /\ pc'[q] \in {"poll", "scan", "cas"}
                         /\ pc'[q] = "scan" => \A i \in Readers : i < scan_idx'[q] => min_rd'[q] <= reader_done'[i]
                         /\ pc'[q] = "cas" => \A i \in Readers : min_rd'[q] <= reader_done'[i]
      BY DEF ScansBelowReaders
    <3>1. CASE q = r
      <4>1. pc'[q] = "scan" /\ scan_idx'[q] = 0
        BY <1>0, <1>N, <2>2, <3>1 DEF TypeOK
      <4>. QED BY <4>1
    <3>2. CASE q # r
      <4>1. pc'[q] = pc[q] /\ scan_idx'[q] = scan_idx[q] /\ min_rd'[q] = min_rd[q]
        BY <1>0, <1>N, <2>2, <3>2 DEF TypeOK
      <4>2. \A i \in Readers : min_rd[q] <= reader_done[i] => min_rd[q] <= reader_done'[i]
        <5>1. \A i \in Readers : reader_done'[i] \in Nat
          BY <1>0, Ranges DEF TypeOK
        <5>. QED BY <1>N, <2>3, <5>1
      <4>. QED BY <4>1, <4>2 DEF RingInv, ScansBelowReaders
    <3>. QED BY <3>1, <3>2
  <2>6. ConsumeBelow'
    BY <1>N, <2>1, <2>2 DEF RingInv, ConsumeBelow
  <2>. QED
    BY <1>0, <2>2, <2>4, <2>5, <2>6 DEF RingInv, WritesInOrder, WithinCredit, RingHolds, writer
<1>6. ASSUME NEW r \in Readers, ScanReader(r) PROVE RingInv'
  <2>1. /\ pc[r] = "scan" /\ pc' = pc /\ reader_done' = reader_done
        /\ scan_idx' = [scan_idx EXCEPT ![r] = @ + 1]
        /\ scan_idx[r] \in Readers
        /\ min_rd'[r] <= min_rd[r] /\ min_rd'[r] <= reader_done[scan_idx[r]]
        /\ \A q \in Readers : q # r => min_rd'[q] = min_rd[q]
    <3>1. scan_idx[r] \in Nat /\ scan_idx[r] < NumReaders
      BY <1>0, <1>6 DEF ScanReader, RingInv, TypeOK
    <3>2. scan_idx[r] \in Readers
      BY <3>1
    <3>3. reader_done[scan_idx[r]] \in Nat /\ min_rd[r] \in Nat
      BY <1>N, <3>2
    <3>4. min_rd' = [min_rd EXCEPT ![r] = IF reader_done[scan_idx[r]] < @ THEN reader_done[scan_idx[r]] ELSE @]
      BY <1>6 DEF ScanReader
    <3>5. min_rd'[r] <= min_rd[r] /\ min_rd'[r] <= reader_done[scan_idx[r]]
      BY <1>N, <3>3, <3>4
    <3>. QED BY <1>6, <1>N, <3>2, <3>4, <3>5 DEF ScanReader, counters
  <2>2. ScansBelowReaders'
    <3>. SUFFICES ASSUME NEW q \in Readers
                  PROVE  /\ pc[q] \in {"poll", "scan", "cas"}
                         /\ pc[q] = "scan" => \A i \in Readers : i < scan_idx'[q] => min_rd'[q] <= reader_done[i]
                         /\ pc[q] = "cas" => \A i \in Readers : min_rd'[q] <= reader_done[i]
      BY <2>1 DEF ScansBelowReaders
    <3>1. CASE q = r
      <4>1. scan_idx'[r] = scan_idx[r] + 1 /\ scan_idx[r] \in Nat
        BY <1>0, <2>1 DEF TypeOK
      <4>2. \A i \in Readers : i < scan_idx[r] => min_rd[r] <= reader_done[i]
        BY <2>1 DEF RingInv, ScansBelowReaders
      <4>3. \A i \in Readers : i < scan_idx'[r] => i < scan_idx[r] \/ i = scan_idx[r]
        BY <4>1
      <4>4. \A i \in Readers : i < scan_idx'[r] => min_rd'[r] <= reader_done[i]
        <5>1. min_rd'[r] \in Nat
          BY <1>0, Ranges DEF TypeOK
        <5>. QED BY <1>N, <2>1, <4>2, <4>3, <5>1
      <4>. QED BY <2>1, <3>1, <4>4
    <3>2. CASE q # r
      BY <1>0, <2>1, <3>2 DEF RingInv, ScansBelowReaders, TypeOK
    <3>. QED BY <3>1, <3>2
  <2>. QED
    BY <1>0, <1>6, <2>2 DEF RingInv, ScanReader, WritesInOrder, ReadsInOrder,
       ConsumeBelow, WithinCredit, RingHolds, counters, writer
<1>7. ASSUME NEW r \in Readers, EndScan(r) PROVE RingInv'
  <2>1. ScansBelowReaders'
    <3>1. pc[r] = "scan" /\ scan_idx[r] >= NumReaders
      BY <1>7 DEF EndScan, RingInv
    <3>2. \A i \in Readers : min_rd[r] <= reader_done[i]
      <4>1. \A i \in Readers : i < scan_idx[r]
        BY <1>N, <3>1
      <4>. QED BY <3>1, <4>1 DEF RingInv, ScansBelowReaders
    <3>. QED BY <1>0, <1>7, <3>2 DEF EndScan, RingInv, ScansBelowReaders, counters, locals, TypeOK
  <2>. QED
    BY <1>0, <1>7, <2>1 DEF RingInv, EndScan, WritesInOrder, ReadsInOrder,
       ConsumeBelow, WithinCredit, RingHolds, counters, writer
<1>8. ASSUME NEW r \in Readers, RaiseConsume(r) PROVE RingInv'
  <2>1. /\ pc[r] = "cas" /\ pc' = [pc EXCEPT ![r] = "poll"]
        /\ consume_progress' = AtomicMax(consume_progress, min_rd[r])
        /\ UNCHANGED <<write_progress, reader_done, num_readers, writer, r_next, r_fly, locals>>
    BY <1>8 DEF RaiseConsume
  <2>2. ConsumeBelow'
    BY <1>0, <2>1 DEF RingInv, ScansBelowReaders, ConsumeBelow, AtomicMax, TypeOK
  <2>3. WithinCredit'
    BY <1>0, <2>1 DEF RingInv, WithinCredit, AtomicMax, TypeOK, writer
  <2>4. ScansBelowReaders'
    BY <1>0, <2>1 DEF RingInv, ScansBelowReaders, locals, TypeOK
  <2>. QED
    BY <1>0, <2>1, <2>2, <2>3, <2>4 DEF RingInv, WritesInOrder, ReadsInOrder, RingHolds, writer
<1>9. CASE UNCHANGED vars
  BY <1>0, <1>9 DEF RingInv, WritesInOrder, ReadsInOrder, ScansBelowReaders, ConsumeBelow,
     WithinCredit, RingHolds, vars, counters, writer, readers, locals
<1>. QED
  BY <1>1, <1>2, <1>3, <1>4, <1>5, <1>6, <1>7, <1>8, <1>9 DEF Next, WriterStep, ReaderStep

(* No step changes the kind of the chunk. *)
LEMMA KindFixed == [Next]_vars => kind' = kind
BY DEF Next, vars, WriterStep, ReaderStep, SubmitWrite, CompleteWrite, PopZeroesReaders, PopSetsReaders,
   SubmitRead, CompleteRead, ScanReader, EndScan, RaiseConsume

(* RingInv holds throughout a collective. *)
LEMMA RingInvariant == Spec => [](DmaChunk => RingInv)
<1>1. Init => (DmaChunk => RingInv)
  BY RingInit
<1>2. (DmaChunk => RingInv) /\ [Next]_vars => (DmaChunk => RingInv)'
  <2>. SUFFICES ASSUME DmaChunk => RingInv, [Next]_vars, DmaChunk' PROVE RingInv'
    OBVIOUS
  <2>1. DmaChunk
    BY KindFixed DEF DmaChunk
  <2>. QED BY <2>1, RingStep
<1>. QED BY <1>1, <1>2, PTL DEF Spec

(* A slice that a reader is transferring is completely written and its     *)
(* slot has not been reused, for any number of readers, slices and slots.  *)
THEOREM RingSafe == Spec => []SliceIntact
<1>1. (DmaChunk => RingInv) => SliceIntact
  <2>. SUFFICES ASSUME RingInv, NEW r \in Readers, NEW sc \in r_fly[r]
                PROVE  sc \notin w_fly /\ ring[sc % Slots] = sc
    BY DEF SliceIntact
  <2>1. sc \in Slices /\ TypeOK
    BY DEF RingInv, TypeOK
  <2>2. reader_done[r] <= sc /\ sc < r_next[r] /\ r_next[r] <= write_progress
    BY <2>1 DEF RingInv, ReadsInOrder
  <2>3. sc \notin w_fly
    BY <2>1, <2>2, Ranges DEF RingInv, WritesInOrder, TypeOK
  <2>4. sc < w_next /\ w_next <= sc + Slots
    <3>1. /\ write_progress <= w_next /\ w_next <= consume_progress + Slots
          /\ consume_progress <= reader_done[r]
      BY DEF RingInv, WritesInOrder, WithinCredit, ConsumeBelow
    <3>. QED BY <2>1, <2>2, <3>1, NatTypes, Ranges
  <2>. QED BY <2>1, <2>3, <2>4 DEF RingInv, RingHolds
<1>. QED BY <1>1, RingInvariant, PTL

(* consume_progress is below every cursor, for any number of readers.      *)
THEOREM ConsumeSafe == Spec => []ConsumeBelowReaders
<1>1. (DmaChunk => RingInv) => ConsumeBelowReaders
  BY DEF RingInv, ConsumeBelow, ConsumeBelowReaders
<1>. QED BY <1>1, RingInvariant, PTL

(* Submissions, completions and reader advances are the credit channel's   *)
(* steps; everything inside advanceReaderDone is invisible to it.          *)
THEOREM RefinesCreditChannel == Spec => ImplementsChannel
<1>1. Init => Channel!Init
  BY DEF Init, Channel!Init
<1>2. (DmaChunk => RingInv) /\ [Next]_vars => [Channel!Next]_Channel!vars
  <2>. SUFFICES ASSUME DmaChunk => RingInv, [Next]_vars PROVE [Channel!Next]_Channel!vars
    OBVIOUS
  <2>D. DmaChunk' = DmaChunk
    BY KindFixed DEF DmaChunk
  <2>E. CASE ~DmaChunk
    BY <2>D, <2>E DEF Channel!vars
  <2>. SUFFICES ASSUME DmaChunk, RingInv PROVE [Channel!Next]_Channel!vars
    BY <2>E
  <2>. USE Ranges
  <2>0. TypeOK
    BY DEF RingInv
  <2>N. /\ write_progress \in Nat /\ consume_progress \in Nat /\ w_next \in Nat
        /\ reader_done \in [Readers -> Nat] /\ r_next \in [Readers -> Nat]
        /\ r_fly \in [Readers -> SUBSET Slices] /\ w_fly \in SUBSET Slices
    BY <2>0, NatTypes
  <2>1. CASE SubmitWrite
    <3>1. num_readers = NumReaders /\ NumReaders > 0 /\ w_next < NumSubchunks /\ SlotFree(w_next)
      BY <2>1, ConstantsAssumption DEF RingInv, SubmitWrite
    <3>2. w_next < Slots \/ consume_progress >= (w_next - Slots) + 1
      BY <2>N, <3>1 DEF SlotFree
    <3>3. \A r \in Readers : w_next < reader_done[r] + Slots
      BY <2>N, <3>2 DEF RingInv, ConsumeBelow
    <3>. QED BY <2>1, <2>D, <3>1, <3>3 DEF SubmitWrite, counters, Channel!Next, Channel!Start
  <2>2. ASSUME NEW sc \in Slices, CompleteWrite(sc) PROVE [Channel!Next]_Channel!vars
    <3>1. sc \in w_fly /\ \A other \in w_fly : sc <= other
      BY <2>2 DEF CompleteWrite, Completes, DmaChunk
    <3>2. write_progress <= sc /\ sc < w_next
      BY <3>1 DEF RingInv, WritesInOrder
    <3>3. write_progress \in w_fly
      BY <2>N, <3>2 DEF RingInv, WritesInOrder
    <3>4. sc = write_progress
      BY <2>N, <3>1, <3>2, <3>3
    <3>5. write_progress' = write_progress + 1 /\ UNCHANGED <<w_next, reader_done>>
      BY <2>2, <2>N, <3>4 DEF CompleteWrite, AtomicMax
    <3>. QED BY <2>D, <3>2, <3>4, <3>5 DEF Channel!Next, Channel!Finish
  <2>3. ASSUME NEW r \in Readers, NEW sc \in Slices, CompleteRead(r, sc)
        PROVE  [Channel!Next]_Channel!vars
    <3>1. sc \in r_fly[r] /\ \A other \in r_fly[r] : sc <= other
      BY <2>3 DEF CompleteRead, Completes, DmaChunk
    <3>2. reader_done[r] <= sc /\ sc < r_next[r] /\ r_next[r] <= write_progress
      BY <3>1 DEF RingInv, ReadsInOrder
    <3>3. reader_done[r] \in r_fly[r]
      BY <2>N, <3>2 DEF RingInv, ReadsInOrder
    <3>4. sc = reader_done[r]
      BY <2>N, <3>1, <3>2, <3>3
    <3>5. /\ reader_done' = [reader_done EXCEPT ![r] = @ + 1]
          /\ UNCHANGED <<w_next, write_progress>>
      <4>1. AtomicMax(reader_done[r], sc + 1) = reader_done[r] + 1
        BY <2>N, <3>4 DEF AtomicMax
      <4>. QED BY <2>3, <4>1 DEF CompleteRead, writer
    <3>6. reader_done[r] < write_progress
      BY <2>N, <3>2
    <3>. QED BY <2>D, <3>5, <3>6 DEF Channel!Next, Channel!Take
  <2>4. CASE UNCHANGED <<w_next, write_progress, reader_done>>
    BY <2>4, <2>D DEF Channel!vars
  <2>5. ASSUME NEW r \in Readers,
               \/ PopZeroesReaders(r) \/ PopSetsReaders(r) \/ SubmitRead(r)
               \/ ScanReader(r) \/ EndScan(r) \/ RaiseConsume(r)
        PROVE  UNCHANGED <<w_next, write_progress, reader_done>>
    BY <2>5 DEF PopZeroesReaders, PopSetsReaders, SubmitRead, ScanReader, EndScan,
       RaiseConsume, counters, writer
  <2>6. CASE UNCHANGED vars
    BY <2>6, <2>4 DEF vars, counters, writer
  <2>. QED
    BY <2>1, <2>2, <2>3, <2>4, <2>5, <2>6 DEF Next, WriterStep, ReaderStep
<1>. QED BY <1>1, <1>2, RingInvariant, PTL DEF Spec, ImplementsChannel, Channel!Spec

=============================================================================
