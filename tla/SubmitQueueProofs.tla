------------------------- MODULE SubmitQueueProofs -------------------------
(***************************************************************************)
(* Proofs about SubmitQueue for every number of users, every queue depth   *)
(* and every number of collectives, with failures and without.             *)
(*                                                                         *)
(* The argument.  Numbers are given out, queued, served and ended in       *)
(* increasing order (InOrder), so a slot that holds a number at least as   *)
(* large as that of a waiting item can only hold the item's own: what is   *)
(* in a slot has ended, and what has ended is smaller than everything that *)
(* has not.  For the doorbells, as long as no submit has failed, the items *)
(* under way are consecutive numbers, fewer than QueueDepth apart, so each *)
(* has a slot of its own; and the doorbell of an item that has ended       *)
(* without it cannot come late, because the next item of its slot is held  *)
(* back on reset_stream_ until the earlier one has left the user stream.   *)
(***************************************************************************)
EXTENDS SubmitQueue, Integers, SequenceTheorems, WellFoundedInduction, TLAPS

-----------------------------------------------------------------------------
(* Slots, numbers and queues *)

(* Division with remainder. *)
LEMMA DivMod ==
  ASSUME NEW S \in Nat \ {0}, NEW a \in Nat
  PROVE  /\ a \div S \in Nat
         /\ a % S \in 0 .. S - 1
         /\ a = S * (a \div S) + (a % S)
OBVIOUS

(* A larger factor makes the product larger by at least S. *)
LEMMA MulStep ==
  ASSUME NEW S \in Nat \ {0}, NEW p \in Nat, NEW q \in Nat, p < q
  PROVE  S * q >= S * p + S
<1>1. PICK d \in Nat : q = p + 1 + d
  <2>1. q - p - 1 \in Nat /\ q = p + 1 + (q - p - 1)
    OBVIOUS
  <2>. QED BY <2>1
<1>2. S * q = S * p + S + S * d
  BY <1>1
<1>3. S * d >= 0
  OBVIOUS
<1>. QED BY <1>2, <1>3

(* Slices less than S apart are in different slots of a ring of S slots. *)
LEMMA SlotsDiffer ==
  ASSUME NEW S \in Nat \ {0}, NEW a \in Nat, NEW b \in Nat, b < a, a < b + S
  PROVE  a % S # b % S
<1>. DEFINE qa == a \div S
            qb == b \div S
            ra == a % S
            rb == b % S
<1>1. /\ qa \in Nat /\ ra \in Nat /\ a = S * qa + ra
      /\ qb \in Nat /\ rb \in Nat /\ b = S * qb + rb
  BY DivMod
<1>. SUFFICES ASSUME ra = rb PROVE FALSE
  OBVIOUS
<1>. HIDE DEF qa, qb, ra, rb
<1>2. S * qb \in Nat /\ S * qa \in Nat
  BY <1>1
<1>3. S * qb < S * qa /\ S * qa < S * qb + S
  BY <1>1, <1>2
<1>4. CASE qb < qa
  BY <1>4, <1>1, <1>2, <1>3, MulStep
<1>5. CASE qa < qb
  <2>1. S * qb >= S * qa + S
    BY <1>5, <1>1, MulStep
  <2>. QED BY <2>1, <1>1, <1>2, <1>3
<1>6. CASE qa = qb
  BY <1>6, <1>2, <1>3
<1>. QED BY <1>1, <1>4, <1>5, <1>6

(* A set of naturals has a least element (Min: advanceReaderDone and the   *)
(* graph's inputs take the smallest counter).                              *)
LEMMA LeastNumber ==
  ASSUME NEW T, T \subseteq Nat, T # {}
  PROVE  Min(T) \in T /\ \A y \in T : Min(T) <= y
<1>1. PICK x \in T : \A y \in T : ~ (<<y, x>> \in OpToRel(<, Nat))
  BY WFMin, NatLessThanWellFounded, Zenon
<1>2. \A y \in T : x <= y
  <2>. TAKE y \in T
  <2>1. <<y, x>> \in Nat \X Nat
    OBVIOUS
  <2>2. ~ (y < x)
    BY <1>1, <2>1 DEF OpToRel
  <2>. QED BY <2>2
<1>. QED BY <1>2 DEF Min

(* A bounded set of naturals has a largest element (Max: what              *)
(* finishCurrentWork leaves in a slot that it signals more than once).     *)
LEMMA LargestNumber ==
  ASSUME NEW T, T \subseteq Nat, T # {}, NEW b \in Nat, \A x \in T : x <= b
  PROVE  Max(T) \in T /\ \A y \in T : Max(T) >= y
<1>. DEFINE D == {b - x : x \in T}
<1>1. \A x \in T : b - x \in Nat
  OBVIOUS
<1>2. D \subseteq Nat /\ D # {}
  BY <1>1
<1>3. Min(D) \in D /\ \A e \in D : Min(D) <= e
  <2>. HIDE DEF D
  <2>. QED BY <1>2, LeastNumber
<1>4. PICK x \in T : Min(D) = b - x
  BY <1>3
<1>5. \A y \in T : x >= y
  <2>. TAKE y \in T
  <2>1. b - x <= b - y
    BY <1>3, <1>4
  <2>. QED BY <2>1
<1>. QED BY <1>5 DEF Max

(* What Append makes of a sequence. *)
LEMMA Pushed ==
  ASSUME NEW S, NEW s \in Seq(S), NEW e \in S
  PROVE  /\ Append(s, e) \in Seq(S)
         /\ Len(s) \in Nat /\ Len(Append(s, e)) = Len(s) + 1
         /\ \A i \in 1 .. Len(s) : Append(s, e)[i] = s[i] /\ s[i] \in S
         /\ Append(s, e)[Len(s) + 1] = e
OBVIOUS

(* What Tail leaves of a sequence. *)
LEMMA Popped ==
  ASSUME NEW S, NEW s \in Seq(S), s # <<>>
  PROVE  /\ Tail(s) \in Seq(S)
         /\ Len(s) \in Nat \ {0} /\ Len(Tail(s)) = Len(s) - 1
         /\ \A i \in 1 .. Len(s) - 1 : Tail(s)[i] = s[i + 1] /\ i + 1 \in 1 .. Len(s)
         /\ Head(s) = s[1] /\ Head(s) \in S
OBVIOUS

(* A sequence with the first n operations of a pair behind it. *)
LEMMA PairBehind ==
  ASSUME NEW S, NEW s \in Seq(S), NEW a \in S, NEW b \in S, NEW n \in 0 .. 2
  PROVE  LET t == s \o SubSeq(<<a, b>>, 1, n)
         IN  /\ t \in Seq(S)
             /\ Len(s) \in Nat /\ Len(t) = Len(s) + n
             /\ \A i \in 1 .. Len(s) : t[i] = s[i]
             /\ \A i \in 1 .. n : t[Len(s) + i] = <<a, b>>[i]
<1>. DEFINE ops == <<a, b>>
            t == s \o SubSeq(ops, 1, n)
<1>1. ops \in Seq(S) /\ Len(ops) = 2
  OBVIOUS
<1>. HIDE DEF ops
<1>2. /\ SubSeq(ops, 1, n) \in Seq(S)
      /\ Len(SubSeq(ops, 1, n)) = n
      /\ \A i \in 1 .. n : SubSeq(ops, 1, n)[i] = ops[i]
  BY <1>1, SubSeqProperties, SMTT(30)
<1>3. /\ t \in Seq(S)
      /\ Len(t) = Len(s) + n
      /\ \A i \in 1 .. Len(s) + n :
            t[i] = IF i <= Len(s) THEN s[i] ELSE SubSeq(ops, 1, n)[i - Len(s)]
  BY <1>2, ConcatProperties
<1>4. Len(s) \in Nat
  OBVIOUS
<1>5. \A i \in 1 .. n : t[Len(s) + i] = ops[i]
  <2>. TAKE i \in 1 .. n
  <2>1. Len(s) + i \in 1 .. Len(s) + n /\ ~ (Len(s) + i <= Len(s)) /\ (Len(s) + i) - Len(s) = i
    BY <1>4
  <2>. QED BY <2>1, <1>2, <1>3
<1>6. \A i \in 1 .. Len(s) : t[i] = s[i]
  BY <1>3, <1>4
<1>. QED BY <1>3, <1>4, <1>5, <1>6 DEF ops

-----------------------------------------------------------------------------

(* The executor has taken an item and is not done with it. *)
Serving == exec_pc \in {"doorbell", "run", "barrier"}

(* The items in the queue. *)
Queued == {queue[i] : i \in 1 .. Len(queue)}

(* A submit call holds a number that it has not pushed yet. *)
Submitting == sub_pc # "idle"

(* The number was given to a call of submit that has returned. *)
Settled(seq) == IF Submitting THEN seq < work_seq_counter ELSE seq <= work_seq_counter

(* The number's doorbell and wait may be on a user stream. *)
Enqueued(seq) == IF sub_pc = "admitted" THEN seq < work_seq_counter ELSE seq <= work_seq_counter

BurnedSeqs == {b.seq : b \in burned}

(* What the variables hold, beyond TypeOK. *)
Shapes ==
  /\ reset_stream \in Seq([seq : Works, after : 0 .. MaxWork])
  /\ streams \in [Users -> Seq([op : {"ring", "wait"}, seq : Works])]
  /\ slot_user \in [Slots -> 0 .. MaxWork]
  /\ reset_done \subseteq Works /\ rung \subseteq Works /\ passed \subseteq Works
  /\ returned \subseteq Works /\ ended \subseteq Works
  /\ burned \subseteq [seq : Works, parked : BOOLEAN]
  /\ Submitting => submitter \in Users /\ work_seq_counter \in Works
  /\ Serving => current \in Works
  /\ busy <=> Serving \/ exec_pc = "signalled"

(* Every item that counts against queue_depth_, and the one to be pushed,  *)
(* has a place.                                                            *)
PlaceForAll == Occupied + (IF Submitting THEN 1 ELSE 0) <= QueueDepth

(* Numbers are queued, served and ended in increasing order, and only      *)
(* numbers of calls that have returned are.                                *)
InOrder ==
  /\ \A i, j \in 1 .. Len(queue) : i < j => queue[i] < queue[j]
  /\ Serving => \A i \in 1 .. Len(queue) : current < queue[i]
  /\ Serving => Settled(current)
  /\ \A i \in 1 .. Len(queue) : Settled(queue[i])
  /\ \A e \in ended : /\ Settled(e)
                      /\ Serving => e < current
                      /\ \A i \in 1 .. Len(queue) : e < queue[i]
  /\ \A seq \in returned : Settled(seq)
  /\ \A b \in burned : Settled(b.seq)

(* A successful submit's item has ended, is queued or is being served; a   *)
(* slot holds a number that has ended; a wait on a user stream is that of  *)
(* a call that has returned or is about to push.                           *)
Accounted ==
  /\ \A seq \in returned : seq \in ended \/ seq \in Queued \/ (Serving /\ seq = current)
  /\ \A s \in Slots : complete_seq[s] \in ended \cup {0}
  /\ BurnedSeqs \cap returned = {}
  /\ \A u \in Users : \A i \in 1 .. Len(streams[u]) :
        streams[u][i].op = "wait" =>
          \/ streams[u][i].seq \in returned \cup BurnedSeqs
          \/ sub_pc = "prepared" /\ streams[u][i].seq = work_seq_counter
  /\ passed \subseteq ended \cup BurnedSeqs

(* What waitForIdle waits for. *)
Drained ==
  /\ drainer = "waiting"  => drain_goal \subseteq returned
  /\ drainer = "returned" => drain_goal \subseteq ended

QueueInv == TypeOK /\ Shapes /\ PlaceForAll /\ InOrder /\ Accounted /\ Drained

(* The last number whose item has ended, while no submit has failed. *)
LastEnded ==
  work_seq_counter - (IF Submitting THEN 1 ELSE 0) - Len(queue) - (IF Serving THEN 1 ELSE 0)

(* Without failed calls the items under way are consecutive numbers. *)
Dense ==
  /\ LastEnded >= 0
  /\ \A seq \in Works : seq \in ended <=> seq <= LastEnded
  /\ Serving => current = LastEnded + 1
  /\ \A i \in 1 .. Len(queue) : queue[i] = LastEnded + (IF Serving THEN 1 ELSE 0) + i

(* On a user stream an item's doorbell is in front of its wait; a doorbell *)
(* that has not been rung is that of an item no stream has got behind.     *)
BellThenWait ==
  /\ rung \subseteq reset_done
  /\ \A seq \in rung : Enqueued(seq)
  /\ \A u \in Users : \A i \in 1 .. Len(streams[u]) : Enqueued(streams[u][i].seq)
  /\ \A u, v \in Users : \A i \in 1 .. Len(streams[u]), j \in 1 .. Len(streams[v]) :
        streams[u][i].op = "wait" /\ streams[v][j].op = "ring"
          /\ streams[u][i].seq = streams[v][j].seq => u = v /\ j < i
  /\ \A u \in Users : \A i \in 1 .. Len(streams[u]) :
        streams[u][i].op = "wait" =>
          \/ streams[u][i].seq \in rung
          \/ \E j \in 1 .. Len(streams[u]) :
                streams[u][j].op = "ring" /\ streams[u][j].seq = streams[u][i].seq
  /\ \A u \in Users : \A i \in 1 .. Len(streams[u]) :
        streams[u][i].op = "ring" => streams[u][i].seq \notin passed

(* reset_stream_ holds the next item of a slot back until the earlier ones *)
(* have left their streams: slot_user is the last item of its slot, and an *)
(* entry of reset_stream_ names the one before its own.                    *)
SlotChain ==
  /\ \A s \in Slots : /\ slot_user[s] # 0 => Slot(slot_user[s]) = s
                      /\ \A x \in Works : Slot(x) = s /\ Enqueued(x) => x <= slot_user[s]
  /\ \A i \in 1 .. Len(reset_stream) :
        /\ reset_stream[i].after # 0 => Slot(reset_stream[i].after) = Slot(reset_stream[i].seq)
        /\ \A x \in Works : Slot(x) = Slot(reset_stream[i].seq) /\ x < reset_stream[i].seq
                               => x <= reset_stream[i].after
  /\ \A y \in reset_done \cup passed : \A x \in Works : Slot(x) = Slot(y) /\ x < y => x \in passed

DoorbellInv == burned = {} => Dense /\ BellThenWait /\ SlotChain /\ DoorbellKept

IInv == QueueInv /\ DoorbellInv
-----------------------------------------------------------------------------
(* Effects of the operations on the streams *)

UserOp == [op : {"ring", "wait"}, seq : Works]
ResetOp == [seq : Works, after : 0 .. MaxWork]

(* Every number has a completion slot. *)
LEMMA SlotOfWork == \A seq \in Works : seq \in Nat \ {0} /\ Slot(seq) \in Slots
<1>. SUFFICES ASSUME NEW seq \in Works PROVE seq \in Nat \ {0} /\ Slot(seq) \in Slots
  OBVIOUS
<1>1. seq \in Nat \ {0} /\ QueueDepth \in Nat \ {0}
  BY SubmitAssumption DEF Works
<1>2. (seq - 1) % QueueDepth \in 0 .. QueueDepth - 1
  BY <1>1
<1>. QED BY <1>1, <1>2 DEF Slot, Slots

(* prepareUserWait clears the doorbell, adds one entry to reset_stream_    *)
(* and n operations to the caller's stream, behind what is there.          *)
LEMMA EnqueueEffect ==
  ASSUME TypeOK, Shapes, Submitting, NEW n \in 0 .. 2, Enqueue(n)
  PROVE  LET this == work_seq_counter
         IN  /\ ready_seq' = [ready_seq EXCEPT ![Slot(this)] = 0]
             /\ ready_seq' \in [Slots -> 0 .. MaxWork]
             /\ reset_stream' \in Seq(ResetOp)
             /\ \A i \in 1 .. Len(reset_stream') :
                   \/ i \in 1 .. Len(reset_stream) /\ reset_stream'[i] = reset_stream[i]
                   \/ reset_stream'[i] = [seq |-> this, after |-> slot_user[Slot(this)]]
             /\ streams' \in [Users -> Seq(UserOp)]
             /\ \A u \in Users : \A i \in 1 .. Len(streams[u]) :
                   i \in 1 .. Len(streams'[u]) /\ streams'[u][i] = streams[u][i]
             /\ \A u \in Users : \A i \in 1 .. Len(streams'[u]) :
                   \/ i \in 1 .. Len(streams[u])
                   \/ /\ u = submitter /\ i = Len(streams[u]) + 1
                      /\ streams'[u][i] = [op |-> "ring", seq |-> this]
                   \/ /\ u = submitter /\ i = Len(streams[u]) + 2 /\ n = 2
                      /\ streams'[u][i] = [op |-> "wait", seq |-> this]
                      /\ i - 1 \in 1 .. Len(streams'[u])
                      /\ streams'[u][i - 1] = [op |-> "ring", seq |-> this]
<1>. DEFINE this == work_seq_counter
            ring == [op |-> "ring", seq |-> this]
            wait == [op |-> "wait", seq |-> this]
            reset == [seq |-> this, after |-> slot_user[Slot(this)]]
            old == streams[submitter]
            new == old \o SubSeq(<<ring, wait>>, 1, n)
<1>1. this \in Works /\ submitter \in Users /\ Slot(this) \in Slots
  BY SlotOfWork DEF Shapes
<1>2. ready_seq' = [ready_seq EXCEPT ![Slot(this)] = 0] /\ ready_seq' \in [Slots -> 0 .. MaxWork]
  BY <1>1, SubmitAssumption DEF Enqueue, TypeOK
<1>3. reset \in ResetOp /\ reset_stream \in Seq(ResetOp) /\ reset_stream' = Append(reset_stream, reset)
  BY <1>1 DEF Enqueue, Shapes, ResetOp
<1>4. /\ reset_stream' \in Seq(ResetOp)
      /\ \A i \in 1 .. Len(reset_stream') :
            \/ i \in 1 .. Len(reset_stream) /\ reset_stream'[i] = reset_stream[i]
            \/ reset_stream'[i] = reset
  <2>. HIDE DEF reset
  <2>. QED BY <1>3, Pushed
<1>5. ring \in UserOp /\ wait \in UserOp /\ old \in Seq(UserOp)
  BY <1>1 DEF Shapes, UserOp
<1>6. /\ new \in Seq(UserOp)
      /\ Len(old) \in Nat /\ Len(new) = Len(old) + n
      /\ \A i \in 1 .. Len(old) : new[i] = old[i]
      /\ \A i \in 1 .. n : new[Len(old) + i] = <<ring, wait>>[i]
  <2>. HIDE DEF ring, wait, old
  <2>. QED BY <1>5, PairBehind
<1>7. streams' = [streams EXCEPT ![submitter] = new]
  BY DEF Enqueue, UserOps
<1>8. streams \in [Users -> Seq(UserOp)]
  BY DEF Shapes, UserOp
<1>9. <<ring, wait>>[1] = ring /\ <<ring, wait>>[2] = wait
  OBVIOUS
<1>. HIDE DEF this, ring, wait, reset, new
<1>10. /\ streams' \in [Users -> Seq(UserOp)]
       /\ \A u \in Users \ {submitter} : streams'[u] = streams[u]
       /\ streams'[submitter] = new
  BY <1>1, <1>6, <1>7, <1>8
<1>11. \A i \in 1 .. Len(new) :
          \/ i \in 1 .. Len(old)
          \/ i = Len(old) + 1 /\ new[i] = ring
          \/ /\ i = Len(old) + 2 /\ n = 2 /\ new[i] = wait
             /\ i - 1 \in 1 .. Len(new) /\ new[i - 1] = ring
  <2>. TAKE i \in 1 .. Len(new)
  <2>1. CASE i <= Len(old)
    BY <2>1, <1>6
  <2>2. CASE i = Len(old) + 1
    <3>1. 1 \in 1 .. n
      BY <2>2, <1>6
    <3>. QED BY <3>1, <2>2, <1>6, <1>9
  <2>3. CASE i > Len(old) + 1
    <3>1. n = 2 /\ i = Len(old) + 2
      BY <2>3, <1>6
    <3>2. 1 \in 1 .. n /\ 2 \in 1 .. n
      BY <3>1
    <3>3. new[Len(old) + 1] = ring /\ new[Len(old) + 2] = wait
      BY <3>2, <1>6, <1>9
    <3>4. i - 1 = Len(old) + 1 /\ i - 1 \in 1 .. Len(new)
      BY <3>1, <1>6
    <3>. QED BY <3>1, <3>3, <3>4
  <2>. QED BY <2>1, <2>2, <2>3, <1>6
<1>12. ASSUME NEW u \in Users, NEW i \in 1 .. Len(streams[u])
       PROVE  i \in 1 .. Len(streams'[u]) /\ streams'[u][i] = streams[u][i]
  <2>1. CASE u = submitter
    BY <2>1, <1>6, <1>10
  <2>2. CASE u # submitter
    BY <2>2, <1>10
  <2>. QED BY <2>1, <2>2
<1>13. ASSUME NEW u \in Users, NEW i \in 1 .. Len(streams'[u]), i \notin 1 .. Len(streams[u])
       PROVE  \/ /\ u = submitter /\ i = Len(streams[u]) + 1
                 /\ streams'[u][i] = ring
              \/ /\ u = submitter /\ i = Len(streams[u]) + 2 /\ n = 2
                 /\ streams'[u][i] = wait
                 /\ i - 1 \in 1 .. Len(streams'[u])
                 /\ streams'[u][i - 1] = ring
  <2>1. u = submitter
    BY <1>10, <1>13
  <2>. QED BY <2>1, <1>10, <1>11, <1>13
<1>. QED BY <1>2, <1>4, <1>10, <1>12, <1>13 DEF this, ring, wait, reset

(* A stream that executes its first operation has the others left. *)
LEMMA StreamPopEffect ==
  ASSUME Shapes, NEW u \in Users, streams[u] # <<>>,
         streams' = [streams EXCEPT ![u] = Tail(@)]
  PROVE  /\ streams' \in [Users -> Seq(UserOp)]
         /\ 1 \in 1 .. Len(streams[u]) /\ Head(streams[u]) = streams[u][1]
         /\ streams[u][1] \in UserOp
         /\ \A v \in Users \ {u} : streams'[v] = streams[v]
         /\ Len(streams[u]) \in Nat /\ Len(streams'[u]) = Len(streams[u]) - 1
         /\ \A i \in 1 .. Len(streams'[u]) :
               i + 1 \in 1 .. Len(streams[u]) /\ streams'[u][i] = streams[u][i + 1]
<1>1. streams \in [Users -> Seq(UserOp)] /\ streams[u] \in Seq(UserOp)
  BY DEF Shapes, UserOp
<1>2. streams'[u] = Tail(streams[u]) /\ \A v \in Users \ {u} : streams'[v] = streams[v]
  BY <1>1
<1>3. /\ Tail(streams[u]) \in Seq(UserOp)
      /\ Len(streams[u]) \in Nat \ {0} /\ Len(Tail(streams[u])) = Len(streams[u]) - 1
      /\ \A i \in 1 .. Len(streams[u]) - 1 :
            Tail(streams[u])[i] = streams[u][i + 1] /\ i + 1 \in 1 .. Len(streams[u])
      /\ Head(streams[u]) = streams[u][1] /\ Head(streams[u]) \in UserOp
  BY <1>1, Popped
<1>4. streams' \in [Users -> Seq(UserOp)]
  BY <1>1, <1>3
<1>. QED BY <1>2, <1>3, <1>4

-----------------------------------------------------------------------------
(* The queue *)

(* The numbers of items are numbers. *)
LEMMA Numbers ==
  ASSUME QueueInv
  PROVE  /\ Works \subseteq Nat
         /\ Len(queue) \in Nat /\ \A i \in 1 .. Len(queue) : queue[i] \in Works
         /\ ended \subseteq Works /\ returned \subseteq Works
         /\ Serving => current \in Works
         /\ Submitting => work_seq_counter \in Works
<1>1. Works \subseteq Nat
  BY SubmitAssumption DEF Works
<1>2. Len(queue) \in Nat /\ \A i \in 1 .. Len(queue) : queue[i] \in Works
  BY DEF QueueInv, TypeOK
<1>3. /\ ended \subseteq Works /\ returned \subseteq Works
      /\ Serving => current \in Works
      /\ Submitting => work_seq_counter \in Works
  BY DEF QueueInv, Shapes
<1>. QED BY <1>1, <1>2, <1>3

(* Before the first submit nothing is queued, served or ended. *)
LEMMA QueueInit == Init => QueueInv
<1>. SUFFICES ASSUME Init PROVE QueueInv
  OBVIOUS
<1>1. TypeOK
  BY SubmitAssumption DEF Init, TypeOK, Slots
<1>2. Shapes
  BY SubmitAssumption DEF Init, Shapes, Slots, Submitting, Serving
<1>3. PlaceForAll /\ InOrder /\ Drained
  BY SubmitAssumption DEF Init, PlaceForAll, Occupied, Submitting, Serving, InOrder, Drained
<1>4. Accounted
  BY <1>2 DEF Init, Accounted, BurnedSeqs
<1>. QED BY <1>1, <1>2, <1>3, <1>4 DEF QueueInv

(* The actions that leave the queue, the numbers and the user streams      *)
(* alone.                                                                  *)
LEMMA QueueStepOthers ==
  ASSUME QueueInv,
         \/ AdmitTimesOut \/ SeeDoorbell \/ GraphDone \/ ThreadExit \/ FinishWork
         \/ DrainCall \/ DrainReturn \/ DrainTimesOut \/ Stop \/ ResetStreamStep
         \/ UNCHANGED vars
  PROVE  QueueInv'
<1>. USE DEF vars, submit_vars, stream_vars, drain_vars
<1>. USE DEF AdmitTimesOut, SeeDoorbell, GraphDone, ThreadExit, FinishWork, DrainCall, DrainReturn,
             DrainTimesOut, Stop, ResetStreamStep
<1>1. UNCHANGED <<submit_vars, queue, current, complete_seq, ready_seq, streams, slot_user, rung,
                  passed, ended>>
  OBVIOUS
<1>2. Serving' = Serving /\ (busy' => busy)
  BY DEF Serving
<1>3. TypeOK'
  <2>1. /\ UNCHANGED <<submitter, sub_pc, work_seq_counter, queue, current, ready_seq, complete_seq>>
        /\ busy' \in {busy, FALSE} /\ stop' \in {stop, TRUE}
        /\ last_result' \in {last_result, "Success", "Failure"}
        /\ exec_pc' \in {exec_pc, "idle", "run", "barrier", "exited"}
        /\ drainer' \in {drainer, "waiting", "returned", "timed_out"}
    OBVIOUS
  <2>. HIDE DEF AdmitTimesOut, SeeDoorbell, GraphDone, ThreadExit, FinishWork, DrainCall, DrainReturn,
                DrainTimesOut, Stop, ResetStreamStep
  <2>2. busy' \in BOOLEAN /\ stop' \in BOOLEAN
    BY <2>1, Zenon DEF QueueInv, TypeOK
  <2>3. /\ submitter' \in Users \cup {NoUser}
        /\ sub_pc' \in {"idle", "admitted", "prepared"}
        /\ work_seq_counter' \in 0 .. MaxWork
        /\ queue' \in Seq(Works) /\ Len(queue') <= QueueDepth
        /\ current' \in 0 .. MaxWork
        /\ ready_seq' \in [Slots -> 0 .. MaxWork]
        /\ complete_seq' \in [Slots -> 0 .. MaxWork]
    BY <2>1, Zenon DEF QueueInv, TypeOK
  <2>4. /\ last_result' \in {"Success", "Failure"}
        /\ exec_pc' \in {"idle", "doorbell", "run", "barrier", "signalled", "exited"}
        /\ drainer' \in {"out", "waiting", "returned", "timed_out"}
    BY <2>1, Zenon DEF QueueInv, TypeOK
  <2>. QED BY <2>2, <2>3, <2>4, Zenon DEF TypeOK
<1>4. Shapes'
  <2>1. /\ reset_stream' \in Seq([seq : Works, after : 0 .. MaxWork])
        /\ reset_done' \subseteq Works
    <3>1. CASE ResetStreamStep
      <4>1. reset_stream \in Seq(ResetOp) /\ reset_done \subseteq Works
        BY DEF QueueInv, Shapes, ResetOp
      <4>2. Tail(reset_stream) \in Seq(ResetOp) /\ Head(reset_stream) \in ResetOp
        BY <3>1, <4>1, Popped
      <4>. QED BY <3>1, <4>1, <4>2 DEF ResetOp
    <3>2. CASE ~ ResetStreamStep
      <4>1. UNCHANGED <<reset_stream, reset_done>>
        BY <3>2
      <4>. QED BY <4>1 DEF QueueInv, Shapes
    <3>. QED BY <3>1, <3>2
  <2>2. busy' <=> Serving' \/ exec_pc' = "signalled"
    BY <1>2 DEF QueueInv, Shapes, Serving, TypeOK
  <2>3. UNCHANGED <<submitter, work_seq_counter, returned, burned, Submitting>>
    BY <1>1 DEF Submitting
  <2>. HIDE DEF AdmitTimesOut, SeeDoorbell, GraphDone, ThreadExit, FinishWork, DrainCall, DrainReturn,
                DrainTimesOut, Stop, ResetStreamStep
  <2>4. /\ streams' = streams /\ slot_user' = slot_user /\ rung' = rung /\ passed' = passed
        /\ returned' = returned /\ ended' = ended /\ burned' = burned /\ current' = current
        /\ submitter' = submitter /\ work_seq_counter' = work_seq_counter
    BY <1>1
  <2>5. Serving' => current' \in Works
    BY <1>2, <2>4 DEF QueueInv, Shapes
  <2>6. Submitting' => submitter' \in Users /\ work_seq_counter' \in Works
    BY <2>3 DEF QueueInv, Shapes
  <2>7. /\ streams \in [Users -> Seq([op : {"ring", "wait"}, seq : Works])]
        /\ slot_user \in [Slots -> 0 .. MaxWork]
        /\ rung \subseteq Works /\ passed \subseteq Works
        /\ returned \subseteq Works /\ ended \subseteq Works
        /\ burned \subseteq [seq : Works, parked : BOOLEAN]
    BY DEF QueueInv, Shapes
  <2>. QED BY <2>1, <2>2, <2>4, <2>5, <2>6, <2>7, Zenon DEF Shapes
<1>5. PlaceForAll'
  <2>. DEFINE b == IF busy THEN 1 ELSE 0
              c == IF Submitting THEN 1 ELSE 0
  <2>1. Len(queue) \in Nat /\ queue' = queue /\ c' = c
    BY <1>1 DEF QueueInv, TypeOK, Submitting
  <2>2. b' <= b /\ b \in Nat /\ b' \in Nat /\ c \in Nat
    BY <1>2
  <2>3. b + Len(queue) + c <= QueueDepth
    BY DEF QueueInv, PlaceForAll, Occupied
  <2>4. b' + Len(queue') + c' <= QueueDepth
    <3>. HIDE DEF b, c
    <3>. QED BY <2>1, <2>2, <2>3, SubmitAssumption
  <2>. QED BY <2>4 DEF PlaceForAll, Occupied
<1>6. InOrder'
  BY <1>1, <1>2 DEF QueueInv, InOrder, Settled, Submitting
<1>7. Accounted'
  BY <1>1, <1>2 DEF QueueInv, Accounted, Queued, BurnedSeqs
<1>8. Drained'
  <2>1. CASE DrainReturn
    <3>1. returned \subseteq ended
      BY <2>1 DEF QueueInv, Accounted, Queued, Shapes
    <3>. QED BY <2>1, <3>1 DEF QueueInv, Drained
  <2>2. CASE DrainCall
    BY <2>2 DEF QueueInv, Drained
  <2>3. CASE DrainTimesOut
    BY <2>3 DEF QueueInv, Drained
  <2>4. CASE UNCHANGED drain_vars
    BY <1>1, <2>4 DEF QueueInv, Drained
  <2>. QED BY <2>1, <2>2, <2>3, <2>4
<1>. QED BY <1>3, <1>4, <1>5, <1>6, <1>7, <1>8 DEF QueueInv

(* Admit gives out a number; the one before it has settled. *)
LEMMA QueueStepAdmit ==
  ASSUME QueueInv, NEW u \in Users, Admit(u)
  PROVE  QueueInv'
<1>1. /\ UNCHANGED <<queue, busy, last_result, stop, exec_pc, current, ready_seq, complete_seq, reset_stream,
                     streams, slot_user, reset_done, rung, passed, returned, burned, ended,
                     drainer, drain_goal>>
      /\ ~ Submitting /\ Submitting' /\ sub_pc' = "admitted" /\ submitter' = u
      /\ work_seq_counter' = work_seq_counter + 1 /\ work_seq_counter' \in Works
      /\ Serving' = Serving /\ work_seq_counter \in Nat
  BY SubmitAssumption
     DEF QueueInv, TypeOK, Admit, stream_vars, drain_vars, Submitting, Serving, Works
<1>2. TypeOK'
  BY <1>1, SubmitAssumption DEF QueueInv, TypeOK, Works
<1>3. Shapes'
  BY <1>1 DEF QueueInv, Shapes
<1>4. PlaceForAll'
  <2>1. Occupied' = Occupied /\ Occupied < QueueDepth /\ Occupied \in Nat
    BY <1>1 DEF QueueInv, TypeOK, Admit, Occupied
  <2>. QED BY <1>1, <2>1, SubmitAssumption DEF PlaceForAll
<1>5. \A seq \in Works : Settled(seq)' <=> Settled(seq)
  BY <1>1 DEF Settled, Works
<1>6. InOrder'
  <2>1. \A i \in 1 .. Len(queue) : queue[i] \in Works
    BY DEF QueueInv, TypeOK
  <2>2. (Serving => current \in Works) /\ ended \subseteq Works /\ returned \subseteq Works
        /\ \A b \in burned : b.seq \in Works
    BY DEF QueueInv, Shapes
  <2>. QED BY <1>1, <1>5, <2>1, <2>2 DEF QueueInv, InOrder, Settled
<1>7. Accounted' /\ Drained'
  BY <1>1 DEF QueueInv, Accounted, Queued, BurnedSeqs, Drained, Submitting
<1>. QED BY <1>2, <1>3, <1>4, <1>6, <1>7 DEF QueueInv

(* prepareUserWait puts the number's operations on the caller's stream. *)
LEMMA QueueStepPrepare ==
  ASSUME QueueInv, PrepareUserWait
  PROVE  QueueInv'
<1>1. /\ UNCHANGED <<queue, busy, last_result, stop, exec_pc, current, complete_seq, submitter,
                     work_seq_counter, reset_done, rung, passed, returned, burned, ended,
                     drainer, drain_goal>>
      /\ Submitting /\ Submitting' /\ sub_pc = "admitted" /\ sub_pc' = "prepared"
      /\ Serving' = Serving /\ Enqueue(2)
      /\ slot_user' = [slot_user EXCEPT ![Slot(work_seq_counter)] = work_seq_counter]
      /\ work_seq_counter \in Works
  BY DEF QueueInv, Shapes, PrepareUserWait, drain_vars, Submitting, Serving
<1>2. /\ ready_seq' \in [Slots -> 0 .. MaxWork]
      /\ reset_stream' \in Seq(ResetOp)
      /\ streams' \in [Users -> Seq(UserOp)]
      /\ \A u \in Users : \A i \in 1 .. Len(streams[u]) :
            i \in 1 .. Len(streams'[u]) /\ streams'[u][i] = streams[u][i]
      /\ \A u \in Users : \A i \in 1 .. Len(streams'[u]) :
            i \in 1 .. Len(streams[u]) \/ streams'[u][i].seq = work_seq_counter
  BY <1>1, EnqueueEffect DEF QueueInv
<1>3. TypeOK'
  BY <1>1, <1>2 DEF QueueInv, TypeOK
<1>4. Shapes'
  <2>1. slot_user \in [Slots -> 0 .. MaxWork] /\ work_seq_counter \in 0 .. MaxWork
    BY DEF QueueInv, Shapes, TypeOK
  <2>2. slot_user' \in [Slots -> 0 .. MaxWork]
    BY <1>1, <2>1
  <2>. QED BY <1>1, <1>2, <2>2 DEF QueueInv, Shapes, ResetOp, UserOp
<1>5. PlaceForAll'
  BY <1>1 DEF QueueInv, PlaceForAll, Occupied
<1>6. InOrder'
  BY <1>1 DEF QueueInv, InOrder, Settled
<1>7. Accounted'
  BY <1>1, <1>2 DEF QueueInv, Accounted, Queued, BurnedSeqs
<1>8. Drained'
  BY <1>1 DEF QueueInv, Drained
<1>. QED BY <1>3, <1>4, <1>5, <1>6, <1>7, <1>8 DEF QueueInv

(* A submit that fails gives its number up. *)
LEMMA QueueStepPrepareFails ==
  ASSUME QueueInv, PrepareFails
  PROVE  QueueInv'
<1>. DEFINE this == work_seq_counter
<1>1. /\ UNCHANGED <<queue, busy, last_result, stop, exec_pc, current, complete_seq, slot_user,
                     work_seq_counter, reset_done, rung, passed, returned, ended, drainer, drain_goal>>
      /\ Submitting /\ ~ Submitting' /\ sub_pc = "admitted" /\ sub_pc' = "idle"
      /\ submitter' = NoUser /\ Serving' = Serving /\ this \in Works
  BY DEF QueueInv, Shapes, PrepareFails, drain_vars, Submitting, Serving
<1>2. PICK parked \in BOOLEAN : burned' = burned \cup {[seq |-> this, parked |-> parked]}
  BY DEF PrepareFails
<1>3. /\ ready_seq' \in [Slots -> 0 .. MaxWork]
      /\ reset_stream' \in Seq(ResetOp)
      /\ streams' \in [Users -> Seq(UserOp)]
      /\ \A u \in Users : \A i \in 1 .. Len(streams[u]) :
            i \in 1 .. Len(streams'[u]) /\ streams'[u][i] = streams[u][i]
      /\ \A u \in Users : \A i \in 1 .. Len(streams'[u]) :
            i \in 1 .. Len(streams[u]) \/ streams'[u][i].seq = this
  <2>1. CASE UNCHANGED <<ready_seq, reset_stream, streams>>
    BY <2>1 DEF QueueInv, TypeOK, Shapes, ResetOp, UserOp
  <2>2. ASSUME NEW n \in 0 .. 2, Enqueue(n) PROVE <1>3!:
    BY <1>1, <2>2, EnqueueEffect DEF QueueInv
  <2>. QED BY <2>1, <2>2 DEF PrepareFails
<1>4. TypeOK'
  BY <1>1, <1>3 DEF QueueInv, TypeOK
<1>5. Shapes'
  <2>1. burned \subseteq [seq : Works, parked : BOOLEAN]
    BY DEF QueueInv, Shapes
  <2>2. [seq |-> this, parked |-> parked] \in [seq : Works, parked : BOOLEAN]
    BY <1>1, Zenon
  <2>3. burned' \subseteq [seq : Works, parked : BOOLEAN]
    <3>. HIDE DEF this
    <3>. QED BY <1>2, <2>1, <2>2, Zenon
  <2>. QED BY <1>1, <1>3, <2>3 DEF QueueInv, Shapes, ResetOp, UserOp
<1>6. PlaceForAll'
  <2>1. Occupied \in Nat /\ Occupied' = Occupied
    BY <1>1 DEF QueueInv, TypeOK, Occupied
  <2>. QED BY <1>1, <2>1, SubmitAssumption DEF QueueInv, PlaceForAll
<1>7. \A seq \in Works : Settled(seq) => Settled(seq)'
  BY <1>1 DEF Settled, Works
<1>8. InOrder'
  <2>1. \A i \in 1 .. Len(queue) : queue[i] \in Works
    BY DEF QueueInv, TypeOK
  <2>2. (Serving => current \in Works) /\ ended \subseteq Works /\ returned \subseteq Works
        /\ \A b \in burned : b.seq \in Works
    BY DEF QueueInv, Shapes
  <2>3. Settled(this)' /\ \A b \in burned' : b \in burned \/ b.seq = this
    BY <1>1, <1>2 DEF Settled, Works
  <2>. QED BY <1>1, <1>7, <2>1, <2>2, <2>3 DEF QueueInv, InOrder, Settled
<1>9. Accounted'
  <2>1. BurnedSeqs' = BurnedSeqs \cup {this}
    <3>. DEFINE lost == [seq |-> this, parked |-> parked]
    <3>1. lost.seq = this
      OBVIOUS
    <3>2. \A x : x \in BurnedSeqs' <=> \E b \in burned' : x = b.seq
      BY DEF BurnedSeqs
    <3>3. \A x : x \in BurnedSeqs <=> \E b \in burned : x = b.seq
      BY DEF BurnedSeqs
    <3>. HIDE DEF lost, this
    <3>4. burned' = burned \cup {lost}
      BY <1>2 DEF lost
    <3>. QED BY <3>1, <3>2, <3>3, <3>4, Zenon
  <2>2. this \notin returned
    BY <1>1 DEF QueueInv, InOrder, Settled, Works
  <2>. QED BY <1>1, <1>3, <2>1, <2>2 DEF QueueInv, Accounted, Queued
<1>10. Drained'
  BY <1>1 DEF QueueInv, Drained
<1>. QED BY <1>4, <1>5, <1>6, <1>8, <1>9, <1>10 DEF QueueInv

(* Push puts the number behind those that are smaller. *)
LEMMA QueueStepPush ==
  ASSUME QueueInv, Push
  PROVE  QueueInv'
<1>. DEFINE this == work_seq_counter
<1>1. /\ UNCHANGED <<busy, last_result, stop, exec_pc, current, complete_seq, slot_user, ready_seq,
                     reset_stream, streams, work_seq_counter, reset_done, rung, passed, burned, ended,
                     drainer, drain_goal>>
      /\ Submitting /\ ~ Submitting' /\ sub_pc = "prepared" /\ sub_pc' = "idle"
      /\ submitter' = NoUser /\ Serving' = Serving /\ this \in Works
      /\ returned' = returned \cup {this}
  BY DEF QueueInv, Shapes, Push, stream_vars, drain_vars, Submitting, Serving
<1>2. /\ queue' \in Seq(Works)
      /\ Len(queue) \in Nat /\ Len(queue') = Len(queue) + 1
      /\ \A i \in 1 .. Len(queue) : queue'[i] = queue[i] /\ queue[i] \in Works
      /\ queue'[Len(queue) + 1] = this
  BY <1>1, Pushed DEF QueueInv, TypeOK, Push
<1>3. PlaceForAll' /\ Len(queue') <= QueueDepth
  <2>. DEFINE b == IF busy THEN 1 ELSE 0
  <2>1. b + Len(queue) + 1 <= QueueDepth
    BY <1>1 DEF QueueInv, PlaceForAll, Occupied
  <2>2. b' = b /\ b \in Nat
    BY <1>1
  <2>3. b' + Len(queue') + 0 <= QueueDepth /\ Len(queue') <= QueueDepth
    <3>. HIDE DEF b
    <3>. QED BY <1>2, <2>1, <2>2, SubmitAssumption
  <2>. QED BY <1>1, <2>3 DEF PlaceForAll, Occupied
<1>4. TypeOK'
  BY <1>1, <1>2, <1>3 DEF QueueInv, TypeOK
<1>5. Shapes'
  BY <1>1 DEF QueueInv, Shapes
<1>6. \A seq \in Works : Settled(seq) => seq < this
  BY <1>1 DEF Settled
<1>7. \A seq \in Works : seq <= this => Settled(seq)'
  BY <1>1 DEF Settled
<1>8. /\ (Serving => current \in Works) /\ ended \subseteq Works /\ returned \subseteq Works
      /\ \A b \in burned : b.seq \in Works
  BY DEF QueueInv, Shapes
<1>9. \A i \in 1 .. Len(queue') :
         \/ i \in 1 .. Len(queue) /\ queue'[i] = queue[i]
         \/ i = Len(queue) + 1 /\ queue'[i] = this
  BY <1>2
<1>. HIDE DEF this
<1>10. InOrder'
  <2>1. ASSUME NEW i \in 1 .. Len(queue'), NEW j \in 1 .. Len(queue'), i < j
        PROVE  queue'[i] < queue'[j]
    BY <1>2, <1>6, <1>9, <2>1 DEF QueueInv, InOrder
  <2>2. Serving' => \A i \in 1 .. Len(queue') : current' < queue'[i]
    BY <1>1, <1>2, <1>6, <1>8, <1>9 DEF QueueInv, InOrder
  <2>3. Serving' => Settled(current)'
    BY <1>1, <1>6, <1>7, <1>8 DEF QueueInv, InOrder, Works, Settled
  <2>4. \A i \in 1 .. Len(queue') : Settled(queue[i])'
    BY <1>1, <1>2, <1>6, <1>7, <1>9 DEF QueueInv, InOrder, Works, Settled
  <2>5. \A e \in ended' : /\ Settled(e)'
                          /\ Serving' => e < current'
                          /\ \A i \in 1 .. Len(queue') : e < queue'[i]
    BY <1>1, <1>2, <1>6, <1>7, <1>8, <1>9 DEF QueueInv, InOrder, Works, Settled
  <2>6. (\A seq \in returned' : Settled(seq)') /\ (\A b \in burned' : Settled(b.seq)')
    BY <1>1, <1>6, <1>7, <1>8 DEF QueueInv, InOrder, Works, Settled
  <2>. QED BY <2>1, <2>2, <2>3, <2>4, <2>5, <2>6 DEF InOrder, Settled
<1>11. Accounted'
  <2>1. BurnedSeqs' = BurnedSeqs /\ this \notin BurnedSeqs
    BY <1>1, <1>6, <1>8 DEF BurnedSeqs, QueueInv, InOrder, Works
  <2>2. this \in Queued' /\ \A seq \in Queued : seq \in Queued'
    <3>1. \A i \in 1 .. Len(queue) + 1 : i \in 1 .. Len(queue')
      BY <1>2
    <3>2. Len(queue) + 1 \in 1 .. Len(queue')
      BY <1>2
    <3>. QED BY <1>2, <3>1, <3>2 DEF Queued
  <2>3. \A seq \in returned' : seq \in ended' \/ seq \in Queued' \/ (Serving' /\ seq = current')
    BY <1>1, <2>2 DEF QueueInv, Accounted
  <2>4. \A u \in Users : \A i \in 1 .. Len(streams[u]) :
            streams[u][i].op = "wait" => streams[u][i].seq \in returned' \cup BurnedSeqs
    BY <1>1 DEF QueueInv, Accounted, this
  <2>. QED BY <1>1, <2>1, <2>3, <2>4 DEF QueueInv, Accounted
<1>12. Drained'
  BY <1>1 DEF QueueInv, Drained
<1>. QED BY <1>3, <1>4, <1>5, <1>10, <1>11, <1>12 DEF QueueInv

(* The executor takes the smallest number of the queue. *)
LEMMA QueueStepPop ==
  ASSUME QueueInv, PopWork
  PROVE  QueueInv'
<1>1. /\ UNCHANGED <<last_result, stop, complete_seq, slot_user, ready_seq, reset_stream, streams,
                     work_seq_counter, sub_pc, submitter, reset_done, rung, passed, burned, returned,
                     ended, drainer, drain_goal>>
      /\ Submitting' = Submitting /\ ~ Serving /\ Serving' /\ exec_pc = "idle"
      /\ exec_pc' = "doorbell" /\ busy' = TRUE /\ current' = Head(queue)
  BY DEF PopWork, submit_vars, stream_vars, drain_vars, Submitting, Serving
<1>2. /\ queue' \in Seq(Works)
      /\ Len(queue) \in Nat \ {0} /\ Len(queue') = Len(queue) - 1
      /\ \A i \in 1 .. Len(queue') : queue'[i] = queue[i + 1] /\ i + 1 \in 1 .. Len(queue)
      /\ current' = queue[1] /\ current' \in Works /\ 1 \in 1 .. Len(queue)
  BY Popped DEF QueueInv, TypeOK, PopWork
<1>3. ~ busy
  BY <1>1 DEF QueueInv, Shapes
<1>4. TypeOK'
  BY <1>1, <1>2, SubmitAssumption DEF QueueInv, TypeOK, Works
<1>5. Shapes'
  BY <1>1, <1>2 DEF QueueInv, Shapes
<1>6. PlaceForAll'
  <2>. DEFINE c == IF Submitting THEN 1 ELSE 0
  <2>1. 0 + Len(queue) + c <= QueueDepth
    BY <1>3 DEF QueueInv, PlaceForAll, Occupied
  <2>2. 1 + Len(queue') + c' <= QueueDepth
    <3>1. c' = c /\ c \in Nat
      BY <1>1
    <3>. HIDE DEF c
    <3>. QED BY <1>2, <2>1, <3>1, SubmitAssumption
  <2>. QED BY <1>1, <2>2 DEF PlaceForAll, Occupied
<1>7. \A i \in 1 .. Len(queue') : current' < queue'[i]
  BY <1>2 DEF QueueInv, InOrder
<1>8. InOrder'
  <2>1. ASSUME NEW i \in 1 .. Len(queue'), NEW j \in 1 .. Len(queue'), i < j
        PROVE  queue'[i] < queue'[j]
    BY <1>2, <2>1 DEF QueueInv, InOrder
  <2>2. Settled(current)' /\ \A i \in 1 .. Len(queue') : Settled(queue[i])'
    BY <1>1, <1>2 DEF QueueInv, InOrder, Settled
  <2>3. \A e \in ended' : /\ Settled(e)'
                          /\ e < current'
                          /\ \A i \in 1 .. Len(queue') : e < queue'[i]
    BY <1>1, <1>2 DEF QueueInv, InOrder, Settled
  <2>4. (\A seq \in returned' : Settled(seq)') /\ (\A b \in burned' : Settled(b.seq)')
    BY <1>1 DEF QueueInv, InOrder, Settled
  <2>. QED BY <1>7, <2>1, <2>2, <2>3, <2>4 DEF InOrder, Settled
<1>9. Accounted'
  <2>1. \A seq \in Queued : seq \in Queued' \/ seq = current'
    <3>1. ASSUME NEW i \in 1 .. Len(queue), i # 1
          PROVE  \E k \in 1 .. Len(queue') : queue'[k] = queue[i]
      <4>1. PICK k \in Int : k = i - 1
        BY <1>2
      <4>2. k \in 1 .. Len(queue') /\ i = k + 1
        BY <1>2, <3>1, <4>1
      <4>. QED BY <1>2, <4>2
    <3>2. ASSUME NEW seq \in Queued PROVE seq \in Queued' \/ seq = current'
      <4>1. PICK i \in 1 .. Len(queue) : seq = queue[i]
        BY DEF Queued
      <4>2. i = 1 => seq = current'
        BY <1>2, <4>1
      <4>3. i # 1 => seq \in Queued'
        BY <3>1, <4>1 DEF Queued
      <4>. QED BY <4>2, <4>3
    <3>. QED BY <3>2
  <2>2. BurnedSeqs' = BurnedSeqs
    BY <1>1 DEF BurnedSeqs
  <2>. QED BY <1>1, <2>1, <2>2 DEF QueueInv, Accounted
<1>10. Drained'
  BY <1>1 DEF QueueInv, Drained
<1>. QED BY <1>4, <1>5, <1>6, <1>8, <1>9, <1>10 DEF QueueInv

(* signalComplete stores the number in its slot and ends the item. *)
LEMMA QueueStepSignal ==
  ASSUME QueueInv, SignalComplete
  PROVE  QueueInv'
<1>1. /\ UNCHANGED <<queue, busy, last_result, stop, current, slot_user, ready_seq, reset_stream,
                     streams, work_seq_counter, sub_pc, submitter, reset_done, rung, passed, burned,
                     returned, drainer, drain_goal>>
      /\ Submitting' = Submitting /\ Serving /\ ~ Serving'
      /\ exec_pc' = "signalled" /\ ended' = ended \cup {current}
      /\ complete_seq' = [complete_seq EXCEPT ![Slot(current)] = current]
  BY DEF SignalComplete, submit_vars, stream_vars, drain_vars, Submitting, Serving
<1>2. current \in Works /\ Slot(current) \in Slots
  BY <1>1, SlotOfWork DEF QueueInv, Shapes
<1>3. TypeOK'
  <2>1. complete_seq' \in [Slots -> 0 .. MaxWork]
    BY <1>1, <1>2 DEF QueueInv, TypeOK
  <2>. QED BY <1>1, <2>1 DEF QueueInv, TypeOK
<1>4. Shapes'
  <2>1. busy
    BY <1>1 DEF QueueInv, Shapes
  <2>. QED BY <1>1, <1>2, <2>1 DEF QueueInv, Shapes
<1>5. PlaceForAll'
  BY <1>1 DEF QueueInv, PlaceForAll, Occupied
<1>6. InOrder'
  BY <1>1 DEF QueueInv, InOrder, Settled
<1>7. Accounted'
  <2>1. \A s \in Slots : complete_seq'[s] \in ended' \cup {0}
    <3>. TAKE s \in Slots
    <3>1. complete_seq \in [Slots -> 0 .. MaxWork] /\ complete_seq[s] \in ended \cup {0}
      BY DEF QueueInv, TypeOK, Accounted
    <3>. QED BY <1>1, <1>2, <3>1
  <2>2. \A seq \in returned' : seq \in ended' \/ seq \in Queued'
    BY <1>1 DEF QueueInv, Accounted, Queued
  <2>. QED BY <1>1, <2>1, <2>2 DEF QueueInv, Accounted, BurnedSeqs
<1>8. Drained'
  BY <1>1 DEF QueueInv, Drained
<1>. QED BY <1>3, <1>4, <1>5, <1>6, <1>7, <1>8 DEF QueueInv

(* finishCurrentWork(failure) ends the current item and all queued ones. *)
LEMMA FailEffect ==
  ASSUME QueueInv, FailWork
  PROVE  /\ UNCHANGED <<stop, current, slot_user, ready_seq, reset_stream, streams, work_seq_counter,
                        sub_pc, submitter, reset_done, rung, passed, burned, returned, drainer,
                        drain_goal>>
         /\ Submitting' = Submitting /\ Serving /\ ~ Serving'
         /\ exec_pc' = "idle" /\ busy' = FALSE /\ queue' = <<>> /\ last_result' = "Failure"
         /\ ended' = ended \cup {current} \cup Queued
         /\ Queued \subseteq Works /\ current \in Works
         /\ complete_seq' \in [Slots -> 0 .. MaxWork]
         /\ \A s \in Slots : complete_seq'[s] \in ended' \cup {0}
<1>1. /\ UNCHANGED <<stop, current, slot_user, ready_seq, reset_stream, streams, work_seq_counter,
                     sub_pc, submitter, reset_done, rung, passed, burned, returned, drainer, drain_goal>>
      /\ Submitting' = Submitting /\ Serving /\ ~ Serving'
      /\ exec_pc' = "idle" /\ busy' = FALSE /\ queue' = <<>> /\ last_result' = "Failure"
  BY DEF FailWork, submit_vars, stream_vars, drain_vars, Submitting, Serving
<1>2. Queued \subseteq Works /\ current \in Works /\ Released = {current} \cup Queued
  BY <1>1 DEF QueueInv, TypeOK, Shapes, Queued, Released
<1>3. ASSUME NEW s \in Slots
      PROVE  LET signalled == {seq \in Released : Slot(seq) = s}
                 new == IF signalled = {} THEN complete_seq[s] ELSE Max(signalled)
             IN  new \in 0 .. MaxWork /\ new \in ended \cup Released \cup {0}
  <2>. DEFINE signalled == {seq \in Released : Slot(seq) = s}
  <2>1. CASE signalled = {}
    BY <2>1 DEF QueueInv, TypeOK, Accounted
  <2>2. CASE signalled # {}
    <3>1. signalled \in SUBSET Works
      BY <1>2
    <3>2. Max(signalled) \in signalled
      <4>1. signalled \subseteq Nat /\ MaxWork \in Nat /\ \A x \in signalled : x <= MaxWork
        BY <3>1, SubmitAssumption DEF Works
      <4>. HIDE DEF signalled
      <4>. QED BY <2>2, <4>1, LargestNumber
    <3>3. Max(signalled) \in Released
      BY <3>2
    <3>4. \A x \in Works : x \in 0 .. MaxWork
      BY SubmitAssumption DEF Works
    <3>. HIDE DEF signalled
    <3>. QED BY <2>2, <3>3, <3>4, <1>2 DEF signalled
  <2>. QED BY <2>1, <2>2
<1>4. /\ complete_seq' \in [Slots -> 0 .. MaxWork]
      /\ \A s \in Slots : complete_seq'[s] \in ended \cup Released \cup {0}
  BY <1>3 DEF FailWork
<1>5. ended' = ended \cup Released
  BY DEF FailWork
<1>. QED BY <1>1, <1>2, <1>4, <1>5

(* A failure ends everything at once, so the order stays. *)
LEMMA QueueStepFail ==
  ASSUME QueueInv, FailWork
  PROVE  QueueInv'
<1>1. /\ UNCHANGED <<stop, current, slot_user, ready_seq, reset_stream, streams, work_seq_counter,
                     sub_pc, submitter, reset_done, rung, passed, burned, returned, drainer,
                     drain_goal>>
      /\ Submitting' = Submitting /\ Serving /\ ~ Serving'
      /\ exec_pc' = "idle" /\ busy' = FALSE /\ queue' = <<>> /\ last_result' = "Failure"
      /\ ended' = ended \cup {current} \cup Queued
      /\ Queued \subseteq Works /\ current \in Works
      /\ complete_seq' \in [Slots -> 0 .. MaxWork]
      /\ \A s \in Slots : complete_seq'[s] \in ended' \cup {0}
  BY FailEffect
<1>2. Len(queue') = 0 /\ queue' \in Seq(Works) /\ Len(queue) \in Nat
  BY <1>1 DEF QueueInv, TypeOK
<1>3. TypeOK'
  <2>1. Len(queue') <= QueueDepth
    BY <1>2, SubmitAssumption
  <2>2. busy' \in BOOLEAN /\ stop' \in BOOLEAN
    BY <1>1 DEF QueueInv, TypeOK
  <2>. QED BY <1>1, <1>2, <2>1, <2>2, Zenon DEF QueueInv, TypeOK
<1>4. Shapes'
  BY <1>1 DEF QueueInv, Shapes
<1>5. PlaceForAll'
  <2>. DEFINE b == IF busy THEN 1 ELSE 0
              c == IF Submitting THEN 1 ELSE 0
  <2>1. b + Len(queue) + c <= QueueDepth
    BY DEF QueueInv, PlaceForAll, Occupied
  <2>2. b \in Nat /\ c \in Nat /\ c' = c /\ b' = 0
    BY <1>1
  <2>3. b' + Len(queue') + c' <= QueueDepth
    <3>. HIDE DEF b, c
    <3>. QED BY <1>2, <2>1, <2>2, SubmitAssumption
  <2>. QED BY <2>3 DEF PlaceForAll, Occupied
<1>6. InOrder'
  <2>1. \A e \in ended' : Settled(e)'
    <3>1. \A e \in Queued : Settled(e)
      BY DEF Queued, QueueInv, InOrder
    <3>. QED BY <1>1, <3>1 DEF QueueInv, InOrder, Settled
  <2>2. (\A seq \in returned' : Settled(seq)') /\ (\A b \in burned' : Settled(b.seq)')
    BY <1>1 DEF QueueInv, InOrder, Settled
  <2>. QED BY <1>1, <1>2, <2>1, <2>2 DEF InOrder, Settled
<1>7. Accounted'
  <2>1. \A seq \in returned' : seq \in ended'
    BY <1>1 DEF QueueInv, Accounted
  <2>. QED BY <1>1, <2>1 DEF QueueInv, Accounted, BurnedSeqs
<1>8. Drained'
  BY <1>1 DEF QueueInv, Drained
<1>. QED BY <1>3, <1>4, <1>5, <1>6, <1>7, <1>8 DEF QueueInv

(* The user stream writes a doorbell or passes a wait.  The number that a  *)
(* wait finds in its slot has ended, and it is not smaller than the wait's *)
(* own: an item that is queued, served or about to be pushed would be      *)
(* larger than it.                                                         *)
LEMMA QueueStepStream ==
  ASSUME QueueInv, NEW u \in Users, Ring(u) \/ Pass(u)
  PROVE  QueueInv'
<1>. DEFINE this == streams[u][1]
<1>1. /\ UNCHANGED <<queue, busy, last_result, stop, exec_pc, current, complete_seq, slot_user,
                     reset_stream, work_seq_counter, sub_pc, submitter, reset_done, burned, returned,
                     ended, drainer, drain_goal>>
      /\ Submitting' = Submitting /\ Serving' = Serving
      /\ streams[u] # <<>> /\ streams' = [streams EXCEPT ![u] = Tail(@)]
  BY DEF Ring, Pass, submit_vars, stream_vars, drain_vars, Submitting, Serving
<1>2. /\ streams' \in [Users -> Seq(UserOp)]
      /\ 1 \in 1 .. Len(streams[u]) /\ Head(streams[u]) = this /\ this \in UserOp
      /\ \A v \in Users : \A i \in 1 .. Len(streams'[v]) :
            \E j \in 1 .. Len(streams[v]) : streams'[v][i] = streams[v][j]
  <2>1. /\ streams' \in [Users -> Seq(UserOp)]
        /\ 1 \in 1 .. Len(streams[u]) /\ Head(streams[u]) = this /\ this \in UserOp
        /\ \A v \in Users \ {u} : streams'[v] = streams[v]
        /\ \A i \in 1 .. Len(streams'[u]) :
              i + 1 \in 1 .. Len(streams[u]) /\ streams'[u][i] = streams[u][i + 1]
    BY <1>1, StreamPopEffect DEF QueueInv
  <2>2. ASSUME NEW v \in Users, NEW i \in 1 .. Len(streams'[v])
        PROVE  \E j \in 1 .. Len(streams[v]) : streams'[v][i] = streams[v][j]
    <3>1. CASE v = u
      BY <2>1, <3>1
    <3>2. CASE v # u
      BY <2>1, <3>2
    <3>. QED BY <3>1, <3>2
  <2>. QED BY <2>1, <2>2
<1>3. this.seq \in Works /\ Slot(this.seq) \in Slots
  BY <1>2, SlotOfWork DEF UserOp
<1>4. /\ ready_seq' \in [Slots -> 0 .. MaxWork]
      /\ rung' \subseteq Works /\ passed' \subseteq Works
  <2>1. this.seq \in 0 .. MaxWork
    BY <1>3, SubmitAssumption DEF Works
  <2>2. CASE Ring(u)
    BY <1>2, <1>3, <2>1, <2>2 DEF QueueInv, TypeOK, Shapes, Ring
  <2>3. CASE Pass(u)
    BY <1>2, <1>3, <2>3 DEF QueueInv, TypeOK, Shapes, Pass
  <2>. QED BY <2>2, <2>3
<1>5. passed' \subseteq ended \cup BurnedSeqs
  <2>1. CASE Ring(u)
    BY <2>1 DEF Ring, QueueInv, Accounted
  <2>2. CASE Pass(u)
    <3>. DEFINE e == complete_seq[Slot(this.seq)]
    <3>1. this.op = "wait" /\ e >= this.seq /\ passed' = passed \cup {this.seq}
      BY <1>2, <2>2 DEF Pass
    <3>2. e \in ended
      BY <1>3, <3>1, SlotOfWork DEF QueueInv, Accounted
    <3>3. \/ this.seq \in ended \/ this.seq \in Queued \/ (Serving /\ this.seq = current)
          \/ this.seq \in BurnedSeqs
          \/ Submitting /\ this.seq = work_seq_counter
      BY <1>2, <3>1 DEF QueueInv, Accounted, Submitting
    <3>4. /\ \A i \in 1 .. Len(queue) : e < queue[i] /\ queue[i] \in Nat
          /\ Serving => e < current /\ current \in Nat
          /\ Submitting => e < work_seq_counter /\ work_seq_counter \in Nat
          /\ e \in Nat
      <4>. HIDE DEF e
      <4>1. e \in Nat
        BY <3>2, Numbers
      <4>2. Submitting => e < work_seq_counter /\ work_seq_counter \in Nat
        BY <3>2, Numbers DEF QueueInv, InOrder, Settled
      <4>3. Serving => e < current /\ current \in Nat
        BY <3>2, Numbers DEF QueueInv, InOrder
      <4>4. \A i \in 1 .. Len(queue) : e < queue[i] /\ queue[i] \in Nat
        BY <3>2, Numbers DEF QueueInv, InOrder
      <4>. QED BY <4>1, <4>2, <4>3, <4>4
    <3>5. this.seq \in ended \cup BurnedSeqs
      <4>. HIDE DEF e, this
      <4>. QED BY <1>3, <3>1, <3>3, <3>4 DEF Queued, Works
    <3>. QED BY <3>1, <3>5 DEF QueueInv, Accounted
  <2>. QED BY <2>1, <2>2
<1>6. TypeOK'
  BY <1>1, <1>4 DEF QueueInv, TypeOK
<1>7. Shapes'
  BY <1>1, <1>2, <1>4 DEF QueueInv, Shapes, UserOp
<1>8. PlaceForAll' /\ InOrder' /\ Drained'
  BY <1>1 DEF QueueInv, PlaceForAll, Occupied, InOrder, Settled, Drained
<1>9. Accounted'
  <2>1. \A v \in Users : \A i \in 1 .. Len(streams'[v]) :
          streams'[v][i].op = "wait" =>
            \/ streams'[v][i].seq \in returned \cup BurnedSeqs
            \/ sub_pc = "prepared" /\ streams'[v][i].seq = work_seq_counter
    BY <1>2, SMTT(30) DEF QueueInv, Accounted
  <2>2. BurnedSeqs' = BurnedSeqs /\ Queued' = Queued
    BY <1>1 DEF BurnedSeqs, Queued
  <2>. QED BY <1>1, <1>5, <2>1, <2>2 DEF QueueInv, Accounted
<1>. QED BY <1>6, <1>7, <1>8, <1>9 DEF QueueInv

(* Every step of submit, of the executor thread, of the streams and of     *)
(* waitForIdle keeps the queue in order and everything accounted for.      *)
LEMMA QueueStep == QueueInv /\ [Next]_vars => QueueInv'
<1>. SUFFICES ASSUME QueueInv, [Next]_vars PROVE QueueInv'
  OBVIOUS
<1>1. CASE SubmitStep
  BY <1>1, QueueStepAdmit, QueueStepPrepare, QueueStepPrepareFails, QueueStepPush, QueueStepOthers
     DEF SubmitStep
<1>2. CASE ExecutorStep
  BY <1>2, QueueStepPop, QueueStepSignal, QueueStepFail, QueueStepOthers DEF ExecutorStep
<1>3. CASE StreamStep
  BY <1>3, QueueStepStream, QueueStepOthers DEF StreamStep
<1>4. CASE DrainStep
  BY <1>4, QueueStepOthers DEF DrainStep
<1>5. CASE UNCHANGED vars
  BY <1>5, QueueStepOthers
<1>. QED BY <1>1, <1>2, <1>3, <1>4, <1>5 DEF Next

(* QueueInv holds in every state of every run. *)
LEMMA QueueInvariant == Spec => []QueueInv
BY QueueInit, QueueStep, PTL DEF Spec

(* A stream gets behind its wait only when the executor is done with that  *)
(* very item: signalComplete's numbers in a slot only grow.                *)
THEOREM WaitsAreSafe == Spec => []PassedOnlyEnded
<1>1. QueueInv => PassedOnlyEnded
  BY DEF QueueInv, Accounted, PassedOnlyEnded
<1>. QED BY <1>1, QueueInvariant, PTL

(* waitForIdle returns only when everything submitted before has ended.    *)
THEOREM DrainIsSafe == Spec => []DrainedMeansEnded
<1>1. QueueInv => DrainedMeansEnded
  BY DEF QueueInv, Drained, DrainedMeansEnded
<1>. QED BY <1>1, QueueInvariant, PTL

-----------------------------------------------------------------------------
(* The doorbells *)

(* How LastEnded is made up. *)
LEMMA LastEndedParts ==
  ASSUME QueueInv
  PROVE  /\ work_seq_counter \in Nat /\ Len(queue) \in Nat /\ LastEnded \in Int
         /\ Submitting => LastEnded =
               IF Serving THEN work_seq_counter - 2 - Len(queue) ELSE work_seq_counter - 1 - Len(queue)
         /\ ~ Submitting => LastEnded =
               IF Serving THEN work_seq_counter - 1 - Len(queue) ELSE work_seq_counter - Len(queue)
<1>1. work_seq_counter \in Nat /\ Len(queue) \in Nat
  BY SubmitAssumption DEF QueueInv, TypeOK
<1>. QED BY <1>1 DEF LastEnded

(* No step but a failing submit leaves a gap in the numbers under way. *)
LEMMA DenseStep ==
  ASSUME QueueInv, QueueInv', Dense, [Next]_vars, ~ PrepareFails
  PROVE  Dense'
<1>. USE LastEndedParts
<1>0. /\ work_seq_counter' \in Nat /\ Len(queue') \in Nat /\ LastEnded' \in Int
      /\ Submitting' => LastEnded' =
               IF Serving' THEN work_seq_counter' - 2 - Len(queue') ELSE work_seq_counter' - 1 - Len(queue')
      /\ ~ Submitting' => LastEnded' =
               IF Serving' THEN work_seq_counter' - 1 - Len(queue') ELSE work_seq_counter' - Len(queue')
  <2>1. work_seq_counter' \in Nat /\ Len(queue') \in Nat
    BY SubmitAssumption DEF QueueInv, TypeOK
  <2>. QED BY <2>1 DEF LastEnded
<1>1. ASSUME NEW u \in Users, Admit(u) PROVE Dense'
  <2>1. UNCHANGED <<queue, ended, current, Serving>> /\ ~ Submitting /\ Submitting'
        /\ work_seq_counter' = work_seq_counter + 1
    BY <1>1 DEF Admit, Submitting, Serving
  <2>2. LastEnded' = LastEnded
    BY <1>0, <2>1
  <2>. QED BY <2>1, <2>2 DEF Dense
<1>2. CASE PrepareUserWait
  <2>1. UNCHANGED <<queue, ended, current, Serving, Submitting, work_seq_counter>>
    BY <1>2 DEF PrepareUserWait, Submitting, Serving
  <2>2. LastEnded' = LastEnded
    BY <1>0, <2>1
  <2>. QED BY <2>1, <2>2 DEF Dense
<1>3. CASE Push
  <2>1. UNCHANGED <<ended, current, Serving, work_seq_counter>> /\ Submitting /\ ~ Submitting'
        /\ queue' = Append(queue, work_seq_counter) /\ work_seq_counter \in Works
    BY <1>3 DEF Push, Submitting, Serving, QueueInv, Shapes
  <2>2. /\ Len(queue') = Len(queue) + 1
        /\ \A i \in 1 .. Len(queue) : queue'[i] = queue[i]
        /\ queue'[Len(queue) + 1] = work_seq_counter
    BY <2>1, Pushed DEF QueueInv, TypeOK
  <2>3. LastEnded' = LastEnded
    BY <1>0, <2>1, <2>2
  <2>4. \A i \in 1 .. Len(queue') : queue'[i] = LastEnded' + (IF Serving' THEN 1 ELSE 0) + i
    <3>. TAKE i \in 1 .. Len(queue')
    <3>1. CASE i \in 1 .. Len(queue)
      BY <2>1, <2>2, <2>3, <3>1 DEF Dense
    <3>2. CASE i = Len(queue) + 1
      BY <2>1, <2>2, <2>3, <3>2
    <3>. QED BY <2>2, <3>1, <3>2
  <2>. QED BY <2>1, <2>3, <2>4 DEF Dense
<1>4. CASE PopWork
  <2>1. UNCHANGED <<ended, Submitting, work_seq_counter>> /\ ~ Serving /\ Serving'
    BY <1>4 DEF PopWork, submit_vars, Submitting, Serving
  <2>2. /\ Len(queue) \in Nat \ {0} /\ Len(queue') = Len(queue) - 1
        /\ \A i \in 1 .. Len(queue') : queue'[i] = queue[i + 1] /\ i + 1 \in 1 .. Len(queue)
        /\ current' = queue[1] /\ 1 \in 1 .. Len(queue)
    BY <1>4, Popped DEF QueueInv, TypeOK, PopWork
  <2>3. LastEnded' = LastEnded
    BY <1>0, <2>1, <2>2
  <2>4. current' = LastEnded' + 1
    BY <2>1, <2>2, <2>3 DEF Dense
  <2>5. \A i \in 1 .. Len(queue') : queue'[i] = LastEnded' + 1 + i
    BY <2>1, <2>2, <2>3 DEF Dense
  <2>. QED BY <2>1, <2>3, <2>4, <2>5 DEF Dense
<1>5. CASE SignalComplete
  <2>1. UNCHANGED <<queue, Submitting, work_seq_counter>> /\ Serving /\ ~ Serving'
        /\ ended' = ended \cup {current}
    BY <1>5 DEF SignalComplete, submit_vars, Submitting, Serving
  <2>2. LastEnded' = LastEnded + 1
    BY <1>0, <2>1
  <2>3. \A seq \in Works : seq \in ended' <=> seq <= LastEnded'
    BY <2>1, <2>2, Numbers DEF Dense
  <2>. QED BY <2>1, <2>2, <2>3 DEF Dense
<1>6. CASE FailWork
  <2>1. UNCHANGED <<Submitting, work_seq_counter>> /\ Serving /\ ~ Serving' /\ queue' = <<>>
        /\ ended' = ended \cup {current} \cup Queued
    BY <1>6, FailEffect
  <2>2. Len(queue') = 0
    BY <2>1
  <2>3. LastEnded' = LastEnded + 1 + Len(queue)
    BY <1>0, <2>1, <2>2
  <2>4. \A seq \in Works : seq \in ended' <=> seq <= LastEnded'
    <3>. TAKE seq \in Works
    <3>1. seq \in Nat
      BY Numbers
    <3>2. seq \in Queued <=> LastEnded + 1 < seq /\ seq <= LastEnded + 1 + Len(queue)
      <4>1. ASSUME seq \in Queued PROVE LastEnded + 1 < seq /\ seq <= LastEnded + 1 + Len(queue)
        BY <2>1, <4>1 DEF Queued, Dense
      <4>2. ASSUME LastEnded + 1 < seq, seq <= LastEnded + 1 + Len(queue) PROVE seq \in Queued
        <5>1. LastEnded \in Int /\ Len(queue) \in Nat
          OBVIOUS
        <5>. DEFINE i == seq - LastEnded - 1
        <5>2. i \in 1 .. Len(queue) /\ seq = LastEnded + 1 + i
          BY <3>1, <4>2, <5>1
        <5>. QED BY <2>1, <5>2 DEF Queued, Dense
      <4>. QED BY <4>1, <4>2
    <3>. QED BY <2>1, <2>3, <3>1, <3>2 DEF Dense
  <2>. QED BY <2>1, <2>2, <2>3, <2>4 DEF Dense
<1>7. CASE \/ AdmitTimesOut \/ SeeDoorbell \/ GraphDone \/ ThreadExit \/ FinishWork
           \/ DrainStep \/ StreamStep \/ UNCHANGED vars
  <2>1. UNCHANGED <<queue, ended, current, sub_pc, work_seq_counter>> /\ Serving' = Serving
    BY <1>7 DEF AdmitTimesOut, SeeDoorbell, GraphDone, ThreadExit, FinishWork, DrainStep, StreamStep,
                DrainCall, DrainReturn, DrainTimesOut, Stop, ResetStreamStep, Ring, Pass,
                submit_vars, vars, Serving
  <2>2. LastEnded' = LastEnded
    BY <1>0, <2>1 DEF Submitting
  <2>. QED BY <2>1, <2>2 DEF Dense
<1>. QED
  BY <1>1, <1>2, <1>3, <1>4, <1>5, <1>6, <1>7 DEF Next, SubmitStep, ExecutorStep

(* A number keeps being enqueued, and the one that prepareUserWait is      *)
(* about to enqueue is not.                                                *)
LEMMA EnqueuedStep ==
  ASSUME QueueInv, [Next]_vars, ~ PrepareFails, NEW seq \in Works, Enqueued(seq)
  PROVE  Enqueued(seq)'
<1>1. work_seq_counter \in Nat /\ seq \in Nat
  BY Numbers, SubmitAssumption DEF QueueInv, TypeOK
<1>2. ASSUME NEW u \in Users, Admit(u) PROVE Enqueued(seq)'
  BY <1>1, <1>2 DEF Admit, Enqueued
<1>3. CASE PrepareUserWait \/ Push
  BY <1>1, <1>3 DEF PrepareUserWait, Push, Enqueued
<1>4. CASE UNCHANGED <<sub_pc, work_seq_counter>>
  BY <1>4 DEF Enqueued
<1>. QED
  BY <1>2, <1>3, <1>4
     DEF Next, SubmitStep, ExecutorStep, StreamStep, DrainStep, AdmitTimesOut, PopWork, SeeDoorbell,
         GraphDone, SignalComplete, FinishWork, FailWork, ThreadExit, ResetStreamStep, Ring, Pass,
         DrainCall, DrainReturn, DrainTimesOut, Stop, submit_vars, vars

(* The user streams' operations are well formed. *)
LEMMA StreamOps ==
  ASSUME QueueInv, NEW u \in Users, NEW i \in 1 .. Len(streams[u])
  PROVE  streams[u][i].seq \in Works /\ streams[u][i].op \in {"ring", "wait"}
<1>0. streams[u] \in Seq(UserOp)
  BY DEF QueueInv, Shapes, UserOp
<1>1. streams[u][i] \in UserOp
  BY <1>0
<1>. QED BY <1>1 DEF UserOp

(* prepareUserWait puts a doorbell and a wait of a new number behind what  *)
(* the caller's stream holds.                                              *)
LEMMA BellPrepare ==
  ASSUME QueueInv, burned = {}, BellThenWait, PrepareUserWait
  PROVE  BellThenWait'
<1>. DEFINE this == work_seq_counter
            ring == [op |-> "ring", seq |-> this]
            wait == [op |-> "wait", seq |-> this]
<1>1. /\ UNCHANGED <<rung, reset_done, passed, work_seq_counter, submitter>>
      /\ Submitting /\ sub_pc = "admitted" /\ sub_pc' = "prepared" /\ Enqueue(2) /\ this \in Works
  BY DEF PrepareUserWait, Submitting, QueueInv, Shapes
<1>2. /\ \A u \in Users : \A i \in 1 .. Len(streams[u]) :
            i \in 1 .. Len(streams'[u]) /\ streams'[u][i] = streams[u][i]
      /\ \A u \in Users : \A i \in 1 .. Len(streams'[u]) :
            \/ i \in 1 .. Len(streams[u])
            \/ u = submitter /\ i = Len(streams[u]) + 1 /\ streams'[u][i] = ring
            \/ /\ u = submitter /\ i = Len(streams[u]) + 2 /\ streams'[u][i] = wait
               /\ i - 1 \in 1 .. Len(streams'[u]) /\ streams'[u][i - 1] = ring
  BY <1>1, EnqueueEffect DEF QueueInv
<1>3. ring.op = "ring" /\ ring.seq = this /\ wait.op = "wait" /\ wait.seq = this
  OBVIOUS
<1>4. this \notin passed /\ \A seq \in Works : Enqueued(seq) => seq # this
  <2>1. BurnedSeqs = {}
    BY DEF BurnedSeqs
  <2>2. this \notin ended
    BY <1>1, Numbers DEF QueueInv, InOrder, Settled
  <2>. QED BY <1>1, <2>1, <2>2, Numbers DEF QueueInv, Accounted, Enqueued
<1>5. \A seq \in Works : Enqueued(seq) => seq < this
  BY <1>1, Numbers DEF Enqueued
<1>6. \A u \in Users : \A i \in 1 .. Len(streams[u]) :
         /\ streams[u][i].seq \in Works /\ Enqueued(streams[u][i].seq) /\ streams[u][i].seq # this
         /\ Len(streams[u]) \in Nat
  BY <1>4, StreamOps DEF BellThenWait
<1>. HIDE DEF this, ring, wait
<1>7. \A seq \in rung : seq <= this
  <2>1. rung \subseteq Works /\ this \in Nat
    BY <1>1, Numbers DEF QueueInv, Shapes
  <2>. QED BY <1>5, <2>1, Numbers DEF BellThenWait
<1>8. ASSUME NEW u \in Users, NEW i \in 1 .. Len(streams'[u])
      PROVE  streams'[u][i].seq <= this
  <2>1. this \in Nat
    BY <1>1, Numbers
  <2>2. CASE i \in 1 .. Len(streams[u])
    <3>. DEFINE seq == streams[u][i].seq
    <3>1. seq \in Works /\ Enqueued(seq) /\ streams'[u][i].seq = seq
      BY <1>2, <1>6, <2>2
    <3>. HIDE DEF seq
    <3>2. seq \in Nat /\ seq < this
      BY <1>5, <3>1, Numbers
    <3>. QED BY <2>1, <3>1, <3>2
  <2>3. CASE i \notin 1 .. Len(streams[u])
    BY <1>2, <1>3, <2>1, <2>3
  <2>. QED BY <2>2, <2>3
<1>9. ASSUME NEW u \in Users, NEW v \in Users,
             NEW i \in 1 .. Len(streams'[u]), NEW j \in 1 .. Len(streams'[v]),
             streams'[u][i].op = "wait", streams'[v][j].op = "ring",
             streams'[u][i].seq = streams'[v][j].seq
      PROVE  u = v /\ j < i
  <2>1. CASE i \in 1 .. Len(streams[u])
    <3>1. streams'[u][i] = streams[u][i] /\ streams'[u][i].seq # this
      BY <1>2, <1>6, <2>1
    <3>2. j \in 1 .. Len(streams[v]) /\ streams'[v][j] = streams[v][j]
      BY <1>2, <1>3, <1>9, <3>1
    <3>. QED BY <1>9, <2>1, <3>1, <3>2 DEF BellThenWait
  <2>2. CASE i \notin 1 .. Len(streams[u])
    <3>1. u = submitter /\ i = Len(streams[u]) + 2 /\ streams'[u][i].seq = this
      BY <1>2, <1>3, <1>9, <2>2
    <3>2. j \notin 1 .. Len(streams[v])
      <4>1. ASSUME j \in 1 .. Len(streams[v]) PROVE FALSE
        <5>1. streams'[v][j] = streams[v][j] /\ streams[v][j].seq # this
          BY <1>2, <1>6, <4>1
        <5>. QED BY <1>9, <3>1, <5>1
      <4>. QED BY <4>1
    <3>3. v = submitter /\ j = Len(streams[v]) + 1
      BY <1>2, <1>3, <1>9, <3>2
    <3>4. Len(streams[u]) \in Nat
      BY DEF QueueInv, Shapes
    <3>. QED BY <3>1, <3>3, <3>4
  <2>. QED BY <2>1, <2>2
<1>10. ASSUME NEW u \in Users, NEW i \in 1 .. Len(streams'[u]), streams'[u][i].op = "wait"
       PROVE  \/ streams'[u][i].seq \in rung
              \/ \E j \in 1 .. Len(streams'[u]) :
                    streams'[u][j].op = "ring" /\ streams'[u][j].seq = streams'[u][i].seq
  <2>1. CASE i \in 1 .. Len(streams[u])
    <3>1. streams'[u][i] = streams[u][i]
      BY <1>2, <2>1
    <3>2. \/ streams[u][i].seq \in rung
          \/ \E j \in 1 .. Len(streams[u]) :
                streams[u][j].op = "ring" /\ streams[u][j].seq = streams[u][i].seq
      BY <1>10, <2>1, <3>1 DEF BellThenWait
    <3>. QED BY <1>2, <3>1, <3>2
  <2>2. CASE i \notin 1 .. Len(streams[u])
    <3>1. streams'[u][i] = wait /\ i - 1 \in 1 .. Len(streams'[u]) /\ streams'[u][i - 1] = ring
      BY <1>2, <1>3, <1>10, <2>2
    <3>. QED BY <1>3, <3>1
  <2>. QED BY <2>1, <2>2
<1>11. ASSUME NEW u \in Users, NEW i \in 1 .. Len(streams'[u]), streams'[u][i].op = "ring"
       PROVE  streams'[u][i].seq \notin passed
  <2>1. CASE i \in 1 .. Len(streams[u])
    <3>1. streams'[u][i] = streams[u][i]
      BY <1>2, <2>1
    <3>. QED BY <1>11, <2>1, <3>1 DEF BellThenWait
  <2>2. CASE i \notin 1 .. Len(streams[u])
    BY <1>2, <1>3, <1>4, <2>2
  <2>. QED BY <2>1, <2>2
<1>12. /\ \A seq \in rung' : Enqueued(seq)'
       /\ \A u \in Users : \A i \in 1 .. Len(streams'[u]) : Enqueued(streams[u][i].seq)'
  BY <1>1, <1>7, <1>8 DEF Enqueued, this
<1>. QED BY <1>1, <1>9, <1>10, <1>11, <1>12 DEF BellThenWait


(* The stream writes a doorbell, or passes a wait whose doorbell was in    *)
(* front of it.                                                            *)
LEMMA BellStream ==
  ASSUME QueueInv, BellThenWait, NEW u \in Users, Ring(u) \/ Pass(u)
  PROVE  BellThenWait'
<1>. DEFINE this == streams[u][1]
<1>1. /\ UNCHANGED <<reset_done, work_seq_counter, sub_pc>>
      /\ streams[u] # <<>> /\ streams' = [streams EXCEPT ![u] = Tail(@)]
  BY DEF Ring, Pass, submit_vars
<1>2. /\ 1 \in 1 .. Len(streams[u]) /\ Head(streams[u]) = this
      /\ \A v \in Users \ {u} : streams'[v] = streams[v]
      /\ Len(streams[u]) \in Nat /\ Len(streams'[u]) = Len(streams[u]) - 1
      /\ \A i \in 1 .. Len(streams'[u]) :
            i + 1 \in 1 .. Len(streams[u]) /\ streams'[u][i] = streams[u][i + 1]
  BY <1>1, StreamPopEffect DEF QueueInv
<1>3. \/ /\ this.op = "ring" /\ this.seq \in reset_done
         /\ rung' = rung \cup {this.seq} /\ passed' = passed
      \/ this.op = "wait" /\ rung' = rung /\ passed' = passed \cup {this.seq}
  <2>1. CASE Ring(u)
    BY <1>2, <2>1 DEF Ring
  <2>2. CASE Pass(u)
    BY <1>2, <2>2 DEF Pass
  <2>. QED BY <2>1, <2>2
<1>4. ASSUME NEW v \in Users, NEW i \in 1 .. Len(streams'[v])
      PROVE  \E k \in 1 .. Len(streams[v]) :
                streams'[v][i] = streams[v][k] /\ k = (IF v = u THEN i + 1 ELSE i)
  BY <1>2
<1>. HIDE DEF this
<1>5. \A seq \in rung' : Enqueued(seq)
  BY <1>2, <1>3 DEF BellThenWait, this
<1>6. ASSUME NEW v \in Users, NEW i \in 1 .. Len(streams'[v])
      PROVE  Enqueued(streams'[v][i].seq)
  BY <1>4, <1>6 DEF BellThenWait
<1>7. ASSUME NEW v \in Users, NEW w \in Users,
             NEW i \in 1 .. Len(streams'[v]), NEW j \in 1 .. Len(streams'[w]),
             streams'[v][i].op = "wait", streams'[w][j].op = "ring",
             streams'[v][i].seq = streams'[w][j].seq
      PROVE  v = w /\ j < i
  <2>1. PICK k \in 1 .. Len(streams[v]) :
           streams'[v][i] = streams[v][k] /\ k = (IF v = u THEN i + 1 ELSE i)
    BY <1>4
  <2>2. PICK l \in 1 .. Len(streams[w]) :
           streams'[w][j] = streams[w][l] /\ l = (IF w = u THEN j + 1 ELSE j)
    BY <1>4
  <2>3. v = w /\ l < k
    BY <1>7, <2>1, <2>2 DEF BellThenWait
  <2>. QED BY <2>1, <2>2, <2>3
<1>8. ASSUME NEW v \in Users, NEW i \in 1 .. Len(streams'[v]), streams'[v][i].op = "wait"
      PROVE  \/ streams'[v][i].seq \in rung'
             \/ \E j \in 1 .. Len(streams'[v]) :
                   streams'[v][j].op = "ring" /\ streams'[v][j].seq = streams'[v][i].seq
  <2>1. PICK k \in 1 .. Len(streams[v]) :
           streams'[v][i] = streams[v][k] /\ k = (IF v = u THEN i + 1 ELSE i)
    BY <1>4
  <2>2. CASE streams[v][k].seq \in rung
    BY <1>3, <2>1, <2>2
  <2>3. ASSUME NEW l \in 1 .. Len(streams[v]),
               streams[v][l].op = "ring", streams[v][l].seq = streams[v][k].seq
        PROVE  \/ streams'[v][i].seq \in rung'
               \/ \E j \in 1 .. Len(streams'[v]) :
                     streams'[v][j].op = "ring" /\ streams'[v][j].seq = streams'[v][i].seq
    <3>1. CASE v # u
      BY <1>2, <2>1, <2>3, <3>1
    <3>2. CASE v = u /\ l = 1
      BY <1>3, <2>1, <2>3, <3>2 DEF this
    <3>3. CASE v = u /\ l # 1
      <4>1. PICK j \in Int : j = l - 1
        BY <1>2
      <4>2. j \in 1 .. Len(streams'[v]) /\ l = j + 1
        BY <1>2, <2>3, <3>3, <4>1
      <4>3. streams'[v][j] = streams[v][l]
        BY <1>2, <3>3, <4>2
      <4>. QED BY <2>1, <2>3, <4>2, <4>3
    <3>. QED BY <3>1, <3>2, <3>3
  <2>. QED BY <1>8, <2>1, <2>2, <2>3 DEF BellThenWait
<1>9. ASSUME NEW v \in Users, NEW i \in 1 .. Len(streams'[v]), streams'[v][i].op = "ring"
      PROVE  streams'[v][i].seq \notin passed'
  <2>1. PICK k \in 1 .. Len(streams[v]) :
           streams'[v][i] = streams[v][k] /\ k = (IF v = u THEN i + 1 ELSE i)
    BY <1>4
  <2>2. streams[v][k].seq \notin passed
    BY <1>9, <2>1 DEF BellThenWait
  <2>3. ASSUME this.op = "wait", this.seq = streams[v][k].seq PROVE FALSE
    <3>1. /\ 1 \in 1 .. Len(streams[u]) /\ streams[u][1].op = "wait" /\ streams[v][k].op = "ring"
          /\ streams[u][1].seq = streams[v][k].seq
      BY <1>2, <1>9, <2>1, <2>3 DEF this
    <3>2. u = v /\ k < 1
      BY <3>1 DEF BellThenWait
    <3>. QED BY <2>1, <3>2
  <2>. QED BY <1>3, <2>1, <2>2, <2>3
<1>10. /\ \A seq \in rung' : Enqueued(seq)'
       /\ \A v \in Users : \A i \in 1 .. Len(streams'[v]) : Enqueued(streams[v][i].seq)'
  BY <1>1, <1>5, <1>6 DEF Enqueued
<1>11. rung' \subseteq reset_done'
  BY <1>1, <1>3 DEF BellThenWait
<1>. QED BY <1>7, <1>8, <1>9, <1>10, <1>11 DEF BellThenWait

(* On the user streams doorbells stay in front of their waits. *)
LEMMA BellStep ==
  ASSUME QueueInv, burned = {}, BellThenWait, [Next]_vars, ~ PrepareFails
  PROVE  BellThenWait'
<1>1. CASE PrepareUserWait
  BY <1>1, BellPrepare
<1>2. ASSUME NEW u \in Users, Ring(u) \/ Pass(u) PROVE BellThenWait'
  BY <1>2, BellStream
<1>3. CASE UNCHANGED <<rung, passed, streams>> /\ reset_done \subseteq reset_done'
  <2>1. \A seq \in rung' : Enqueued(seq)'
    BY <1>3, EnqueuedStep DEF BellThenWait, QueueInv, Shapes
  <2>2. \A u \in Users : \A i \in 1 .. Len(streams'[u]) : Enqueued(streams[u][i].seq)'
    <3>. SUFFICES ASSUME NEW u \in Users, NEW i \in 1 .. Len(streams[u]),
                         NEW seq, seq = streams[u][i].seq
                  PROVE  Enqueued(seq)'
      BY <1>3 DEF Enqueued
    <3>. QED BY EnqueuedStep, StreamOps DEF BellThenWait
  <2>. QED BY <1>3, <2>1, <2>2, SMTT(30) DEF BellThenWait
<1>. QED
  BY <1>1, <1>2, <1>3
     DEF Next, SubmitStep, ExecutorStep, StreamStep, DrainStep, Admit, AdmitTimesOut, Push, PopWork,
         SeeDoorbell, GraphDone, SignalComplete, FinishWork, FailWork, ThreadExit, ResetStreamStep,
         DrainCall, DrainReturn, DrainTimesOut, Stop, stream_vars, vars

(* prepareUserWait's entry of reset_stream_ names the slot's last item and *)
(* makes the new one the last.                                             *)
LEMMA ChainPrepare ==
  ASSUME QueueInv, SlotChain, PrepareUserWait
  PROVE  SlotChain'
<1>. DEFINE this == work_seq_counter
            reset == [seq |-> this, after |-> slot_user[Slot(this)]]
<1>1. /\ UNCHANGED <<reset_done, passed, work_seq_counter>>
      /\ Submitting /\ sub_pc = "admitted" /\ sub_pc' = "prepared" /\ Enqueue(2)
      /\ slot_user' = [slot_user EXCEPT ![Slot(this)] = this]
      /\ this \in Works
  BY DEF PrepareUserWait, Submitting, QueueInv, Shapes
<1>2. \A i \in 1 .. Len(reset_stream') :
         (i \in 1 .. Len(reset_stream) /\ reset_stream'[i] = reset_stream[i])
           \/ reset_stream'[i] = reset
  BY <1>1, EnqueueEffect DEF QueueInv
<1>3. reset.seq = this /\ reset.after = slot_user[Slot(this)]
  OBVIOUS
<1>4. this \in Nat \ {0} /\ Slot(this) \in Slots /\ slot_user \in [Slots -> 0 .. MaxWork]
  BY <1>1, SlotOfWork DEF QueueInv, Shapes
<1>5. \A x \in Works : (Enqueued(x) <=> x < this) /\ (Enqueued(x)' <=> x <= this)
  BY <1>1 DEF Enqueued
<1>. HIDE DEF this, reset
<1>6. ASSUME NEW s \in Slots
      PROVE  /\ slot_user'[s] # 0 => Slot(slot_user'[s]) = s
             /\ \A x \in Works : Slot(x) = s /\ Enqueued(x)' => x <= slot_user'[s]
  <2>1. CASE s = Slot(this)
    BY <1>1, <1>4, <1>5, <2>1
  <2>2. CASE s # Slot(this)
    <3>1. slot_user'[s] = slot_user[s]
      BY <1>1, <1>4, <2>2
    <3>2. \A x \in Works : Slot(x) = s /\ Enqueued(x)' => Enqueued(x)
      BY <1>4, <1>5, <2>2, Numbers
    <3>. QED BY <3>1, <3>2 DEF SlotChain
  <2>. QED BY <2>1, <2>2
<1>7. ASSUME NEW i \in 1 .. Len(reset_stream')
      PROVE  /\ reset_stream'[i].after # 0 => Slot(reset_stream'[i].after) = Slot(reset_stream'[i].seq)
             /\ \A x \in Works : Slot(x) = Slot(reset_stream'[i].seq) /\ x < reset_stream'[i].seq
                                    => x <= reset_stream'[i].after
  <2>1. CASE i \in 1 .. Len(reset_stream) /\ reset_stream'[i] = reset_stream[i]
    BY <2>1 DEF SlotChain
  <2>2. CASE reset_stream'[i] = reset
    BY <1>3, <1>4, <1>5, <2>2 DEF SlotChain
  <2>. QED BY <1>2, <2>1, <2>2
<1>8. \A y \in reset_done' \cup passed' : \A x \in Works : Slot(x) = Slot(y) /\ x < y => x \in passed'
  BY <1>1 DEF SlotChain
<1>. QED BY <1>6, <1>7, <1>8, Zenon DEF SlotChain

(* reset_stream_ records reset_event of a number only when every earlier   *)
(* number of its slot has passed.                                          *)
LEMMA ChainReset ==
  ASSUME QueueInv, SlotChain, ResetStreamStep
  PROVE  SlotChain'
<1>. DEFINE head == reset_stream[1]
<1>1. /\ UNCHANGED <<passed, slot_user, sub_pc, work_seq_counter>>
      /\ reset_stream # <<>> /\ reset_stream' = Tail(reset_stream)
      /\ reset_stream \in Seq(ResetOp)
  BY DEF ResetStreamStep, submit_vars, QueueInv, Shapes, ResetOp
<1>2. /\ 1 \in 1 .. Len(reset_stream) /\ head \in ResetOp
      /\ head.after \in passed \cup {0} /\ reset_done' = reset_done \cup {head.seq}
      /\ \A i \in 1 .. Len(reset_stream') :
            i + 1 \in 1 .. Len(reset_stream) /\ reset_stream'[i] = reset_stream[i + 1]
  BY <1>1, Popped DEF ResetStreamStep
<1>3. \A i \in 1 .. Len(reset_stream') :
         /\ reset_stream'[i].after # 0 => Slot(reset_stream'[i].after) = Slot(reset_stream'[i].seq)
         /\ \A x \in Works : Slot(x) = Slot(reset_stream'[i].seq) /\ x < reset_stream'[i].seq
                                => x <= reset_stream'[i].after
  BY <1>2 DEF SlotChain
<1>4. ASSUME NEW x \in Works, Slot(x) = Slot(head.seq), x < head.seq
      PROVE  x \in passed
  <2>1. x <= head.after /\ x \in Nat \ {0} /\ head.after \in Nat
    BY <1>2, <1>4, SlotOfWork, SubmitAssumption DEF SlotChain, ResetOp
  <2>2. head.after \in passed /\ Slot(x) = Slot(head.after)
    BY <1>2, <1>4, <2>1 DEF SlotChain
  <2>3. CASE x = head.after
    BY <2>2, <2>3
  <2>4. CASE x < head.after
    BY <2>2, <2>4 DEF SlotChain
  <2>. QED BY <2>1, <2>3, <2>4
<1>5. \A y \in reset_done' \cup passed' : \A x \in Works : Slot(x) = Slot(y) /\ x < y => x \in passed'
  BY <1>1, <1>2, <1>4 DEF SlotChain
<1>6. \A s \in Slots :
         /\ slot_user'[s] # 0 => Slot(slot_user'[s]) = s
         /\ \A x \in Works : Slot(x) = s /\ Enqueued(x)' => x <= slot_user'[s]
  BY <1>1 DEF SlotChain, Enqueued
<1>. QED BY <1>3, <1>5, <1>6, Zenon DEF SlotChain

(* A stream passes a number only after the doorbell, and so after the      *)
(* earlier numbers of the slot.                                            *)
LEMMA ChainStream ==
  ASSUME QueueInv, BellThenWait, SlotChain, NEW u \in Users, Ring(u) \/ Pass(u)
  PROVE  SlotChain'
<1>. DEFINE this == streams[u][1]
<1>1. /\ UNCHANGED <<reset_stream, reset_done, slot_user, sub_pc, work_seq_counter>>
      /\ streams[u] # <<>> /\ streams' = [streams EXCEPT ![u] = Tail(@)]
  BY DEF Ring, Pass, submit_vars
<1>2. 1 \in 1 .. Len(streams[u]) /\ Head(streams[u]) = this /\ Len(streams[u]) \in Nat
  BY <1>1, StreamPopEffect DEF QueueInv
<1>3. ASSUME NEW y \in passed' PROVE y \in reset_done \cup passed
  <2>1. CASE Ring(u)
    BY <1>3, <2>1 DEF Ring
  <2>2. CASE Pass(u)
    <3>1. this.op = "wait" /\ passed' = passed \cup {this.seq}
      BY <1>2, <2>2 DEF Pass
    <3>2. ASSUME NEW j \in 1 .. Len(streams[u]),
                 streams[u][j].op = "ring", streams[u][j].seq = this.seq
          PROVE  FALSE
      <4>1. j < 1
        BY <1>2, <3>1, <3>2 DEF BellThenWait
      <4>. QED BY <1>2, <4>1
    <3>3. this.seq \in rung
      BY <1>2, <3>1, <3>2 DEF BellThenWait
    <3>. QED BY <1>3, <3>1, <3>3 DEF BellThenWait
  <2>. QED BY <2>1, <2>2
<1>4. passed \subseteq passed'
  BY DEF Ring, Pass
<1>5. \A y \in reset_done' \cup passed' : \A x \in Works : Slot(x) = Slot(y) /\ x < y => x \in passed'
  BY <1>1, <1>3, <1>4 DEF SlotChain
<1>6. \A s \in Slots :
         /\ slot_user'[s] # 0 => Slot(slot_user'[s]) = s
         /\ \A x \in Works : Slot(x) = s /\ Enqueued(x)' => x <= slot_user'[s]
  BY <1>1 DEF SlotChain, Enqueued
<1>. QED BY <1>1, <1>5, <1>6 DEF SlotChain

(* The items of a slot leave their streams one after the other. *)
LEMMA ChainStep ==
  ASSUME QueueInv, BellThenWait, SlotChain, [Next]_vars, ~ PrepareFails
  PROVE  SlotChain'
<1>1. CASE PrepareUserWait
  BY <1>1, ChainPrepare
<1>2. CASE ResetStreamStep
  BY <1>2, ChainReset
<1>3. ASSUME NEW u \in Users, Ring(u) \/ Pass(u) PROVE SlotChain'
  BY <1>3, ChainStream
<1>4. CASE /\ UNCHANGED <<reset_stream, reset_done, passed, slot_user>>
           /\ (\E u \in Users : Admit(u)) \/ Push \/ UNCHANGED <<sub_pc, work_seq_counter>>
  <2>1. \A x \in Works : Enqueued(x)' => Enqueued(x)
    <3>1. work_seq_counter \in Nat
      BY SubmitAssumption DEF QueueInv, TypeOK
    <3>. QED BY <1>4, <3>1, Numbers DEF Enqueued, Admit, Push
  <2>. QED BY <1>4, <2>1 DEF SlotChain
<1>. QED
  BY <1>1, <1>2, <1>3, <1>4
     DEF Next, SubmitStep, ExecutorStep, StreamStep, DrainStep, Admit, AdmitTimesOut, Push, PopWork,
         SeeDoorbell, GraphDone, SignalComplete, FinishWork, FailWork, ThreadExit,
         DrainCall, DrainReturn, DrainTimesOut, Stop, submit_vars, stream_vars, vars

(* Two numbers fewer than QueueDepth apart have different slots. *)
LEMMA SlotsApart ==
  ASSUME NEW x \in Works, NEW y \in Works, Slot(x) = Slot(y), x < y
  PROVE  x + QueueDepth <= y
<1>1. x - 1 \in Nat /\ y - 1 \in Nat /\ QueueDepth \in Nat \ {0} /\ x \in Nat /\ y \in Nat
  BY SubmitAssumption DEF Works
<1>2. ASSUME y < x + QueueDepth PROVE FALSE
  <2>1. x - 1 < y - 1 /\ y - 1 < (x - 1) + QueueDepth
    BY <1>1, <1>2
  <2>2. (y - 1) % QueueDepth # (x - 1) % QueueDepth
    BY <1>1, <2>1, SlotsDiffer
  <2>. QED BY <2>2 DEF Slot
<1>. QED BY <1>1, <1>2

(* The items under way, the one being submitted included, are fewer than   *)
(* QueueDepth apart.                                                       *)
LEMMA UnderWayClose ==
  ASSUME QueueInv, Dense, NEW seq \in Works, seq \notin ended
  PROVE  work_seq_counter < seq + QueueDepth
<1>. DEFINE b == IF busy THEN 1 ELSE 0
            c == IF Submitting THEN 1 ELSE 0
            s == IF Serving THEN 1 ELSE 0
<1>1. b + Len(queue) + c <= QueueDepth
  BY DEF QueueInv, PlaceForAll, Occupied
<1>2. s <= b /\ b \in Nat /\ s \in Nat /\ c \in Nat
  BY DEF QueueInv, Shapes
<1>3. LastEnded = work_seq_counter - c - Len(queue) - s /\ LastEnded < seq
  <2>1. LastEnded \in Int /\ seq \in Nat
    BY LastEndedParts, Numbers
  <2>. QED BY <2>1 DEF LastEnded, Dense
<1>. HIDE DEF b, c, s
<1>. QED BY <1>1, <1>2, <1>3, LastEndedParts, Numbers, SubmitAssumption

(* A doorbell that has been rung is wiped out neither by prepareUserWait   *)
(* of a later item, which has another slot while the item is under way,    *)
(* nor by the late doorbell of an earlier one of its slot, which has       *)
(* passed before this one was rung.                                        *)
LEMMA DoorbellStep ==
  ASSUME QueueInv, burned = {}, Dense, BellThenWait, SlotChain, DoorbellKept,
         [Next]_vars, ~ PrepareFails
  PROVE  DoorbellKept'
<1>1. ready_seq \in [Slots -> 0 .. MaxWork] /\ rung \subseteq Works
  BY DEF QueueInv, TypeOK, Shapes
<1>2. CASE PrepareUserWait
  <2>. DEFINE this == work_seq_counter
  <2>1. /\ UNCHANGED <<rung, ended>> /\ Submitting /\ sub_pc = "admitted" /\ Enqueue(2)
        /\ this \in Works
    BY <1>2 DEF PrepareUserWait, Submitting, QueueInv, Shapes
  <2>2. ready_seq' = [ready_seq EXCEPT ![Slot(this)] = 0]
    BY <2>1 DEF Enqueue
  <2>3. ASSUME NEW seq \in rung \ ended PROVE ready_seq'[Slot(seq)] = seq
    <3>1. seq \in Works /\ seq < this
      BY <1>1, <2>1 DEF BellThenWait, Enqueued
    <3>2. this < seq + QueueDepth
      BY <3>1, UnderWayClose
    <3>3. Slot(seq) # Slot(this)
      BY <2>1, <3>1, <3>2, SlotsApart, SubmitAssumption DEF Works
    <3>4. ready_seq[Slot(seq)] = seq
      BY DEF DoorbellKept
    <3>. QED BY <1>1, <2>2, <3>1, <3>3, <3>4, SlotOfWork
  <2>. QED BY <2>1, <2>3 DEF DoorbellKept
<1>3. ASSUME NEW u \in Users, Ring(u) PROVE DoorbellKept'
  <2>. DEFINE this == streams[u][1].seq
  <2>1. /\ ended' = ended /\ streams[u] # <<>> /\ streams' = [streams EXCEPT ![u] = Tail(@)]
    BY <1>3 DEF Ring
  <2>2. 1 \in 1 .. Len(streams[u]) /\ Head(streams[u]) = streams[u][1] /\ this \in Works
    BY <2>1, StreamPopEffect DEF QueueInv, UserOp
  <2>3. /\ streams[u][1].op = "ring" /\ rung' = rung \cup {this}
        /\ ready_seq' = [ready_seq EXCEPT ![Slot(this)] = this]
    BY <1>3, <2>2 DEF Ring
  <2>4. this \notin passed
    BY <2>2, <2>3 DEF BellThenWait
  <2>5. ASSUME NEW seq \in rung \ ended, seq # this PROVE Slot(seq) # Slot(this)
    <3>1. seq \in Works /\ seq \in reset_done /\ seq <= work_seq_counter
      BY <1>1, Numbers, SubmitAssumption DEF BellThenWait, Enqueued, QueueInv, TypeOK
    <3>2. ASSUME Slot(seq) = Slot(this), this < seq PROVE FALSE
      BY <2>2, <2>4, <3>1, <3>2 DEF SlotChain
    <3>3. ASSUME Slot(seq) = Slot(this), seq < this PROVE FALSE
      <4>1. this <= work_seq_counter
        BY <2>2, Numbers, SubmitAssumption, SMTT(30) DEF BellThenWait, Enqueued, QueueInv, TypeOK
      <4>2. work_seq_counter < seq + QueueDepth /\ seq + QueueDepth <= this
        BY <2>2, <3>1, <3>3, UnderWayClose, SlotsApart
      <4>3. work_seq_counter \in Nat /\ seq \in Nat /\ this \in Nat /\ QueueDepth \in Nat
        BY <2>2, <3>1, Numbers, SubmitAssumption DEF QueueInv, TypeOK
      <4>. HIDE DEF this
      <4>. QED BY <4>1, <4>2, <4>3
    <3>4. seq \in Nat /\ this \in Nat
      BY <2>2, <3>1, Numbers
    <3>. HIDE DEF this
    <3>. QED BY <2>5, <3>2, <3>3, <3>4
  <2>6. ASSUME NEW seq \in rung' \ ended PROVE ready_seq'[Slot(seq)] = seq
    <3>1. CASE seq = this
      BY <1>1, <2>2, <2>3, <3>1, SlotOfWork
    <3>2. CASE seq # this
      <4>1. seq \in rung \ ended /\ seq \in Works
        BY <1>1, <2>3, <2>6, <3>2
      <4>2. ready_seq[Slot(seq)] = seq /\ Slot(seq) # Slot(this) /\ Slot(seq) \in Slots
        BY <2>5, <3>2, <4>1, SlotOfWork DEF DoorbellKept
      <4>. HIDE DEF this
      <4>. QED BY <1>1, <2>3, <4>2
    <3>. QED BY <3>1, <3>2
  <2>. QED BY <2>1, <2>6 DEF DoorbellKept
<1>4. CASE UNCHANGED <<ready_seq, rung>> /\ ended \subseteq ended'
  BY <1>4 DEF DoorbellKept
<1>. QED
  BY <1>2, <1>3, <1>4
     DEF Next, SubmitStep, ExecutorStep, StreamStep, DrainStep, Admit, AdmitTimesOut, Push, PopWork,
         SeeDoorbell, GraphDone, SignalComplete, FinishWork, FailWork, ThreadExit, ResetStreamStep,
         Pass, DrainCall, DrainReturn, DrainTimesOut, Stop, stream_vars, vars

(* A submit call that has failed stays on record. *)
LEMMA BurnedStep == [Next]_vars /\ burned' = {} => burned = {} /\ ~ PrepareFails
BY DEF Next, SubmitStep, ExecutorStep, StreamStep, DrainStep, Admit, AdmitTimesOut, PrepareUserWait,
       PrepareFails, Push, PopWork, SeeDoorbell, GraphDone, SignalComplete, FinishWork, FailWork,
       ThreadExit, ResetStreamStep, Ring, Pass, DrainCall, DrainReturn, DrainTimesOut, Stop,
       submit_vars, vars

(* All slots are free and no doorbell has been rung at first. *)
LEMMA IInvInit == Init => IInv
<1>. SUFFICES ASSUME Init PROVE IInv
  OBVIOUS
<1>1. QueueInv
  BY QueueInit
<1>2. Dense
  <2>1. LastEnded = 0
    <3>1. ~ Submitting /\ ~ Serving /\ work_seq_counter = 0 /\ Len(queue) = 0
      BY DEF Init, Submitting, Serving
    <3>. QED BY <1>1, <3>1, LastEndedParts
  <2>. QED BY <2>1, Numbers, <1>1 DEF Init, Dense, Serving, Works
<1>3. BellThenWait /\ DoorbellKept
  BY DEF Init, BellThenWait, DoorbellKept
<1>4. SlotChain
  BY DEF Init, SlotChain, Enqueued, Works
<1>. QED BY <1>1, <1>2, <1>3, <1>4 DEF IInv, DoorbellInv

(* The whole invariant is inductive; a failed submit switches the part     *)
(* about doorbells off for good.                                           *)
LEMMA IInvStep == IInv /\ [Next]_vars => IInv'
<1>. SUFFICES ASSUME IInv, [Next]_vars PROVE IInv'
  OBVIOUS
<1>1. QueueInv'
  BY QueueStep DEF IInv
<1>2. ASSUME burned' = {} PROVE Dense' /\ BellThenWait' /\ SlotChain' /\ DoorbellKept'
  <2>1. burned = {} /\ ~ PrepareFails
    BY <1>2, BurnedStep
  <2>. QED BY <1>1, <2>1, DenseStep, BellStep, ChainStep, DoorbellStep DEF IInv, DoorbellInv
<1>. QED BY <1>1, <1>2 DEF IInv, DoorbellInv

(* The queue and the completion slots are never too few for the items that *)
(* submit lets in, and an item's doorbell stays until the executor has     *)
(* seen it.                                                                *)
THEOREM SlotsAreSafe == Spec => []SlotsKept
<1>1. IInv => SlotsKept
  BY DEF IInv, QueueInv, DoorbellInv, SlotsKept, DoorbellKept
<1>. QED BY <1>1, IInvInit, IInvStep, PTL DEF Spec

=============================================================================
