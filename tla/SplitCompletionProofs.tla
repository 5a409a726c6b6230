----------------------- MODULE SplitCompletionProofs -----------------------
(***************************************************************************)
(* Proofs about the end of a virtual collective of SplitCollective, for    *)
(* any programs of the host threads: what follows a collective, what its   *)
(* callback finds, and whose timers and buffers they are.                  *)
(*                                                                         *)
(* The end: the same order behind the PCIe part, by a token or by the end  *)
(* event of its timer, and so up to the callback; there are as many        *)
(* records as callbacks queued and threads between the two, so that the    *)
(* record a callback takes is of work that lies before it (Behind).        *)
(*                                                                         *)
(* The output: a collective that returns successfully has a part that ran  *)
(* (Partly), and its work lies before what uses the result.                *)
(*                                                                         *)
(* The timers: one thread at a time reports on a stream, because it is the *)
(* only one or because it has the lock of its context.                     *)
(*                                                                         *)
(* The buffers: a collective whose buffer was given back is Spent; what    *)
(* will be copied out of the pre-allocated one is Staged.                  *)
(***************************************************************************)
EXTENDS SplitCollectiveProofs

-----------------------------------------------------------------------------
(* The end of the PCIe part *)

(* Place j of stream s has an operation of collective c, of a kind in K;   *)
(* or no place of the stream has.                                          *)
At(s, j, c, K) == stream[s][j].coll = c /\ stream[s][j].kind \in K
Clear(s, c, K) == \A j \in 1 .. Len(stream[s]) : ~At(s, j, c, K)

(* The PCIe part of a collective is over, or not submitted; its timer      *)
(* ended; the application's stream will wait for it.                       *)
Over(c)    == Clear(PcieStream(c[1]), c, Parts)
Ended(c)   == "ended" \in happened[c]
Awaited(c) == ~Clear(Call(c).stream, c, Ways)
Settled(c) == Over(c) \/ Awaited(c)

(* The token that tells of its end is queued, with the ticket n. *)
DoneAt(s, j, c, n) == At(s, j, c, {"done"}) /\ stream[s][j].seq = n
DoneQueued(c, n)   == \E j \in 1 .. Len(stream[PcieStream(c[1])]) : DoneAt(PcieStream(c[1]), j, c, n)

(* What is queued at place j of stream s: a collective's only PCIe part,   *)
(* whose timer has not ended; a token behind the part, with a ticket above *)
(* those before it and above what is in the context's slots; a wait for a  *)
(* token that is queued, unless the part is over.                          *)
PartInv(s, j) ==
  stream[s][j].kind \in Parts =>
    ~Ended(stream[s][j].coll) /\ \A i \in 1 .. Len(stream[s]) : At(s, i, stream[s][j].coll, Parts) => i = j
DoneInv(s, j) ==
  stream[s][j].kind = "done" => \A i \in 1 .. Len(stream[s]) : At(s, i, stream[s][j].coll, Parts) => i < j
DoneTicketInv(s, j) ==
  stream[s][j].kind = "done" =>
    /\ stream[s][j].seq < sequence[stream[s][j].ctx]
    /\ \A k \in Slots : token[stream[s][j].ctx].done[k] < stream[s][j].seq
    /\ \A i \in 1 .. j - 1 : stream[s][i].kind = "done" /\ stream[s][i].ctx = stream[s][j].ctx =>
                               stream[s][i].seq < stream[s][j].seq
DoneWaitInv(s, j) ==
  stream[s][j].kind = "wait_done" => Over(stream[s][j].coll) \/ DoneQueued(stream[s][j].coll, stream[s][j].seq)
EndInv(s, j) == PartInv(s, j) /\ DoneInv(s, j) /\ DoneTicketInv(s, j) /\ DoneWaitInv(s, j)

EndsInv       == \A s \in Streams : \A j \in 1 .. Len(stream[s]) : EndInv(s, j)
DoneTokensInv == \A x \in Contexts : \A k \in Slots : token[x].done[k] < sequence[x]

(* No such token of context x with the ticket n is queued or written. *)
UnusedDone(x, n) ==
  /\ \A s \in Streams : \A j \in 1 .. Len(stream[s]) :
       stream[s][j].kind = "done" /\ stream[s][j].ctx = x => stream[s][j].seq < n
  /\ \A k \in Slots : token[x].done[k] < n

(* The collective was begun: what is queued is of such collectives. *)
Made(c) == c[2] < index[c[1]] \/ (c[2] = index[c[1]] /\ ~Calling(todo[c[1]]))
MadeInv ==
  /\ \A s \in Streams : \A j \in 1 .. Len(stream[s]) : Made(stream[s][j].coll)
  /\ \A c \in Colls : ~Made(c) => ~Ended(c)

(* A thread with the steps w left in collective c, on context x and with   *)
(* the ticket n                                                            *)
Unawaited == Parts \cup {"done"}
Ending(w, c, x, n) ==
  /\ Has(w, "pcie") => ~Ended(c) /\ Clear(PcieStream(c[1]), c, Unawaited) /\ ~Awaited(c)
  /\ Calling(w) \/ Settled(c) \/ \E step \in {"pcie", "write_done", "wait_done", "event"} : Has(w, step)
  /\ Has(w, "write_done") => n = NoTicket \/ UnusedDone(x, n)
  /\ Has(w, "wait_done") => Has(w, "write_done") \/ Over(c) \/ (~Has(w, "begin") /\ DoneQueued(c, n))
EndingInv(t) == Script(todo[t]) /\ Ending(todo[t], Current(t), Ctx(t), ticket[t])

OverInv == MadeInv /\ DoneTokensInv /\ EndsInv /\ \A t \in Threads : EndingInv(t)

-----------------------------------------------------------------------------
(* What a step of a host thread leaves of it *)

(* The streams before and after: what was queued is where it was, what is  *)
(* new is of the thread.                                                   *)
LEMMA QueuedPlaces ==
  ASSUME Types, Types', program' = program, NEW t \in Threads, NEW K, Extended(t, K), NEW s \in Streams
  PROVE  /\ Len(stream[s]) \in Nat /\ Len(stream'[s]) \in Nat /\ Len(stream[s]) <= Len(stream'[s])
         /\ \A j \in 1 .. Len(stream[s]) : j \in 1 .. Len(stream'[s]) /\ stream'[s][j] = stream[s][j]
         /\ \A j \in 1 .. Len(stream'[s]) :
              \/ j \in 1 .. Len(stream[s])
              \/ /\ j > Len(stream[s]) /\ stream'[s][j].kind \in K /\ stream'[s][j].coll = Current(t)
                 /\ stream'[s][j].ctx = Ctx(t) /\ stream'[s][j].seq = ticket[t] /\ stream'[s][j].buf = buffer[t]
         /\ \A j \in 1 .. Len(stream'[s]) : stream'[s][j] \in ItemsOf(s)
<1>1. Len(stream[s]) \in Nat /\ Len(stream'[s]) \in Nat /\ Len(stream[s]) <= Len(stream'[s])
      /\ \A j \in 1 .. Len(stream'[s]) : stream'[s][j] \in ItemsOf(s)
  BY StreamLengths, NextLengths DEF Types, Extended
<1>2. \A j \in 1 .. Len(stream[s]) : j \in 1 .. Len(stream'[s]) /\ stream'[s][j] = stream[s][j]
  BY <1>1 DEF Extended
<1>3. ASSUME NEW j \in 1 .. Len(stream'[s]), j \notin 1 .. Len(stream[s])
      PROVE  /\ j > Len(stream[s]) /\ stream'[s][j].kind \in K /\ stream'[s][j].coll = Current(t)
             /\ stream'[s][j].ctx = Ctx(t) /\ stream'[s][j].seq = ticket[t] /\ stream'[s][j].buf = buffer[t]
  <2>1. j > Len(stream[s]) /\ j \in Len(stream[s]) + 1 .. Len(stream'[s])
    BY <1>1, <1>3
  <2>2. PICK kind \in K : stream'[s][j] = item(kind, t)
    BY <2>1 DEF Extended
  <2>. QED BY <2>1, <2>2 DEF item
<1>. QED BY <1>1, <1>2, <1>3

(* What the streams say of a collective that is not the thread's, and of   *)
(* kinds that it does not queue, stays; what is queued stays.              *)
LEMMA ClearStays ==
  ASSUME Types, Types', program' = program, happened' = happened, NEW t \in Threads, NEW K, Extended(t, K), NEW c \in Colls
  PROVE  /\ \A s \in Streams : \A J : (c # Current(t) \/ J \cap K = {}) /\ Clear(s, c, J) => Clear(s, c, J)'
         /\ \A s \in Streams : \A J : ~Clear(s, c, J) => ~Clear(s, c, J)'
         /\ \A n : DoneQueued(c, n) => DoneQueued(c, n)'
         /\ (Ended(c)' <=> Ended(c)) /\ Call(c)' = Call(c) /\ PcieStream(c[1])' = PcieStream(c[1])
         /\ Call(c).stream \in Streams /\ PcieStream(c[1]) \in Streams
<1>1. Call(c)' = Call(c) /\ PcieStream(c[1])' = PcieStream(c[1]) /\ (Ended(c)' <=> Ended(c))
  BY DEF Call, PcieStream, Ended
<1>2. Call(c).stream \in Streams /\ PcieStream(c[1]) \in Streams
  BY CollFacts DEF Types, ThreadTypes
<1>3. ASSUME NEW s \in Streams, NEW J, c # Current(t) \/ J \cap K = {}, Clear(s, c, J)
      PROVE  Clear(s, c, J)'
  <2>. SUFFICES ASSUME NEW j \in 1 .. Len(stream'[s]), stream'[s][j].coll = c, stream'[s][j].kind \in J PROVE FALSE
    BY DEF Clear, At
  <2>. QED BY <1>3, QueuedPlaces DEF Clear, At
<1>4. ASSUME NEW s \in Streams, NEW J, ~Clear(s, c, J) PROVE ~Clear(s, c, J)'
  BY <1>4, QueuedPlaces DEF Clear, At
<1>5. ASSUME NEW n, DoneQueued(c, n) PROVE DoneQueued(c, n)'
  BY <1>1, <1>2, <1>5, QueuedPlaces DEF DoneQueued, DoneAt, At
<1>. QED BY <1>1, <1>2, <1>3, <1>4, <1>5

(* The same, said of the end of a collective. *)
LEMMA EndStays ==
  ASSUME Types, Types', program' = program, happened' = happened, NEW t \in Threads, NEW K, Extended(t, K), NEW c \in Colls
  PROVE  /\ (c # Current(t) \/ Parts \cap K = {}) /\ Over(c) => Over(c)'
         /\ (c # Current(t) \/ Ways \cap K = {}) /\ ~Awaited(c) => ~Awaited(c)'
         /\ (c # Current(t) \/ Unawaited \cap K = {}) /\ Clear(PcieStream(c[1]), c, Unawaited) =>
              Clear(PcieStream(c[1]), c, Unawaited)'
         /\ (Awaited(c) => Awaited(c)') /\ (Ended(c)' <=> Ended(c))
         /\ \A n : DoneQueued(c, n) => DoneQueued(c, n)'
<1>1. /\ \A s \in Streams : \A J : (c # Current(t) \/ J \cap K = {}) /\ Clear(s, c, J) => Clear(s, c, J)'
      /\ \A s \in Streams : \A J : ~Clear(s, c, J) => ~Clear(s, c, J)'
      /\ \A n : DoneQueued(c, n) => DoneQueued(c, n)'
      /\ (Ended(c)' <=> Ended(c)) /\ Call(c)' = Call(c) /\ PcieStream(c[1])' = PcieStream(c[1])
      /\ Call(c).stream \in Streams /\ PcieStream(c[1]) \in Streams
  BY ClearStays
<1>2. Parts' = Parts /\ Ways' = Ways /\ Unawaited' = Unawaited
  BY DEF Parts, Ways, Unawaited
<1>3. (c # Current(t) \/ Parts \cap K = {}) /\ Over(c) => Over(c)'
  BY <1>1, <1>2 DEF Over, Clear, At
<1>4. (c # Current(t) \/ Ways \cap K = {}) /\ ~Awaited(c) => ~Awaited(c)'
  BY <1>1, <1>2 DEF Awaited, Clear, At
<1>5. (c # Current(t) \/ Unawaited \cap K = {}) /\ Clear(PcieStream(c[1]), c, Unawaited) =>
        Clear(PcieStream(c[1]), c, Unawaited)'
  BY <1>1, <1>2 DEF Clear, At
<1>6. Awaited(c) => Awaited(c)'
  BY <1>1, <1>2 DEF Awaited, Clear, At
<1>. QED BY <1>1, <1>3, <1>4, <1>5, <1>6

-----------------------------------------------------------------------------
(* Collectives that were begun *)

(* A thread is done with the collectives before its current one, and at    *)
(* its current one once it has begun it.                                   *)
LEMMA MadeGrows ==
  ASSUME Types, Types', \A q \in Threads : ThreadInv(q), NEW t \in Threads, HostEffect(t), NEW c \in Colls,
         Made(c) \/ c = Current(t)
  PROVE  Made(c)'
<1>0. ThreadTypes /\ c[1] \in Threads /\ c[2] = c[2]
  BY CollFacts DEF Types, ThreadTypes
<1>1. PICK w \in Seq(StepNames) : w = todo[t] /\ w # <<>>
  BY <1>0 DEF HostEffect, ThreadTypes
<1>2. /\ \A q \in Threads : index[q] \in Nat
      /\ \A q \in Threads : q # t => todo'[q] = todo[q] /\ index'[q] = index[q]
  BY <1>0 DEF HostEffect, HostShape, ThreadTypes
<1>3. CASE c[1] # t
  <2>1. Made(c)
    BY <1>0, <1>3, CurrentFacts
  <2>. QED BY <1>0, <1>2, <1>3, <2>1 DEF Made, Calling
<1>4. CASE c[1] = t
  <2>0. c[2] \in Nat /\ c[2] <= index[t]
    <3>1. CASE Made(c)
      <4>1. program.calls[t] \in Seq({program.calls[t][i] : i \in DOMAIN program.calls[t]})
        BY <1>0, CollectiveAssumption DEF ThreadTypes, Threads
      <4>2. DOMAIN program.calls[t] = 1 .. Len(program.calls[t]) /\ Len(program.calls[t]) \in Nat
        BY <4>1
      <4>3. c[2] \in Nat
        BY <1>0, <1>4, <4>2, CollFacts DEF ThreadTypes
      <4>. QED BY <1>2, <1>4, <3>1, <4>3 DEF Made
    <3>2. CASE c = Current(t)
      BY <1>0, <1>2, <3>2, CurrentFacts
    <3>. QED BY <3>1, <3>2
  <2>1. CASE GoesOn(t, w)
    <3>1. index'[t] = index[t] + 1
      BY <1>0, <2>1 DEF GoesOn, ThreadTypes
    <3>. QED BY <1>2, <1>4, <2>0, <3>1 DEF Made
  <2>2. CASE index' = index /\ ~Calling(todo'[t])
    BY <1>2, <1>4, <2>0, <2>2 DEF Made, Calling
  <2>3. ~GoesOn(t, w) => index' = index
    BY <1>1 DEF HostEffect, Moves, Advance, FallsBack, CutsShort, StartsCall, Keeps
  <2>4. ~GoesOn(t, w) => ~Calling(todo'[t])
    <3>1. CASE Advance(t, w)
      <4>1. todo'[t] = Tail(w) /\ Head(w) # "call"
        BY <1>0, <1>1, <3>1 DEF Advance, next, ThreadTypes
      <4>2. InOrder(w) /\ (Has(w, "call") => Calling(w))
        BY <1>1 DEF ThreadInv, Between
      <4>3. ~Has(Tail(w), "call") /\ Tail(w) \in Seq(StepNames)
        BY <1>1, <4>1, <4>2, TailInOrder DEF Calling
      <4>4. Tail(w) # <<>> => Has(Tail(w), Head(Tail(w)))
        <5>1. PICK v \in Seq(StepNames) : v = Tail(w)
          BY <4>3
        <5>2. v # <<>> => 1 \in 1 .. Len(v) /\ v[1] = Head(v)
          OBVIOUS
        <5>. QED BY <5>1, <5>2 DEF Has
      <4>. QED BY <4>1, <4>3, <4>4 DEF Calling
    <3>2. CASE FallsBack(t, w)
      <4>1. PICK step, k : Fallback(w, step, k) /\ Instead(t, step, k)
        BY <3>2 DEF FallsBack
      <4>2. step \in {"sync_user", "event"} /\ todo'[t] = <<step>> \o SubSeq(w, 1 + k, Len(w)) /\ k \in {1, 2}
        BY <1>0, <1>1, <4>1 DEF Fallback, Instead, ThreadTypes
      <4>3. SubSeq(w, 1 + k, Len(w)) \in Seq(StepNames)
        BY <4>2
      <4>4. PICK r \in Seq(StepNames) : r = SubSeq(w, 1 + k, Len(w))
        BY <4>3
      <4>5. Head(<<step>> \o r) = step
        BY <4>2, <4>4
      <4>. QED BY <4>2, <4>4, <4>5 DEF Calling
    <3>3. CASE CutsShort(t, w)
      <4>1. todo'[t] \in {<<"fast">> \o Notify \o <<"return">>, <<"return">>}
        BY <1>0, <3>3 DEF CutsShort, ThreadTypes
      <4>2. ~Has(todo'[t], "call") /\ todo'[t] \in Seq(StepNames)
        <5>1. ~Has(todo'[t], "call")
          BY <4>1, ShortScripts DEF Landmarks
        <5>. QED BY <5>1 DEF Types, ThreadTypes, HostEffect, HostShape, Threads
      <4>3. PICK v \in Seq(StepNames) : v = todo'[t]
        BY <4>2
      <4>4. v # <<>> => Has(v, Head(v))
        <5>1. v # <<>> => 1 \in 1 .. Len(v) /\ v[1] = Head(v)
          OBVIOUS
        <5>. QED BY <5>1 DEF Has
      <4>. QED BY <4>2, <4>3, <4>4 DEF Calling
    <3>4. CASE StartsCall(t, w)
      <4>1. Call(Current(t)).op \in {"AllReduce", "AllGather", "ReduceScatter", "AllToAll"}
        BY <1>0, CurrentFacts, CollFacts DEF ThreadTypes
      <4>2. PICK v : v = StepsOf(Call(Current(t)).op, LaunchPlan(Current(t))) \o <<"return">>
        OBVIOUS
      <4>3. ~Has(v, "call") /\ v \in Seq(StepNames) /\ todo'[t] = v
        <5>1. Publishes(v)
          BY <4>1, <4>2, ScriptInOrder
        <5>2. v \in Seq(StepNames)
          BY <4>1, <4>2, WholeScript DEF Starts
        <5>3. todo'[t] = v
          BY <1>0, <3>4, <4>2 DEF StartsCall, ThreadTypes
        <5>. QED BY <5>1, <5>2, <5>3 DEF Publishes
      <4>4. v # <<>> => Has(v, Head(v))
        <5>1. v # <<>> => 1 \in 1 .. Len(v) /\ v[1] = Head(v)
          BY <4>3
        <5>. QED BY <5>1 DEF Has
      <4>. QED BY <4>3, <4>4 DEF Calling
    <3>. QED BY <1>1, <3>1, <3>2, <3>3, <3>4 DEF HostEffect, Moves
  <2>. QED BY <2>1, <2>2, <2>3, <2>4
<1>. QED BY <1>3, <1>4

(* What is queued or has ended is still of a collective that was begun. *)
LEMMA MadeStays ==
  ASSUME Types, Types', \A q \in Threads : ThreadInv(q), NEW t \in Threads, HostEffect(t), MadeInv
  PROVE  MadeInv'
<1>0. ThreadTypes /\ program' = program /\ happened' = happened /\ Extended(t, QueuedBy(Head(todo[t])))
  BY DEF Types, HostEffect, HostShape
<1>1. SameProgram
  BY <1>0, ProgramStays
<1>2. PICK c \in Colls : c = Current(t)
  BY <1>0, CurrentFacts
<1>3. Made(c)' /\ \A d \in Colls : Made(d) => Made(d)'
  BY <1>2, MadeGrows
<1>4. ASSUME NEW s \in Streams, NEW j \in 1 .. Len(stream'[s]) PROVE Made(stream[s][j].coll)'
  <2>1. PICK d \in Colls : d = stream'[s][j].coll
    <3>1. stream'[s][j] \in ItemsOf(s)
      BY <1>0, QueuedPlaces
    <3>. QED BY <3>1 DEF ItemsOf, Items
  <2>2. Made(d) \/ d = c
    BY <1>0, <1>2, <2>1, QueuedPlaces DEF MadeInv
  <2>3. Made(d)'
    BY <1>3, <2>2
  <2>. QED BY <2>1, <2>3 DEF Made
<1>5. ASSUME NEW d \in Colls, ~Made(d)' PROVE ~Ended(d)'
  BY <1>0, <1>3, <1>5 DEF MadeInv, Ended
<1>. QED BY <1>1, <1>4, <1>5 DEF MadeInv, SameProgram

-----------------------------------------------------------------------------
(* What a host thread queues behind its PCIe part *)

(* What the thread knows of its collective when it takes a step with the   *)
(* name h *)
LEMMA StepFacts ==
  ASSUME Types, InputInv, NEW t \in Threads, todo[t] # <<>>, EndingInv(t), NEW h, h = Head(todo[t])
  PROVE  LET c == Current(t)
         IN /\ todo[t] \in Seq(StepNames) /\ InOrder(todo[t]) /\ Has(todo[t], h) /\ h \in StepNames
            /\ h = "pcie" => ~Ended(c) /\ Clear(PcieStream(c[1]), c, Unawaited) /\ ~Awaited(c)
            /\ h = "write_done" => ticket[t] = NoTicket \/ UnusedDone(Ctx(t), ticket[t])
            /\ h = "wait_done" => Over(c) \/ DoneQueued(c, ticket[t])
<1>1. todo[t] \in Seq(StepNames) /\ InOrder(todo[t])
  BY DEF Types, ThreadTypes, InputInv, ThreadInv, Between
<1>2. /\ Has(todo[t], h) /\ h \in StepNames
      /\ \A step : Has(todo[t], step) /\ step # h /\ Rank(h) # 0 /\ Rank(step) # 0 => Rank(h) < Rank(step)
  BY <1>1, HeadFirst DEF Has
<1>3. h = "wait_done" => ~Has(todo[t], "write_done")
  BY <1>2, RankValues
<1>. QED BY <1>1, <1>2, <1>3 DEF EndingInv, Ending

(* The kinds that matter are queued by the steps of their names. *)
LEMMA QueuedKinds ==
  ASSUME NEW h \in StepNames, NEW kind \in QueuedBy(h)
  PROVE  /\ kind \in Parts => h = "pcie"
         /\ kind = "done" => h = "write_done"
         /\ kind = "wait_done" => h = "wait_done"
         /\ kind = "wait_event" => h = "event"
BY DEF QueuedBy, Parts, StepNames

(* A step that queues such an operation queues no other. *)
LEMMA QueuesOne ==
  ASSUME Types, Types', InputInv, NEW t \in Threads, HostEffect(t), NEW s \in Streams,
         NEW j \in 1 .. Len(stream'[s]), j \notin 1 .. Len(stream[s]),
         stream'[s][j].kind \in Unawaited \cup Ways
  PROVE  j = Len(stream'[s]) /\ j = Len(stream[s]) + 1 /\ (stream'[s][j].kind = "done" => Granted(t))
         /\ stream' # stream
<1>0. program' = program /\ Extended(t, QueuedBy(Head(todo[t]))) /\ todo[t] # <<>> /\ todo[t] \in Seq(StepNames)
  BY DEF HostEffect, HostShape, Types, ThreadTypes
<1>1. PICK h \in StepNames : h = Head(todo[t])
  BY <1>0
<1>2. /\ Len(stream[s]) \in Nat /\ Len(stream'[s]) \in Nat
      /\ j > Len(stream[s]) /\ stream'[s][j].kind \in QueuedBy(h) /\ stream'[s][j].coll = Current(t)
      /\ stream'[s][j] \in ItemsOf(s)
  BY <1>0, <1>1, QueuedPlaces
<1>3. h \in {"pcie", "write_done", "wait_done", "event"} /\ (stream'[s][j].kind = "done" => h = "write_done")
  BY <1>2, QueuedKinds DEF Unawaited, Ways
<1>4. stream' # stream
  BY <1>2
<1>5. Advance(t, todo[t])
  BY <1>1, <1>3, <1>4 DEF HostEffect, Moves, FallsBack, CutsShort, StartsCall, GoesOn
<1>6. PICK kind \in QueuedBy(h) : Adds(t, kind)
  BY <1>1, <1>3, <1>5 DEF Advance
<1>7. kind \in PcieKinds <=> stream'[s][j].kind \in PcieKinds
  BY <1>2, <1>3, <1>6 DEF QueuedBy, PcieKinds, Parts
<1>8. s = IF kind \in PcieKinds THEN PcieStream(t) ELSE Stream(t)
  <2>1. s = Place(stream'[s][j]) /\ Current(t)[1] = t /\ Stream(t) = Call(Current(t)).stream
    BY <1>2, CurrentFacts DEF ItemsOf, Types
  <2>. QED BY <1>2, <1>7, <2>1 DEF Place
<1>9. Len(stream'[s]) = Len(stream[s]) + 1
  BY <1>6, <1>8 DEF Adds
<1>10. stream'[s][j].kind = "done" => Granted(t)
  BY <1>1, <1>3, <1>5 DEF Advance
<1>. QED BY <1>2, <1>4, <1>9, <1>10

(* The variables of the other threads, and the tickets of the contexts *)
LEMMA HostFrame ==
  ASSUME Types, Types', NEW t \in Threads, HostEffect(t)
  PROVE  /\ program' = program /\ SameProgram /\ UNCHANGED <<happened, token>> /\ Extended(t, QueuedBy(Head(todo[t])))
         /\ Keeps(t) \/ (Takes(t) /\ Head(todo[t]) = "begin") \/ GivesBack(t)
         /\ \A q \in Threads : q # t => /\ todo'[q] = todo[q] /\ ticket'[q] = ticket[q] /\ Current(q)' = Current(q)
                                        /\ Ctx(q)' = Ctx(q) /\ Stream(q)' = Stream(q)
         /\ \A x \in Contexts : sequence[x] <= sequence'[x] /\ sequence[x] \in Nat
<1>0. /\ program' = program /\ ThreadTypes /\ SyncTypes /\ StreamTypes /\ StreamTypes' /\ Ctx(t) \in Contexts
      /\ UNCHANGED <<happened, token>> /\ Extended(t, QueuedBy(Head(todo[t]))) /\ HostShape(t)
  BY CurrentFacts DEF HostEffect, HostShape, Types
<1>1. SameProgram
  BY <1>0, ProgramStays
<1>2. Keeps(t) \/ (Takes(t) /\ Head(todo[t]) = "begin") \/ GivesBack(t)
  BY DEF HostEffect, Moves, Advance, FallsBack, CutsShort, StartsCall, GoesOn
<1>3. ASSUME NEW q \in Threads, q # t
      PROVE  /\ todo'[q] = todo[q] /\ ticket'[q] = ticket[q] /\ Current(q)' = Current(q)
             /\ Ctx(q)' = Ctx(q) /\ Stream(q)' = Stream(q)
  <2>1. todo'[q] = todo[q] /\ ticket'[q] = ticket[q] /\ index'[q] = index[q]
    BY <1>0, <1>3 DEF HostShape, ThreadTypes
  <2>. QED BY <1>0, <2>1 DEF Current, Ctx, Stream, Call
<1>4. ASSUME NEW x \in Contexts
      PROVE  sequence[x] <= sequence'[x] /\ sequence[x] \in Nat
  <2>1. sequence' = sequence \/ sequence' = [sequence EXCEPT ![Ctx(t)] = @ + 1]
    BY <1>2 DEF Keeps, Takes, GivesBack
  <2>. QED BY <1>0, <2>1 DEF SyncTypes
<1>. QED BY <1>0, <1>1, <1>2, <1>3, <1>4

(* What is queued at the end of a PCIe part stays in order. *)
LEMMA EndsStay ==
  ASSUME Types, Types', InputInv, OverInv, NEW t \in Threads, HostEffect(t)
  PROVE  EndsInv'
<1>0. /\ program' = program /\ SameProgram /\ UNCHANGED <<happened, token>> /\ Extended(t, QueuedBy(Head(todo[t])))
      /\ todo[t] # <<>> /\ ThreadTypes /\ StreamTypes /\ SyncTypes /\ EndingInv(t) /\ DeviceTypes
      /\ \A x \in Contexts : sequence[x] <= sequence'[x] /\ sequence[x] \in Nat
  BY HostFrame DEF HostEffect, Types, OverInv, InputInv
<1>1. PICK c \in Colls, n \in Nat, x \in Contexts : c = Current(t) /\ n = ticket[t] /\ x = Ctx(t)
  BY <1>0, CurrentFacts DEF ThreadTypes
<1>2. PICK h \in StepNames : h = Head(todo[t])
  BY <1>0 DEF ThreadTypes
<1>3. /\ h = "pcie" => ~Ended(c) /\ Clear(PcieStream(c[1]), c, Unawaited) /\ ~Awaited(c)
      /\ h = "write_done" => n = NoTicket \/ UnusedDone(x, n)
      /\ h = "wait_done" => Over(c) \/ DoneQueued(c, n)
  BY <1>0, <1>1, <1>2, StepFacts
<1>. SUFFICES ASSUME NEW s \in Streams, NEW j \in 1 .. Len(stream'[s]) PROVE EndInv(s, j)'
  BY <1>0 DEF EndsInv, SameProgram
<1>4. PICK o \in ItemsOf(s) : o = stream'[s][j]
  BY <1>0, QueuedPlaces
<1>5. PICK d \in Colls, y \in Contexts, m \in Nat, k \in Kinds : d = o.coll /\ y = o.ctx /\ m = o.seq /\ k = o.kind
  BY <1>4 DEF ItemsOf, Items
<1>6. /\ k \in Unawaited => s = PcieStream(d[1])
      /\ k \in Ways => s = Call(d).stream
  BY <1>4, <1>5 DEF ItemsOf, Place, PcieKinds, Unawaited, Parts, Ways
<1>7. Call(d)' = Call(d) /\ PcieStream(d[1])' = PcieStream(d[1]) /\ (Ended(d)' <=> Ended(d))
  BY <1>0, ClearStays
<1>8. /\ Len(stream[s]) \in Nat /\ Len(stream'[s]) \in Nat /\ Len(stream[s]) <= Len(stream'[s])
      /\ \A i \in 1 .. Len(stream[s]) : i \in 1 .. Len(stream'[s]) /\ stream'[s][i] = stream[s][i]
      /\ \A i \in 1 .. Len(stream'[s]) :
           \/ i \in 1 .. Len(stream[s])
           \/ i > Len(stream[s]) /\ stream'[s][i].kind \in QueuedBy(h) /\ stream'[s][i].coll = c
              /\ stream'[s][i].ctx = x /\ stream'[s][i].seq = n
  BY <1>0, <1>1, <1>2, QueuedPlaces
<1>9. \A i \in 1 .. Len(stream'[s]) : i \notin 1 .. Len(stream[s]) =>
        /\ stream'[s][i].kind \in Parts => h = "pcie"
        /\ stream'[s][i].kind = "done" => h = "write_done"
        /\ stream'[s][i].kind = "wait_done" => h = "wait_done"
  BY <1>8, QueuedKinds
<1>10. \A i \in 1 .. Len(stream'[s]) : i \notin 1 .. Len(stream[s]) /\ stream'[s][i].kind \in Unawaited \cup Ways =>
         i = Len(stream[s]) + 1 /\ (stream'[s][i].kind = "done" => Granted(t))
  BY QueuesOne
<1>11. \A i \in 1 .. Len(stream'[s]) : i \notin 1 .. Len(stream[s]) /\ At(s, i, d, Parts)' /\ k \in Unawaited =>
         ~(j \in 1 .. Len(stream[s]))
  <2>. SUFFICES ASSUME NEW i \in 1 .. Len(stream'[s]), i \notin 1 .. Len(stream[s]), stream'[s][i].coll = d,
                       stream'[s][i].kind \in Parts, k \in Unawaited, j \in 1 .. Len(stream[s])
                PROVE  FALSE
    BY DEF At, Parts
  <2>1. h = "pcie" /\ d = c
    BY <1>8, <1>9
  <2>2. Clear(s, d, Unawaited)
    BY <1>3, <1>6, <2>1
  <2>3. stream[s][j].coll = d /\ stream[s][j].kind = k
    BY <1>4, <1>5, <1>8
  <2>. QED BY <2>2, <2>3 DEF Clear, At
<1>12. CASE j \in 1 .. Len(stream[s])
  <2>1. stream[s][j] = o /\ PartInv(s, j) /\ DoneInv(s, j) /\ DoneTicketInv(s, j) /\ DoneWaitInv(s, j)
    BY <1>4, <1>8, <1>12 DEF OverInv, EndsInv, EndInv
  <2>2. \A i \in 1 .. Len(stream'[s]) : At(s, i, d, Parts)' /\ k \in Unawaited => i \in 1 .. Len(stream[s]) /\ At(s, i, d, Parts)
    <3>. TAKE i \in 1 .. Len(stream'[s])
    <3>. HAVE At(s, i, d, Parts)' /\ k \in Unawaited
    <3>1. i \in 1 .. Len(stream[s])
      BY <1>11, <1>12
    <3>. QED BY <1>8, <3>1 DEF At, Parts
  <2>3. PartInv(s, j)'
    <3>. SUFFICES ASSUME k \in Parts
                  PROVE  ~Ended(d)' /\ \A i \in 1 .. Len(stream'[s]) : At(s, i, d, Parts)' => i = j
      BY <1>4, <1>5 DEF PartInv, At, Parts, Ended
    <3>1. k \in Unawaited
      BY DEF Unawaited
    <3>. QED BY <1>5, <1>7, <2>1, <2>2, <3>1 DEF PartInv
  <2>4. DoneInv(s, j)'
    <3>. SUFFICES ASSUME k = "done"
                  PROVE  \A i \in 1 .. Len(stream'[s]) : At(s, i, d, Parts)' => i < j
      BY <1>4, <1>5 DEF DoneInv, At, Parts
    <3>1. k \in Unawaited
      BY DEF Unawaited
    <3>. QED BY <1>5, <2>1, <2>2, <3>1 DEF DoneInv
  <2>5. DoneTicketInv(s, j)'
    <3>. SUFFICES ASSUME k = "done"
                  PROVE  /\ m < sequence'[y]
                         /\ \A i \in Slots : token[y].done[i] < m
                         /\ \A i \in 1 .. j - 1 : stream'[s][i].kind = "done" /\ stream'[s][i].ctx = y =>
                                                    stream'[s][i].seq < m
      BY <1>0, <1>4, <1>5 DEF DoneTicketInv, Slots
    <3>1. /\ m < sequence[y]
          /\ \A i \in Slots : token[y].done[i] < m
          /\ \A i \in 1 .. j - 1 : stream[s][i].kind = "done" /\ stream[s][i].ctx = y => stream[s][i].seq < m
      BY <1>5, <2>1 DEF DoneTicketInv
    <3>2. sequence'[y] \in Nat /\ sequence[y] \in Nat /\ sequence[y] <= sequence'[y]
      <4>1. SyncTypes'
        BY DEF Types
      <4>. QED BY <1>0, <4>1 DEF SyncTypes, SameProgram
    <3>3. m < sequence'[y]
      BY <3>1, <3>2
    <3>4. \A i \in 1 .. j - 1 : i \in 1 .. Len(stream[s])
      BY <1>8, <1>12
    <3>. QED BY <1>8, <3>1, <3>3, <3>4
  <2>6. DoneWaitInv(s, j)'
    <3>. SUFFICES ASSUME k = "wait_done" PROVE Over(d)' \/ DoneQueued(d, m)'
      BY <1>4, <1>5 DEF DoneWaitInv, Over, Clear, At, DoneQueued, DoneAt, PcieStream
    <3>1. Over(d) \/ DoneQueued(d, m)
      BY <1>5, <2>1 DEF DoneWaitInv
    <3>2. DoneQueued(d, m) => DoneQueued(d, m)'
      BY <1>0, EndStays
    <3>3. d # c \/ Parts \cap QueuedBy(h) = {}
      <4>. SUFFICES ASSUME d = c, NEW kind \in Parts \cap QueuedBy(h) PROVE FALSE
        OBVIOUS
      <4>1. h = "pcie"
        BY QueuedKinds
      <4>2. Clear(s, d, Ways)
        BY <1>3, <1>6, <4>1 DEF Awaited, Ways
      <4>. QED BY <1>5, <1>12, <2>1, <4>2 DEF Clear, At, Ways
    <3>4. Over(d) => Over(d)'
      BY <1>0, <1>1, <1>2, <3>3, EndStays
    <3>. QED BY <3>1, <3>2, <3>4
  <2>. QED BY <2>3, <2>4, <2>5, <2>6 DEF EndInv
<1>13. CASE j \notin 1 .. Len(stream[s])
  <2>1. j > Len(stream[s]) /\ d = c /\ y = x /\ m = n /\ k \in QueuedBy(h)
        /\ (k \in Parts => h = "pcie") /\ (k = "done" => h = "write_done") /\ (k = "wait_done" => h = "wait_done")
        /\ (k \in Unawaited => j = Len(stream[s]) + 1) /\ (k = "done" => Granted(t))
    BY <1>4, <1>5, <1>8, <1>9, <1>10, <1>13 DEF Unawaited
  <2>2. \A i \in 1 .. Len(stream'[s]) : At(s, i, d, Parts)' /\ i \in 1 .. Len(stream[s]) => At(s, i, d, Parts)
    BY <1>8 DEF At, Parts
  <2>3. PartInv(s, j)'
    <3>. SUFFICES ASSUME k \in Parts
                  PROVE  ~Ended(d)' /\ \A i \in 1 .. Len(stream'[s]) : At(s, i, d, Parts)' => i = j
      BY <1>4, <1>5 DEF PartInv, At, Parts, Ended
    <3>1. k \in Unawaited /\ ~Ended(d) /\ Clear(s, d, Unawaited)
      BY <1>3, <1>6, <2>1 DEF Unawaited
    <3>2. ASSUME NEW i \in 1 .. Len(stream'[s]), At(s, i, d, Parts)' PROVE i = j
      <4>1. i \notin 1 .. Len(stream[s])
        BY <2>2, <3>1, <3>2 DEF Clear, At, Unawaited
      <4>2. stream'[s][i].kind \in Unawaited
        BY <3>2 DEF At, Unawaited, Parts
      <4>. QED BY <1>10, <2>1, <3>1, <4>1, <4>2
    <3>. QED BY <1>7, <3>1, <3>2
  <2>4. DoneInv(s, j)'
    <3>. SUFFICES ASSUME k = "done"
                  PROVE  \A i \in 1 .. Len(stream'[s]) : At(s, i, d, Parts)' => i < j
      BY <1>4, <1>5 DEF DoneInv, At, Parts
    <3>1. ASSUME NEW i \in 1 .. Len(stream'[s]), At(s, i, d, Parts)' PROVE i < j
      <4>1. stream'[s][i].kind \in Parts /\ h # "pcie"
        BY <2>1, <3>1 DEF At, Parts
      <4>2. i \in 1 .. Len(stream[s])
        BY <1>9, <4>1
      <4>. QED BY <1>8, <2>1, <4>2
    <3>. QED BY <3>1
  <2>5. DoneTicketInv(s, j)'
    <3>. SUFFICES ASSUME k = "done"
                  PROVE  /\ m < sequence'[y]
                         /\ \A i \in Slots : token[y].done[i] < m
                         /\ \A i \in 1 .. j - 1 : stream'[s][i].kind = "done" /\ stream'[s][i].ctx = y =>
                                                    stream'[s][i].seq < m
      BY <1>0, <1>4, <1>5 DEF DoneTicketInv, Slots
    <3>1. UnusedDone(x, n) /\ n < sequence[x]
      BY <1>1, <1>3, <2>1 DEF Granted, InputInv, LockInv
    <3>2. sequence'[y] \in Nat /\ sequence[y] \in Nat /\ sequence[y] <= sequence'[y]
      <4>1. SyncTypes'
        BY DEF Types
      <4>. QED BY <1>0, <4>1 DEF SyncTypes, SameProgram
    <3>3. m < sequence'[y]
      BY <2>1, <3>1, <3>2
    <3>4. \A i \in 1 .. j - 1 : i \in 1 .. Len(stream[s])
      BY <1>8, <2>1 DEF Unawaited
    <3>. QED BY <1>8, <2>1, <3>1, <3>3, <3>4 DEF UnusedDone
  <2>6. DoneWaitInv(s, j)'
    <3>. SUFFICES ASSUME k = "wait_done" PROVE Over(d)' \/ DoneQueued(d, m)'
      BY <1>4, <1>5 DEF DoneWaitInv, Over, Clear, At, DoneQueued, DoneAt, PcieStream
    <3>1. Over(d) \/ DoneQueued(d, m)
      BY <1>3, <2>1
    <3>2. Parts \cap QueuedBy(h) = {}
      BY <2>1, QueuedKinds
    <3>. QED BY <1>0, <1>2, <3>1, <3>2, EndStays
  <2>. QED BY <2>3, <2>4, <2>5, <2>6 DEF EndInv
<1>. QED BY <1>12, <1>13

(* No token with a ticket that is used is queued by another thread. *)
LEMMA UnusedDoneStays ==
  ASSUME Types, Types', InputInv, NEW t \in Threads, HostEffect(t), NEW x \in Contexts, NEW n, UnusedDone(x, n),
         Granted(t) => Ctx(t) # x \/ "done" \notin QueuedBy(Head(todo[t]))
  PROVE  UnusedDone(x, n)'
<1>0. /\ program' = program /\ SameProgram /\ UNCHANGED <<happened, token>> /\ Extended(t, QueuedBy(Head(todo[t])))
  BY HostFrame
<1>1. ASSUME NEW s \in Streams, NEW j \in 1 .. Len(stream'[s]), stream'[s][j].kind = "done", stream'[s][j].ctx = x
      PROVE  stream'[s][j].seq < n
  <2>1. CASE j \in 1 .. Len(stream[s])
    BY <1>0, <1>1, <2>1, QueuedPlaces DEF UnusedDone
  <2>2. CASE j \notin 1 .. Len(stream[s])
    <3>1. Granted(t)
      BY <1>1, <2>2, QueuesOne DEF Unawaited
    <3>2. stream'[s][j].ctx = Ctx(t) /\ stream'[s][j].kind \in QueuedBy(Head(todo[t]))
      BY <1>0, <2>2, QueuedPlaces
    <3>. QED BY <1>1, <3>1, <3>2
  <2>. QED BY <2>1, <2>2
<1>. QED BY <1>0, <1>1 DEF UnusedDone, SameProgram, Slots

(* The other threads are where they were. *)
LEMMA OthersEnding ==
  ASSUME Types, Types', InputInv, OverInv, NEW t \in Threads, HostEffect(t), NEW q \in Threads, q # t
  PROVE  EndingInv(q)'
<1>0. /\ program' = program /\ UNCHANGED <<happened, token>> /\ Extended(t, QueuedBy(Head(todo[t])))
      /\ ThreadTypes /\ EndingInv(q)
      /\ todo'[q] = todo[q] /\ ticket'[q] = ticket[q] /\ Current(q)' = Current(q) /\ Ctx(q)' = Ctx(q)
  BY HostFrame DEF Types, OverInv
<1>1. PICK c \in Colls, x \in Contexts, n \in Nat, w \in Seq(StepNames) :
        c = Current(q) /\ x = Ctx(q) /\ n = ticket[q] /\ w = todo[q]
  BY <1>0, CurrentFacts DEF ThreadTypes
<1>2. c # Current(t)
  BY <1>0, <1>1, CurrentFacts
<1>3. /\ (Over(c) => Over(c)') /\ (~Awaited(c) => ~Awaited(c)') /\ (Awaited(c) => Awaited(c)') /\ (Ended(c)' <=> Ended(c))
      /\ Clear(PcieStream(c[1]), c, Unawaited) => Clear(PcieStream(c[1]), c, Unawaited)'
      /\ DoneQueued(c, n) => DoneQueued(c, n)'
  BY <1>0, <1>2, EndStays
<1>4. Settled(c) => Settled(c)'
  BY <1>3 DEF Settled
<1>5. n = NoTicket \/ (UnusedDone(x, n) => UnusedDone(x, n)')
  <2>1. n # NoTicket /\ Granted(t) => Ctx(t) # x
    BY <1>1 DEF InputInv, LockInv, Granted
  <2>. QED BY <2>1, UnusedDoneStays
<1>6. Script(w) /\ Ending(w, c, x, n)
  BY <1>0, <1>1 DEF EndingInv
<1>7. Ending(w, c, x, n)'
  BY <1>3, <1>4, <1>5, <1>6 DEF Ending, NoTicket, Unawaited
<1>8. Script(w)'
  BY <1>6 DEF Script, Sorted, FirstAlloc, Coupled, Follows, Reports, Has, Stage, Filling, StepNames, Early
<1>. QED BY <1>0, <1>1, <1>7, <1>8 DEF EndingInv

-----------------------------------------------------------------------------
(* The thread itself *)

(* What the thread knows before its step *)
Facing(t, c, x, n, w, h) ==
  /\ c = Current(t) /\ x = Ctx(t) /\ n = ticket[t] /\ w = todo[t] /\ h = Head(w) /\ w # <<>>
  /\ Script(w) /\ Ending(w, c, x, n) /\ InOrder(w)
  /\ Has(w, "call") => Calling(w) /\ n = NoTicket

(* A thread that steps faces its current collective. *)
LEMMA FacingFacts ==
  ASSUME Types, InputInv, OverInv, NEW t \in Threads, todo[t] # <<>>
  PROVE  \E c \in Colls, x \in Contexts, n \in Nat, w \in Seq(StepNames), h \in StepNames : Facing(t, c, x, n, w, h)
<1>1. PICK c \in Colls, x \in Contexts, n \in Nat, w \in Seq(StepNames), h \in StepNames :
        c = Current(t) /\ x = Ctx(t) /\ n = ticket[t] /\ w = todo[t] /\ h = Head(w)
  BY CurrentFacts DEF Types, ThreadTypes
<1>2. Script(w) /\ Ending(w, c, x, n)
  BY <1>1 DEF OverInv, EndingInv
<1>3. InOrder(w) /\ (Has(w, "call") => Calling(w) /\ n = NoTicket)
  BY <1>1 DEF InputInv, ThreadInv, Between
<1>. QED BY <1>1, <1>2, <1>3 DEF Facing

(* What its step does to the end of its collective *)
LEMMA OwnEnd ==
  ASSUME Types, Types', InputInv, NEW t \in Threads, HostEffect(t),
         NEW c \in Colls, NEW x \in Contexts, NEW n \in Nat, NEW w \in Seq(StepNames), NEW h \in StepNames,
         Facing(t, c, x, n, w, h)
  PROVE  /\ h # "pcie" /\ Over(c) => Over(c)'
         /\ h \notin {"wait_done", "event"} /\ ~Awaited(c) => ~Awaited(c)'
         /\ h \notin {"pcie", "write_done"} /\ Clear(PcieStream(c[1]), c, Unawaited) =>
              Clear(PcieStream(c[1]), c, Unawaited)'
         /\ (Awaited(c) => Awaited(c)') /\ (Ended(c)' <=> Ended(c))
         /\ DoneQueued(c, n) => DoneQueued(c, n)'
         /\ h # "write_done" /\ UnusedDone(x, n) => UnusedDone(x, n)'
<1>0. /\ program' = program /\ UNCHANGED <<happened, token>> /\ Extended(t, QueuedBy(h))
  BY HostFrame DEF Facing
<1>1. /\ h # "pcie" => Parts \cap QueuedBy(h) = {}
      /\ h \notin {"wait_done", "event"} => Ways \cap QueuedBy(h) = {}
      /\ h \notin {"pcie", "write_done"} => Unawaited \cap QueuedBy(h) = {}
      /\ h # "write_done" => "done" \notin QueuedBy(h)
  BY QueuedKinds DEF Ways, Unawaited
<1>2. /\ h # "pcie" /\ Over(c) => Over(c)'
      /\ h \notin {"wait_done", "event"} /\ ~Awaited(c) => ~Awaited(c)'
      /\ h \notin {"pcie", "write_done"} /\ Clear(PcieStream(c[1]), c, Unawaited) =>
           Clear(PcieStream(c[1]), c, Unawaited)'
      /\ (Awaited(c) => Awaited(c)') /\ (Ended(c)' <=> Ended(c))
      /\ DoneQueued(c, n) => DoneQueued(c, n)'
  BY <1>0, <1>1, EndStays
<1>3. h # "write_done" /\ UnusedDone(x, n) => UnusedDone(x, n)'
  BY <1>1, UnusedDoneStays DEF Facing
<1>. QED BY <1>2, <1>3

(* The script of a thread is the same kind of script in the next state. *)
LEMMA ScriptStays ==
  ASSUME NEW w
  PROVE  (Script(w)' <=> Script(w)) /\ (Calling(w)' <=> Calling(w)) /\ \A step : Has(w, step)' <=> Has(w, step)
BY DEF Script, Sorted, FirstAlloc, Coupled, Follows, Reports, Has, Stage, Filling, StepNames, Early, Calling

(* The step is taken. *)
LEMMA EndingTail ==
  ASSUME Types, Types', InputInv, OverInv, NEW t \in Threads, HostEffect(t),
         NEW c \in Colls, NEW x \in Contexts, NEW n \in Nat, NEW w \in Seq(StepNames), NEW h \in StepNames,
         Facing(t, c, x, n, w, h), Advance(t, w), NEW m, m = ticket'[t]
  PROVE  Script(Tail(w)) /\ Ending(Tail(w), c, x, m)'
<1>. DEFINE v == Tail(w)
<1>0. /\ ThreadTypes /\ w # <<>> /\ h = Head(w) /\ Script(w) /\ Ending(w, c, x, n) /\ InOrder(w) /\ h # "call"
      /\ Keeps(t) \/ (h = "begin" /\ Takes(t)) \/ (h = "return" /\ GivesBack(t))
      /\ h = "write_done" => Granted(t)
      /\ h \in {"pack", "fast", "pcie", "write_done", "wait_done", "event", "callback"} =>
           \E kind \in QueuedBy(h) : Adds(t, kind)
      /\ n = ticket[t] /\ c = Current(t) /\ x = Ctx(t)
  BY DEF Facing, Advance, Types
<1>1. /\ h # "pcie" /\ Over(c) => Over(c)'
      /\ h \notin {"wait_done", "event"} /\ ~Awaited(c) => ~Awaited(c)'
      /\ h \notin {"pcie", "write_done"} /\ Clear(PcieStream(c[1]), c, Unawaited) =>
           Clear(PcieStream(c[1]), c, Unawaited)'
      /\ (Awaited(c) => Awaited(c)') /\ (Ended(c)' <=> Ended(c))
      /\ DoneQueued(c, n) => DoneQueued(c, n)'
      /\ h # "write_done" /\ UnusedDone(x, n) => UnusedDone(x, n)'
  BY OwnEnd
<1>2. /\ \A step : Has(v, step) => Has(w, step)
      /\ \A step : Has(w, step) /\ step # h => Has(v, step)
      /\ \A step : Has(v, step) /\ Rank(h) # 0 /\ Rank(step) # 0 => Rank(h) < Rank(step)
      /\ v \in Seq(StepNames) /\ Has(w, h)
  BY <1>0, TailInOrder, HeadFirst
<1>3. Script(v)
  BY <1>0, ScriptTail
<1>4. ~Calling(w) /\ (Has(w, "pcie") => Has(w, "write_done"))
  BY <1>0 DEF Calling, Script, Follows
<1>5. h = "write_done" => Has(v, "wait_done")
  <2>. SUFFICES ASSUME h = "write_done" PROVE Has(v, "wait_done")
    OBVIOUS
  <2>1. w[1] = h /\ 1 \in 1 .. Len(w) /\ Len(v) = Len(w) - 1 /\ Len(w) \in Nat /\ \A i \in 1 .. Len(w) - 1 : v[i] = w[i + 1]
    BY <1>0
  <2>2. 2 \in 1 .. Len(w) /\ w[2] = "wait_done"
    BY <1>0, <2>1 DEF Script, Coupled
  <2>3. 1 \in 1 .. Len(v) /\ v[1] = "wait_done"
    BY <2>1, <2>2
  <2>. QED BY <2>3 DEF Has
<1>6. m = n \/ (h = "begin" /\ m = sequence[x] /\ Takes(t)) \/ h = "return"
  BY <1>0 DEF Keeps, Takes, ThreadTypes
<1>. HIDE DEF v
<1>7. Has(v, "pcie") => ~Ended(c)' /\ Clear(PcieStream(c[1]), c, Unawaited)' /\ ~Awaited(c)'
  <2>. SUFFICES ASSUME Has(v, "pcie") PROVE ~Ended(c)' /\ Clear(PcieStream(c[1]), c, Unawaited)' /\ ~Awaited(c)'
    OBVIOUS
  <2>1. h \notin {"pcie", "write_done", "wait_done", "event"}
    BY <1>2, RankValues
  <2>2. ~Ended(c) /\ Clear(PcieStream(c[1]), c, Unawaited) /\ ~Awaited(c)
    BY <1>0, <1>2 DEF Ending
  <2>. QED BY <1>1, <2>1, <2>2
<1>8. Settled(c)' \/ \E step \in {"pcie", "write_done", "wait_done", "event"} : Has(v, step)
  <2>1. CASE Settled(c)
    <3>1. CASE Over(c) /\ h = "pcie"
      BY <1>0, <1>2, <1>4, <3>1
    <3>. QED BY <1>1, <2>1, <3>1 DEF Settled
  <2>2. CASE h \in {"pcie", "write_done"}
    BY <1>0, <1>2, <1>4, <1>5, <2>2
  <2>3. CASE h \in {"wait_done", "event"}
    <3>1. PICK kind \in Ways : Adds(t, kind)
      BY <1>0, <2>3, QueuedByValues DEF Ways
    <3>2. kind \notin PcieKinds
      BY DEF Ways, PcieKinds
    <3>3. PICK s, o, k : /\ s \in Streams /\ s = Stream(t) /\ o = item(kind, t)
                         /\ k = Len(stream[s]) + 1 /\ Len(stream[s]) \in Nat /\ Len(stream'[s]) = k /\ stream'[s][k] = o
      BY <3>1, <3>2 DEF Adds
    <3>4. o.kind \in Ways /\ o.coll = c /\ k \in 1 .. Len(stream'[s])
      BY <1>0, <3>3 DEF item
    <3>5. Call(c)'.stream = s
      BY <1>0, <3>3, HostFrame, CurrentFacts DEF Call
    <3>6. ~Clear(s, c, Ways)'
      BY <3>3, <3>4 DEF Clear, At, Ways
    <3>7. Awaited(c)'
      BY <3>5, <3>6 DEF Awaited, Clear, At, Ways
    <3>. QED BY <3>7 DEF Settled
  <2>4. CASE ~Settled(c) /\ h \notin {"pcie", "write_done", "wait_done", "event"}
    BY <1>0, <1>2, <1>4, <2>4 DEF Ending
  <2>. QED BY <2>1, <2>2, <2>3, <2>4
<1>9. Has(v, "write_done") => m = NoTicket \/ UnusedDone(x, m)'
  <2>. SUFFICES ASSUME Has(v, "write_done") PROVE m = NoTicket \/ UnusedDone(x, m)'
    OBVIOUS
  <2>1. h \notin {"write_done", "return"}
    BY <1>2, RankValues
  <2>2. CASE m = n
    BY <1>0, <1>1, <1>2, <2>1, <2>2 DEF Ending
  <2>3. CASE h = "begin" /\ m = sequence[x]
    <3>1. UnusedDone(x, m)
      <4>1. ASSUME NEW s \in Streams, NEW j \in 1 .. Len(stream[s]), stream[s][j].kind = "done", stream[s][j].ctx = x
            PROVE  stream[s][j].seq < m
        BY <2>3, <4>1 DEF OverInv, EndsInv, EndInv, DoneTicketInv
      <4>. QED BY <2>3, <4>1 DEF UnusedDone, OverInv, DoneTokensInv
    <3>2. "done" \notin QueuedBy(Head(todo[t]))
      BY <1>0, <2>3, QueuedByValues DEF Facing
    <3>. QED BY <3>1, <3>2, UnusedDoneStays
  <2>. QED BY <1>6, <2>1, <2>2, <2>3
<1>10. Has(v, "wait_done") => Has(v, "write_done") \/ Over(c)' \/ (~Has(v, "begin") /\ DoneQueued(c, m)')
  <2>. SUFFICES ASSUME Has(v, "wait_done"), ~Has(v, "write_done")
                PROVE  Over(c)' \/ (~Has(v, "begin") /\ DoneQueued(c, m)')
    OBVIOUS
  <2>0. h # "return" /\ h # "pcie"
    BY <1>0, <1>2, <1>4, RankValues
  <2>1. CASE h = "write_done"
    <3>0. m = n /\ ~Has(v, "begin")
      BY <1>2, <1>6, <2>1, RankValues
    <3>1. Adds(t, "done")
      BY <1>0, <2>1, QueuedByValues
    <3>2. PICK s, o, k : /\ s \in Streams /\ s = PcieStream(t) /\ o = item("done", t)
                         /\ k = Len(stream[s]) + 1 /\ Len(stream[s]) \in Nat /\ Len(stream'[s]) = k /\ stream'[s][k] = o
      BY <3>1 DEF Adds, PcieKinds
    <3>3. o.kind = "done" /\ o.coll = c /\ o.seq = n /\ k \in 1 .. Len(stream'[s])
      BY <1>0, <3>2 DEF item
    <3>4. PcieStream(c[1])' = s
      BY <1>0, <3>2, HostFrame, CurrentFacts DEF PcieStream
    <3>5. DoneQueued(c, n)'
      BY <3>2, <3>3, <3>4 DEF DoneQueued, DoneAt, At
    <3>. QED BY <3>0, <3>5
  <2>2. CASE h # "write_done"
    <3>1. Over(c) \/ (~Has(w, "begin") /\ DoneQueued(c, n))
      BY <1>0, <1>2, <2>2 DEF Ending
    <3>2. CASE Over(c)
      BY <1>1, <2>0, <3>2
    <3>3. CASE ~Has(w, "begin") /\ DoneQueued(c, n)
      BY <1>1, <1>2, <1>6, <2>0, <3>3
    <3>. QED BY <3>1, <3>2, <3>3
  <2>. QED BY <2>1, <2>2
<1>11. Ending(v, c, x, m)'
  BY <1>7, <1>8, <1>9, <1>10 DEF Ending, NoTicket, Unawaited
<1>. QED BY <1>3, <1>11 DEF v

(* A fallback takes the place of steps. *)
LEMMA EndingFallback ==
  ASSUME Types, Types', InputInv, NEW t \in Threads, HostEffect(t),
         NEW c \in Colls, NEW x \in Contexts, NEW n \in Nat, NEW w \in Seq(StepNames), NEW h \in StepNames,
         Facing(t, c, x, n, w, h), NEW step, NEW k, Fallback(w, step, k), stream' = stream
  PROVE  LET v == <<step>> \o SubSeq(w, 1 + k, Len(w)) IN Script(v) /\ Ending(v, c, x, n)'
<1>0. Script(w) /\ Ending(w, c, x, n) /\ InOrder(w) /\ w # <<>>
  BY DEF Facing
<1>1. step \in {"sync_user", "event"}
  BY DEF Fallback
<1>2. PICK v : v = <<step>> \o SubSeq(w, 1 + k, Len(w))
  OBVIOUS
<1>3. /\ Script(v) /\ v \in Seq(StepNames) /\ Has(v, step)
      /\ \A y : Has(v, y) /\ y # step => Has(w, y)
      /\ step = "sync_user" => /\ Has(v, "pcie") /\ (Has(w, "write_done") => Has(v, "write_done"))
                               /\ (Has(w, "wait_done") => Has(v, "wait_done"))
      /\ step = "event" => ~Has(v, "pcie") /\ ~Has(v, "write_done") /\ ~Has(v, "wait_done")
  BY <1>0, <1>2, ScriptFallback
<1>4. Ending(v, c, x, n)
  BY <1>0, <1>1, <1>3 DEF Ending
<1>5. Ending(v, c, x, n)'
  <2>1. /\ (Over(c)' <=> Over(c)) /\ (Awaited(c)' <=> Awaited(c)) /\ (Ended(c)' <=> Ended(c))
        /\ Clear(PcieStream(c[1]), c, Unawaited)' <=> Clear(PcieStream(c[1]), c, Unawaited)
        /\ DoneQueued(c, n)' <=> DoneQueued(c, n)
        /\ UnusedDone(x, n)' <=> UnusedDone(x, n)
    <3>1. program' = program /\ happened' = happened /\ token' = token /\ SameProgram
      BY HostFrame
    <3>2. PcieStream(c[1])' = PcieStream(c[1]) /\ Call(c)' = Call(c)
      BY <3>1 DEF PcieStream, Call
    <3>. QED BY <3>1, <3>2 DEF Over, Awaited, Ended, Clear, At, DoneQueued, DoneAt, UnusedDone, Parts, Ways, Unawaited,
                               SameProgram, Slots
  <2>. QED BY <1>4, <2>1 DEF Ending, Settled, NoTicket, Unawaited, Calling
<1>. QED BY <1>2, <1>3, <1>5

(* The collective is given up, or most of it. *)
LEMMA EndingShort ==
  ASSUME Types, Types', InputInv, NEW t \in Threads, HostEffect(t),
         NEW c \in Colls, NEW x \in Contexts, NEW n \in Nat, NEW w \in Seq(StepNames), NEW h \in StepNames,
         Facing(t, c, x, n, w, h), h \in {"alloc", "sync_user"},
         NEW v \in {<<"fast">> \o Notify \o <<"return">>, <<"return">>}
  PROVE  Script(v) /\ Ending(v, c, x, n)'
<1>1. Has(w, h) /\ Script(w) /\ Ending(w, c, x, n)
  BY HeadFirst DEF Facing
<1>2. Has(w, "pcie")
  BY <1>1 DEF Script, Follows, Early
<1>3. Over(c)
  BY <1>1, <1>2 DEF Ending, Over, Clear, At, Unawaited
<1>4. Settled(c)'
  BY <1>3, OwnEnd DEF Settled
<1>5. Script(v) /\ ~Has(v, "pcie") /\ ~Has(v, "write_done") /\ ~Has(v, "wait_done")
  <2>1. {"pcie", "write_done", "wait_done"} \subseteq StepNames \ {"call", "return"}
    BY DEF StepNames
  <2>. QED BY <2>1, ShortStarts, RestScripts
<1>. QED BY <1>4, <1>5 DEF Ending

(* Nothing was queued for a collective that begins. *)
LEMMA EndingStart ==
  ASSUME Types, Types', InputInv, MadeInv, NEW t \in Threads, HostEffect(t),
         NEW c \in Colls, NEW x \in Contexts, NEW n \in Nat, NEW w \in Seq(StepNames), NEW h \in StepNames,
         Facing(t, c, x, n, w, h), h = "call", NEW p, NEW v, v = StepsOf(Call(c).op, p) \o <<"return">>
  PROVE  Script(v) /\ Ending(v, c, x, n)'
<1>0. ThreadTypes /\ c = Current(t) /\ w = todo[t] /\ Calling(w)
  BY DEF Types, Facing, Calling
<1>1. n = NoTicket
  <2>1. Has(w, "call")
    BY HeadFirst DEF Facing
  <2>. QED BY <2>1 DEF Facing
<1>2. ~Made(c)
  <2>1. c[1] = t /\ c[2] = index[t] /\ index[t] \in Nat
    BY <1>0, CurrentFacts DEF ThreadTypes
  <2>. QED BY <1>0, <2>1 DEF Made
<1>3. ~Ended(c) /\ \A s \in Streams : \A J : Clear(s, c, J)
  BY <1>2 DEF MadeInv, Clear, At
<1>4. Over(c) /\ ~Awaited(c) /\ Clear(PcieStream(c[1]), c, Unawaited)
  BY <1>0, <1>3, CollFacts DEF Over, Awaited, ThreadTypes
<1>5. Over(c)' /\ ~Awaited(c)' /\ Clear(PcieStream(c[1]), c, Unawaited)' /\ ~Ended(c)'
  BY <1>3, <1>4, OwnEnd
<1>6. Script(v)
  <2>1. Call(c).op \in {"AllReduce", "AllGather", "ReduceScatter", "AllToAll"}
    BY <1>0, CollFacts DEF ThreadTypes
  <2>. QED BY <2>1, WholeScript DEF Starts
<1>. QED BY <1>1, <1>5, <1>6 DEF Ending, Settled, NoTicket, Unawaited

(* How far a thread is with its PCIe part, after its own step *)
LEMMA OwnEnding ==
  ASSUME Types, Types', InputInv, OverInv, NEW t \in Threads, HostEffect(t)
  PROVE  EndingInv(t)'
<1>0. ThreadTypes /\ todo[t] # <<>> /\ program' = program /\ SameProgram
  BY HostFrame DEF Types, HostEffect
<1>1. PICK c \in Colls, x \in Contexts, n \in Nat, w \in Seq(StepNames), h \in StepNames : Facing(t, c, x, n, w, h)
  BY <1>0, FacingFacts
<1>2. /\ c = Current(t) /\ x = Ctx(t) /\ n = ticket[t] /\ w = todo[t] /\ h = Head(w) /\ w # <<>>
      /\ Script(w) /\ Ending(w, c, x, n) /\ InOrder(w)
  BY <1>1 DEF Facing
<1>3. index' = index => Current(t)' = c /\ Ctx(t)' = x
  BY <1>0, <1>2 DEF Current, Ctx, Stream, Call
<1>4. ASSUME index' = index, NEW v, NEW m, todo'[t] = v, ticket'[t] = m, Script(v), Ending(v, c, x, m)'
      PROVE  EndingInv(t)'
  BY <1>3, <1>4, ScriptStays DEF EndingInv
<1>5. CASE Advance(t, w)
  <2>1. PICK v, m : v = Tail(w) /\ m = ticket'[t]
    OBVIOUS
  <2>2. Script(v) /\ Ending(v, c, x, m)'
    BY <1>1, <1>5, <2>1, EndingTail
  <2>3. todo'[t] = v /\ index' = index
    BY <1>0, <1>2, <1>5, <2>1 DEF Advance, next, ThreadTypes
  <2>. QED BY <1>4, <2>1, <2>2, <2>3
<1>6. CASE FallsBack(t, w)
  <2>1. PICK step, k : Fallback(w, step, k) /\ Instead(t, step, k)
    BY <1>6 DEF FallsBack
  <2>2. PICK v : v = <<step>> \o SubSeq(w, 1 + k, Len(w))
    OBVIOUS
  <2>3. Script(v) /\ Ending(v, c, x, n)'
    BY <1>1, <1>6, <2>1, <2>2, EndingFallback DEF FallsBack
  <2>4. todo'[t] = v /\ ticket'[t] = n /\ index' = index
    BY <1>0, <1>2, <1>6, <2>1, <2>2 DEF FallsBack, Instead, Keeps, ThreadTypes
  <2>. QED BY <1>4, <2>3, <2>4
<1>7. CASE CutsShort(t, w)
  <2>1. PICK v \in {<<"fast">> \o Notify \o <<"return">>, <<"return">>} : todo' = [todo EXCEPT ![t] = v]
    BY <1>7 DEF CutsShort
  <2>2. Script(v) /\ Ending(v, c, x, n)'
    <3>1. h \in {"alloc", "sync_user"}
      BY <1>2, <1>7 DEF CutsShort
    <3>. QED BY <1>1, <3>1, EndingShort
  <2>3. todo'[t] = v /\ ticket'[t] = n /\ index' = index
    BY <1>0, <1>2, <1>7, <2>1 DEF CutsShort, Keeps, ThreadTypes
  <2>. QED BY <1>4, <2>2, <2>3
<1>8. CASE StartsCall(t, w)
  <2>1. PICK p, v : p = LaunchPlan(Current(t)) /\ v = StepsOf(Call(c).op, p) \o <<"return">>
    OBVIOUS
  <2>2. Script(v) /\ Ending(v, c, x, n)'
    BY <1>1, <1>2, <1>8, <2>1, EndingStart DEF StartsCall, OverInv
  <2>3. todo'[t] = v /\ ticket'[t] = n /\ index' = index
    BY <1>0, <1>2, <1>8, <2>1 DEF StartsCall, Keeps, ThreadTypes
  <2>. QED BY <1>4, <2>2, <2>3
<1>9. CASE GoesOn(t, w)
  <2>1. PICK v : v = <<"call">>
    OBVIOUS
  <2>2. todo'[t] = v
    BY <1>0, <1>9, <2>1 DEF GoesOn, ThreadTypes
  <2>3. Script(v) /\ ~Has(v, "pcie") /\ ~Has(v, "write_done") /\ ~Has(v, "wait_done") /\ Calling(v)
    <3>1. {"pcie", "write_done", "wait_done"} \subseteq StepNames \ {"call", "return"}
      BY DEF StepNames
    <3>. QED BY <2>1, <3>1, RestScripts DEF Calling
  <2>4. \A d, y, m : Ending(v, d, y, m)'
    BY <2>3 DEF Ending, Calling
  <2>. QED BY <2>2, <2>3, <2>4, ScriptStays DEF EndingInv
<1>. QED BY <1>2, <1>5, <1>6, <1>7, <1>8, <1>9 DEF HostEffect, Moves

(* No step of a host thread breaks the order at the end of a collective. *)
LEMMA HostOver ==
  ASSUME Types, Types', InputInv, OverInv, NEW t \in Threads, HostEffect(t)
  PROVE  OverInv'
<1>0. SameProgram /\ token' = token /\ \A x \in Contexts : sequence[x] <= sequence'[x] /\ sequence[x] \in Nat
  BY HostFrame
<1>1. MadeInv' /\ EndsInv'
  BY MadeStays, EndsStay DEF OverInv, InputInv
<1>2. DoneTokensInv'
  <2>. SUFFICES ASSUME NEW x \in Contexts, NEW k \in Slots PROVE token[x].done[k] < sequence'[x]
    BY <1>0 DEF DoneTokensInv, SameProgram, Slots
  <2>1. token[x].done[k] < sequence[x] /\ token[x].done[k] \in Nat
    BY DEF OverInv, DoneTokensInv, InputInv, DeviceTypes
  <2>2. sequence'[x] \in Nat
    BY <1>0 DEF Types, SyncTypes, SameProgram
  <2>. QED BY <1>0, <2>1, <2>2
<1>3. \A q \in Threads : EndingInv(q)'
  BY OthersEnding, OwnEnding
<1>. QED BY <1>0, <1>1, <1>2, <1>3 DEF OverInv, SameProgram

-----------------------------------------------------------------------------
(* What the device does at the end of a collective *)

(* The device ends the timer of a PCIe part when it executes the part,     *)
(* writes the token it finds queued, and waits as it is told.              *)
Ends(s) ==
  LET o == Head(stream[s])
  IN /\ \A c \in Colls : Ended(c)' <=> Ended(c) \/ (o.kind \in Parts /\ c = o.coll)
     /\ \A x \in Contexts, k \in Slots :
          \/ token'[x].done[k] = token[x].done[k]
          \/ o.kind = "done" /\ x = o.ctx /\ token'[x].done[k] = o.seq
     /\ o.kind = "wait_done" => \E k \in Slots : token[o.ctx].done[k] >= o.seq
     /\ o.kind = "wait_event" => Ended(o.coll)

(* The operation that is executed, and the places of the others *)
LEMMA ExecutedPlaces ==
  ASSUME StreamTypes, NEW s \in Streams, Executes(s), NEW q \in Streams
  PROVE  \E d \in 0 .. 1 :
           /\ Moved(q, s, d) /\ (q = s => d = 1)
<1>1. PICK d : d = Shift(q, s)
  OBVIOUS
<1>2. Moved(q, s, d)
  BY <1>1, ShiftFacts DEF Executes
<1>3. q = s => d = 1
  BY <1>1 DEF Shift
<1>. QED BY <1>2, <1>3 DEF Moved

(* The first operation of a stream, and its fields *)
LEMMA HeadItem ==
  ASSUME Types, NEW s \in Streams, stream[s] # <<>>
  PROVE  /\ Head(stream[s]) \in ItemsOf(s) /\ 1 \in 1 .. Len(stream[s]) /\ stream[s][1] = Head(stream[s])
         /\ Head(stream[s]).coll \in Colls /\ Head(stream[s]).ctx \in Contexts /\ Head(stream[s]).seq \in Nat
         /\ Head(stream[s]).kind \in Kinds
<1>1. stream[s] \in Seq(ItemsOf(s))
  BY DEF Types, StreamTypes
<1>2. Head(stream[s]) \in ItemsOf(s) /\ 1 \in 1 .. Len(stream[s]) /\ stream[s][1] = Head(stream[s])
  BY <1>1
<1>. QED BY <1>2 DEF ItemsOf, Items

(* What waits for a PCIe part is only executed when the part is over. *)
LEMMA WaysPass ==
  ASSUME Types, InputInv, OverInv, NEW s \in Streams, Executes(s), Ends(s), Head(stream[s]).kind \in Ways
  PROVE  Over(Head(stream[s]).coll)
<1>0. stream[s] # <<>>
  BY DEF Executes
<1>1. PICK o \in ItemsOf(s), c \in Colls, x \in Contexts, n \in Nat :
        o = Head(stream[s]) /\ c = o.coll /\ x = o.ctx /\ n = o.seq /\ stream[s][1] = o /\ 1 \in 1 .. Len(stream[s])
  BY <1>0, HeadItem
<1>2. PICK r \in Streams : r = PcieStream(c[1])
  BY CollFacts DEF Types, ThreadTypes
<1>3. CASE o.kind = "wait_event"
  <2>1. Ended(c)
    BY <1>1, <1>3 DEF Ends
  <2>2. ASSUME NEW j \in 1 .. Len(stream[r]), At(r, j, c, Parts) PROVE FALSE
    BY <2>1, <2>2 DEF OverInv, EndsInv, EndInv, PartInv, At
  <2>. QED BY <1>1, <1>2, <2>2 DEF Over, Clear
<1>4. CASE o.kind = "wait_done"
  <2>1. Over(c) \/ DoneQueued(c, n)
    BY <1>1, <1>4 DEF OverInv, EndsInv, EndInv, DoneWaitInv
  <2>2. ASSUME DoneQueued(c, n) PROVE FALSE
    <3>1. PICK j \in 1 .. Len(stream[r]) : DoneAt(r, j, c, n)
      BY <1>2, <2>2 DEF DoneQueued
    <3>2. stream[r][j].kind = "done" /\ stream[r][j].coll = c /\ stream[r][j].seq = n /\ stream[r][j].ctx = x
      <4>1. stream[r][j] \in ItemsOf(r)
        BY StreamLengths DEF Types
      <4>2. stream[r][j].ctx = CtxOf(c) /\ x = CtxOf(c)
        BY <1>1, <3>1, <4>1 DEF ItemsOf, DoneAt, At
      <4>. QED BY <3>1, <4>2 DEF DoneAt, At
    <3>3. \A k \in Slots : token[x].done[k] < n
      BY <3>2 DEF OverInv, EndsInv, EndInv, DoneTicketInv
    <3>4. \A k \in Slots : token[x].done[k] \in Nat
      BY DEF InputInv, DeviceTypes
    <3>. QED BY <1>1, <1>4, <3>3, <3>4 DEF Ends
  <2>. QED BY <1>1, <2>1, <2>2
<1>. QED BY <1>1, <1>3, <1>4 DEF Ways

(* What a step of the device leaves of the end of a collective *)
LEMMA EndShifts ==
  ASSUME Types, Types', InputInv, OverInv, NEW s \in Streams, Executes(s), Ends(s), NEW c \in Colls
  PROVE  /\ Over(c) => Over(c)'
         /\ ~Awaited(c) => ~Awaited(c)'
         /\ Clear(PcieStream(c[1]), c, Unawaited) => Clear(PcieStream(c[1]), c, Unawaited)' /\ (Ended(c)' <=> Ended(c))
         /\ Settled(c) => Settled(c)'
         /\ \A n : DoneQueued(c, n) => Over(c)' \/ DoneQueued(c, n)'
<1>0. program' = program /\ StreamTypes /\ stream[s] # <<>>
  BY DEF Executes, Types
<1>1. Call(c)' = Call(c) /\ PcieStream(c[1])' = PcieStream(c[1])
  BY <1>0 DEF Call, PcieStream
<1>2. PICK r \in Streams, u \in Streams : r = PcieStream(c[1]) /\ u = Call(c).stream
  BY CollFacts DEF Types, ThreadTypes
<1>3. PICK o \in ItemsOf(s) : o = Head(stream[s]) /\ stream[s][1] = o /\ 1 \in 1 .. Len(stream[s])
  BY <1>0, HeadItem
<1>4. \A q \in Streams : \A j \in 1 .. Len(stream'[q]) : \E i \in 1 .. Len(stream[q]) : stream'[q][j] = stream[q][i]
  <2>. TAKE q \in Streams
  <2>1. PICK d \in 0 .. 1 : Moved(q, s, d)
    BY <1>0, ExecutedPlaces
  <2>. QED BY <2>1 DEF Moved
<1>5. \A q \in Streams : \A i \in 1 .. Len(stream[q]) :
        \/ \E j \in 1 .. Len(stream'[q]) : stream'[q][j] = stream[q][i]
        \/ q = s /\ i = 1 /\ stream[q][i] = o
  <2>. TAKE q \in Streams
  <2>. TAKE i \in 1 .. Len(stream[q])
  <2>1. PICK d \in 0 .. 1 : Moved(q, s, d)
    BY <1>0, ExecutedPlaces
  <2>2. CASE i > d
    BY <2>1, <2>2 DEF Moved
  <2>3. CASE ~(i > d)
    <3>1. i <= d
      BY <2>3
    <3>. QED BY <1>3, <2>1, <3>1 DEF Moved
  <2>. QED BY <2>2, <2>3
<1>6. Over(c) => Over(c)'
  BY <1>1, <1>2, <1>4 DEF Over, Clear, At, Parts
<1>7. ~Awaited(c) => ~Awaited(c)'
  <2>1. Clear(u, c, Ways) => Clear(u, c, Ways)'
    BY <1>4 DEF Clear, At, Ways
  <2>. QED BY <1>1, <1>2, <2>1 DEF Awaited, Clear, At, Ways
<1>8. Clear(r, c, Unawaited) => Clear(r, c, Unawaited)' /\ (Ended(c)' <=> Ended(c))
  <2>1. Clear(r, c, Unawaited) => Clear(r, c, Unawaited)'
    BY <1>4 DEF Clear, At, Unawaited, Parts
  <2>2. o.kind \in Parts /\ o.coll = c => s = r
    BY <1>2 DEF ItemsOf, Place, Parts, PcieKinds
  <2>3. Clear(r, c, Unawaited) => ~(o.kind \in Parts /\ o.coll = c)
    BY <1>3, <2>2 DEF Clear, At, Unawaited
  <2>. QED BY <1>3, <2>1, <2>3 DEF Ends
<1>9. Settled(c) => Settled(c)'
  <2>. SUFFICES ASSUME Awaited(c), ~Awaited(c)' PROVE Over(c)
    BY <1>6 DEF Settled
  <2>1. PICK i \in 1 .. Len(stream[u]) : At(u, i, c, Ways)
    BY <1>2 DEF Awaited, Clear
  <2>2. ~\E j \in 1 .. Len(stream'[u]) : stream'[u][j] = stream[u][i]
    BY <1>1, <1>2, <2>1 DEF Awaited, Clear, At, Ways
  <2>3. u = s /\ i = 1 /\ o.coll = c /\ o.kind \in Ways
    BY <1>5, <2>1, <2>2 DEF At
  <2>. QED BY <1>3, <2>3, WaysPass
<1>10. ASSUME NEW n, DoneQueued(c, n), ~DoneQueued(c, n)'
       PROVE  Over(c)'
  <2>1. PICK i \in 1 .. Len(stream[r]) : DoneAt(r, i, c, n)
    BY <1>2, <1>10 DEF DoneQueued
  <2>2. ~\E j \in 1 .. Len(stream'[r]) : stream'[r][j] = stream[r][i]
    BY <1>1, <1>2, <1>10, <2>1 DEF DoneQueued, DoneAt, At
  <2>3. r = s /\ i = 1 /\ o.coll = c /\ o.kind = "done"
    BY <1>5, <2>1, <2>2 DEF DoneAt, At
  <2>4. \A j \in 1 .. Len(stream[r]) : At(r, j, c, Parts) => j < 1
    BY <1>3, <2>3 DEF OverInv, EndsInv, EndInv, DoneInv
  <2>5. \A j \in 1 .. Len(stream[r]) : ~(j < 1)
    BY <1>0, StreamLengths
  <2>. QED BY <1>2, <1>6, <2>4, <2>5 DEF Over, Clear
<1>. QED BY <1>1, <1>2, <1>6, <1>7, <1>8, <1>9, <1>10 DEF Clear, At, Unawaited, Parts

(* What is queued at the end of a PCIe part stays in order as the first    *)
(* operation of a stream is executed.                                      *)
LEMMA EndsShift ==
  ASSUME Types, Types', InputInv, OverInv, NEW s \in Streams, Executes(s), Ends(s), DeviceTypes'
  PROVE  EndsInv'
<1>0. /\ program' = program /\ SameProgram /\ StreamTypes /\ stream[s] # <<>> /\ sequence' = sequence /\ SyncTypes
      /\ ThreadTypes
  BY ProgramStays DEF Executes, Types
<1>1. PICK o \in ItemsOf(s) : o = Head(stream[s]) /\ stream[s][1] = o /\ 1 \in 1 .. Len(stream[s])
  BY <1>0, HeadItem
<1>. SUFFICES ASSUME NEW q \in Streams, NEW j \in 1 .. Len(stream'[q]) PROVE EndInv(q, j)'
  BY <1>0 DEF EndsInv, SameProgram
<1>2. PICK d \in 0 .. 1 : Moved(q, s, d) /\ (q = s => d = 1)
  BY <1>0, ExecutedPlaces
<1>3. PICK i \in 1 .. Len(stream[q]) : i = j + d /\ stream'[q][j] = stream[q][i] /\ i > d
  BY <1>2 DEF Moved
<1>4. PICK p \in ItemsOf(q) : p = stream[q][i]
  BY <1>0, StreamLengths
<1>5. PICK c \in Colls, x \in Contexts, m \in Nat, k \in Kinds : c = p.coll /\ x = p.ctx /\ m = p.seq /\ k = p.kind
  BY <1>4 DEF ItemsOf, Items
<1>6. PartInv(q, i) /\ DoneInv(q, i) /\ DoneTicketInv(q, i) /\ DoneWaitInv(q, i)
  BY DEF OverInv, EndsInv, EndInv
<1>7. \A l \in 1 .. Len(stream'[q]) : At(q, l, c, Parts)' => l + d \in 1 .. Len(stream[q]) /\ At(q, l + d, c, Parts)
  BY <1>2 DEF Moved, At, Parts
<1>8. /\ k \in Unawaited => q = PcieStream(c[1])
      /\ o.kind \in Unawaited => s = PcieStream(o.coll[1])
      /\ x = CtxOf(c) /\ o.ctx = CtxOf(o.coll)
  BY <1>1, <1>4, <1>5 DEF ItemsOf, Place, Unawaited, Parts, PcieKinds
<1>9. PartInv(q, j)'
  <2>. SUFFICES ASSUME k \in Parts
                PROVE  ~Ended(c)' /\ \A l \in 1 .. Len(stream'[q]) : At(q, l, c, Parts)' => l = j
    BY <1>3, <1>4, <1>5 DEF PartInv, At, Parts, Ended
  <2>1. ~Ended(c) /\ \A l \in 1 .. Len(stream[q]) : At(q, l, c, Parts) => l = i
    BY <1>4, <1>5, <1>6 DEF PartInv
  <2>2. ASSUME o.kind \in Parts, o.coll = c PROVE FALSE
    <3>1. s = q
      BY <1>8, <2>2 DEF Unawaited
    <3>2. At(q, 1, c, Parts)
      BY <1>1, <2>2, <3>1 DEF At
    <3>3. i = 1
      BY <1>1, <2>1, <3>1, <3>2
    <3>4. d = 1
      BY <1>2, <3>1
    <3>. QED BY <1>3, <3>3, <3>4
  <2>3. ~Ended(c)'
    BY <1>1, <2>1, <2>2 DEF Ends
  <2>4. ASSUME NEW l \in 1 .. Len(stream'[q]), At(q, l, c, Parts)' PROVE l = j
    <3>1. l + d = i
      BY <1>7, <2>1, <2>4
    <3>2. Len(stream'[q]) \in Nat
      BY <1>0, NextLengths DEF Types
    <3>. QED BY <1>3, <3>1, <3>2
  <2>. QED BY <2>3, <2>4
<1>10. DoneInv(q, j)'
  <2>. SUFFICES ASSUME k = "done"
                PROVE  \A l \in 1 .. Len(stream'[q]) : At(q, l, c, Parts)' => l < j
    BY <1>3, <1>4, <1>5 DEF DoneInv, At, Parts
  <2>1. \A l \in 1 .. Len(stream[q]) : At(q, l, c, Parts) => l < i
    BY <1>4, <1>5, <1>6 DEF DoneInv
  <2>2. ASSUME NEW l \in 1 .. Len(stream'[q]), At(q, l, c, Parts)' PROVE l < j
    <3>1. l + d < i
      BY <1>7, <2>1, <2>2
    <3>2. Len(stream'[q]) \in Nat
      BY <1>0, NextLengths DEF Types
    <3>. QED BY <1>3, <3>1, <3>2
  <2>. QED BY <2>2
<1>11. DoneTicketInv(q, j)'
  <2>. SUFFICES ASSUME k = "done"
                PROVE  /\ m < sequence[x]
                       /\ \A l \in Slots : token'[x].done[l] < m
                       /\ \A l \in 1 .. j - 1 : stream'[q][l].kind = "done" /\ stream'[q][l].ctx = x => stream'[q][l].seq < m
    BY <1>0, <1>3, <1>4, <1>5 DEF DoneTicketInv, Slots
  <2>1. /\ m < sequence[x]
        /\ \A l \in Slots : token[x].done[l] < m
        /\ \A l \in 1 .. i - 1 : stream[q][l].kind = "done" /\ stream[q][l].ctx = x => stream[q][l].seq < m
    BY <1>4, <1>5, <1>6 DEF DoneTicketInv
  <2>2. ASSUME o.kind = "done", o.ctx = x PROVE o.seq < m
    <3>1. PcieStream(o.coll[1]) = PcieStream(c[1])
      <4>1. program.domain[o.coll[1]] = program.domain[c[1]]
        BY <1>8, <2>2 DEF CtxOf
      <4>. QED BY <4>1 DEF PcieStream
    <3>2. s = q
      BY <1>8, <2>2, <3>1 DEF Unawaited
    <3>3. i # 1 /\ 1 \in 1 .. i - 1
      <4>1. d = 1
        BY <1>2, <3>2
      <4>. QED BY <1>3, <4>1
    <3>. QED BY <1>1, <2>1, <2>2, <3>2, <3>3
  <2>3. \A l \in Slots : token'[x].done[l] < m
    BY <1>1, <2>1, <2>2 DEF Ends
  <2>4. ASSUME NEW l \in 1 .. j - 1, stream'[q][l].kind = "done", stream'[q][l].ctx = x PROVE stream'[q][l].seq < m
    <3>1. l \in 1 .. Len(stream'[q]) /\ Len(stream'[q]) \in Nat
      BY <1>0, NextLengths DEF Types
    <3>2. stream'[q][l] = stream[q][l + d] /\ l + d \in 1 .. i - 1
      BY <1>2, <1>3, <3>1 DEF Moved
    <3>. QED BY <2>1, <2>4, <3>2
  <2>. QED BY <2>1, <2>3, <2>4
<1>12. DoneWaitInv(q, j)'
  <2>. SUFFICES ASSUME k = "wait_done" PROVE Over(c)' \/ DoneQueued(c, m)'
    <3>1. stream'[q][j] = p
      BY <1>3, <1>4
    <3>. QED BY <1>5, <3>1 DEF DoneWaitInv, Over, Clear, At, DoneQueued, DoneAt, PcieStream
  <2>1. Over(c) \/ DoneQueued(c, m)
    BY <1>4, <1>5, <1>6 DEF DoneWaitInv
  <2>. QED BY <2>1, EndShifts
<1>. QED BY <1>9, <1>10, <1>11, <1>12 DEF EndInv

(* No step of the device breaks the order at the end of a collective. *)
LEMMA DeviceOver ==
  ASSUME Types, Types', InputInv, OverInv, NEW s \in Streams, Executes(s), Ends(s), DeviceTypes'
  PROVE  OverInv'
<1>0. /\ program' = program /\ SameProgram /\ StreamTypes /\ stream[s] # <<>> /\ UNCHANGED <<sequence, todo, index, ticket>>
      /\ ThreadTypes /\ SyncTypes /\ DeviceTypes
  BY ProgramStays DEF Executes, Types, InputInv
<1>1. PICK o \in ItemsOf(s) : o = Head(stream[s]) /\ stream[s][1] = o /\ 1 \in 1 .. Len(stream[s])
                              /\ o.coll \in Colls /\ o.ctx \in Contexts /\ o.seq \in Nat
  BY <1>0, HeadItem
<1>2. \A q \in Streams : \A j \in 1 .. Len(stream'[q]) : \E i \in 1 .. Len(stream[q]) : stream'[q][j] = stream[q][i]
  <2>. TAKE q \in Streams
  <2>1. PICK d \in 0 .. 1 : Moved(q, s, d)
    BY <1>0, ExecutedPlaces
  <2>. QED BY <2>1 DEF Moved
<1>3. \A c : Made(c)' <=> Made(c)
  BY <1>0 DEF Made, Calling
<1>4. MadeInv'
  <2>1. ASSUME NEW q \in Streams, NEW j \in 1 .. Len(stream'[q]) PROVE Made(stream[q][j].coll)'
    <3>1. PICK i \in 1 .. Len(stream[q]) : stream'[q][j] = stream[q][i]
      BY <1>2
    <3>2. Made(stream[q][i].coll)
      BY DEF OverInv, MadeInv
    <3>. QED BY <1>0, <3>1, <3>2 DEF Made, Calling
  <2>2. ASSUME NEW c \in Colls, ~Made(c)' PROVE ~Ended(c)'
    <3>1. ~Made(c) /\ ~Ended(c) /\ c # o.coll
      BY <1>1, <1>3, <2>2 DEF OverInv, MadeInv
    <3>. QED BY <1>1, <3>1 DEF Ends
  <2>. QED BY <1>0, <2>1, <2>2 DEF MadeInv, SameProgram
<1>5. DoneTokensInv'
  <2>. SUFFICES ASSUME NEW x \in Contexts, NEW k \in Slots PROVE token'[x].done[k] < sequence[x]
    BY <1>0 DEF DoneTokensInv, SameProgram, Slots
  <2>1. token[x].done[k] < sequence[x]
    BY DEF OverInv, DoneTokensInv
  <2>2. o.kind = "done" => o.seq < sequence[o.ctx]
    BY <1>1 DEF OverInv, EndsInv, EndInv, DoneTicketInv
  <2>. QED BY <1>1, <2>1, <2>2 DEF Ends
<1>6. ASSUME NEW t \in Threads PROVE EndingInv(t)'
  <2>1. PICK c \in Colls, x \in Contexts, n \in Nat, w \in Seq(StepNames) :
          c = Current(t) /\ x = Ctx(t) /\ n = ticket[t] /\ w = todo[t]
    BY <1>0, CurrentFacts DEF ThreadTypes
  <2>2. Current(t)' = c /\ Ctx(t)' = x /\ ticket'[t] = n /\ todo'[t] = w
    BY <1>0, <2>1 DEF Current, Ctx, Stream, Call
  <2>3. Script(w) /\ Ending(w, c, x, n)
    BY <2>1 DEF OverInv, EndingInv
  <2>4. /\ Over(c) => Over(c)'
        /\ ~Awaited(c) => ~Awaited(c)'
        /\ Clear(PcieStream(c[1]), c, Unawaited) => Clear(PcieStream(c[1]), c, Unawaited)' /\ (Ended(c)' <=> Ended(c))
        /\ Settled(c) => Settled(c)'
        /\ DoneQueued(c, n) => Over(c)' \/ DoneQueued(c, n)'
    BY EndShifts
  <2>5. UnusedDone(x, n) => UnusedDone(x, n)'
    <3>. SUFFICES ASSUME UnusedDone(x, n) PROVE UnusedDone(x, n)'
      OBVIOUS
    <3>1. ASSUME NEW q \in Streams, NEW j \in 1 .. Len(stream'[q]), stream'[q][j].kind = "done", stream'[q][j].ctx = x
          PROVE  stream'[q][j].seq < n
      BY <1>2, <3>1, SMTT(20) DEF UnusedDone
    <3>2. ASSUME NEW k \in Slots PROVE token'[x].done[k] < n
      <4>1. o.kind = "done" /\ o.ctx = x => o.seq < n
        BY <1>1 DEF UnusedDone
      <4>. QED BY <1>1, <4>1 DEF UnusedDone, Ends
    <3>. QED BY <1>0, <3>1, <3>2 DEF UnusedDone, SameProgram, Slots
  <2>6. Ending(w, c, x, n)'
    BY <2>3, <2>4, <2>5 DEF Ending, NoTicket, Unawaited, Calling
  <2>. QED BY <2>2, <2>3, <2>6, ScriptStays DEF EndingInv
<1>. QED BY <1>0, <1>4, <1>5, <1>6, EndsShift DEF OverInv, SameProgram

(* Every step of the device does to the end of a collective what it says. *)
LEMMA DeviceEnds ==
  ASSUME Types, InputInv, NEW s \in Streams, DeviceNext(s)
  PROVE  Executes(s) /\ Ends(s)
<1>0. StreamTypes /\ DeviceTypes
  BY DEF Types, InputInv
<1>1. Executes(s)
  <2>1. stream[s] # <<>> /\ executed(s) /\ UNCHANGED <<program, host>> /\ UNCHANGED <<lock, sequence>>
    BY DEF DeviceNext, WriteToken, WaitToken, WaitEvent, Compute, FillBuffer, RunPcie, FreeAsync, HostCompletion, head,
           DeviceStep, sync
  <2>. QED BY <2>1 DEF Executes, host
<1>2. PICK o \in ItemsOf(s), c \in Colls, x \in Contexts, n \in Nat :
        o = Head(stream[s]) /\ c = o.coll /\ x = o.ctx /\ n = o.seq
  BY <1>1, HeadItem DEF Executes
<1>3. PICK i \in Slots : i = Slot(o)
  <2>1. RingSize \in Nat \ {0}
    BY CollectiveAssumption
  <2>2. n % RingSize \in 0 .. RingSize - 1
    BY <2>1
  <2>. QED BY <1>2, <2>2 DEF Slots, Slot
<1>4. ASSUME token' = token PROVE \A y \in Contexts, k \in Slots : token'[y].done[k] = token[y].done[k]
  BY <1>4
<1>5. ASSUME happened' = happened \/ \E d \in Colls : \E e : e # "ended" /\ happened' = [happened EXCEPT ![d] = @ \cup {e}]
      PROVE  \A d \in Colls : Ended(d)' <=> Ended(d)
  <2>1. CASE happened' = happened
    BY <2>1 DEF Ended
  <2>2. CASE \E d \in Colls : \E e : e # "ended" /\ happened' = [happened EXCEPT ![d] = @ \cup {e}]
    <3>1. PICK d, e : d \in Colls /\ e # "ended" /\ happened' = [happened EXCEPT ![d] = @ \cup {e}]
      BY <2>2
    <3>2. \A b \in Colls : happened'[b] = IF b = d THEN happened[d] \cup {e} ELSE happened[b]
      BY <1>0, <3>1 DEF DeviceTypes
    <3>. QED BY <3>1, <3>2 DEF Ended
  <2>. QED BY <1>5, <2>1, <2>2
<1>6. CASE WriteToken(s)
  <2>1. /\ happened' = happened /\ o.kind \in {"ready", "done"}
        /\ token' = IF o.kind = "ready" THEN [token EXCEPT ![x].input[i] = n] ELSE [token EXCEPT ![x].done[i] = n]
    BY <1>2, <1>3, <1>6 DEF WriteToken, device
  <2>2. PICK T : T = [input : [Slots -> Nat], done : [Slots -> Nat]]
    OBVIOUS
  <2>3. token \in [Contexts -> T]
    BY <1>0, <2>2 DEF DeviceTypes
  <2>4. \A y \in Contexts, k \in Slots :
          token'[y].done[k] = token[y].done[k] \/ (o.kind = "done" /\ y = x /\ token'[y].done[k] = n)
    BY <2>1, <2>2, <2>3
  <2>5. \A d \in Colls : Ended(d)' <=> Ended(d)
    BY <1>5, <2>1
  <2>6. o.kind \notin Parts /\ o.kind # "wait_done" /\ o.kind # "wait_event"
    BY <2>1 DEF Parts
  <2>. QED BY <1>1, <1>2, <2>4, <2>5, <2>6 DEF Ends
<1>7. CASE WaitToken(s)
  <2>1. happened' = happened /\ token' = token /\ o.kind \in {"wait_ready", "wait_done"}
        /\ (o.kind = "wait_done" => token[x].done[i] >= n)
    BY <1>2, <1>3, <1>7 DEF WaitToken, device, sync
  <2>2. o.kind \notin Parts /\ o.kind # "wait_event"
    BY <2>1 DEF Parts
  <2>. QED BY <1>1, <1>2, <1>4, <1>5, <2>1, <2>2 DEF Ends
<1>8. CASE WaitEvent(s) \/ FreeAsync(s)
  <2>1. happened' = happened /\ token' = token /\ o.kind \in {"wait_event", "free"} /\ (o.kind = "wait_event" => Ended(c))
    BY <1>2, <1>8 DEF WaitEvent, FreeAsync, device, sync, head, Ended
  <2>2. o.kind \notin Parts /\ o.kind # "wait_done"
    BY <2>1 DEF Parts
  <2>. QED BY <1>1, <1>2, <1>4, <1>5, <2>1, <2>2 DEF Ends
<1>9. CASE Compute(s) \/ FillBuffer(s)
  <2>1. /\ token' = token /\ o.kind \in {"produce", "consume", "merge", "pack", "fast"}
        /\ happened' = [happened EXCEPT ![c] = @ \cup {o.kind}]
    BY <1>2, <1>9 DEF Compute, FillBuffer, mark, sync
  <2>2. o.kind \notin Parts /\ o.kind # "wait_done" /\ o.kind # "wait_event" /\ o.kind # "ended"
    BY <2>1 DEF Parts
  <2>. QED BY <1>1, <1>2, <1>4, <1>5, <2>1, <2>2 DEF Ends
<1>10. CASE RunPcie(s)
  <2>1. /\ token' = token /\ o.kind \in Parts
        /\ happened' = [happened EXCEPT ![c] = @ \cup {o.kind, "ended"}]
    BY <1>2, <1>10 DEF RunPcie, sync, Parts
  <2>2. \A d \in Colls : happened'[d] = IF d = c THEN happened[c] \cup {o.kind, "ended"} ELSE happened[d]
    BY <1>0, <2>1 DEF DeviceTypes
  <2>3. \A d \in Colls : Ended(d)' <=> Ended(d) \/ d = c
    BY <2>1, <2>2 DEF Ended, Parts
  <2>4. o.kind # "wait_done" /\ o.kind # "wait_event" /\ o.kind # "done"
    BY <2>1 DEF Parts
  <2>. QED BY <1>1, <1>2, <1>4, <2>1, <2>3, <2>4 DEF Ends
<1>11. CASE HostCompletion(s)
  <2>1. token' = token /\ o.kind = "callback"
    BY <1>2, <1>11 DEF HostCompletion, sync, head
  <2>2. o.kind \notin Parts /\ o.kind # "wait_done" /\ o.kind # "wait_event"
    BY <2>1 DEF Parts
  <2>3. happened' = happened \/ (pending[s] # <<>> /\ mark(Head(pending[s]).coll, "merge"))
    BY <1>11 DEF HostCompletion
  <2>4. ASSUME pending[s] # <<>> PROVE Head(pending[s]).coll \in Colls
    <3>1. s \in UserStreams
      BY <1>2, <2>1, CollFacts DEF ItemsOf, Place, PcieKinds, Types, ThreadTypes
    <3>2. pending[s] \in Seq(Records(s))
      BY <1>0, <3>1 DEF StreamTypes
    <3>3. Head(pending[s]) \in Records(s)
      BY <2>4, <3>2
    <3>. QED BY <3>3 DEF Records
  <2>5. \A d \in Colls : Ended(d)' <=> Ended(d)
    BY <1>5, <2>3, <2>4 DEF mark
  <2>. QED BY <1>1, <1>2, <1>4, <2>1, <2>2, <2>5 DEF Ends
<1>. QED BY <1>6, <1>7, <1>8, <1>9, <1>10, <1>11 DEF DeviceNext

(* Before the first call *)
LEMMA OverInit ==
  ASSUME Init, Types
  PROVE  OverInv
<1>0. ThreadTypes
  BY DEF Types
<1>1. MadeInv /\ EndsInv
  BY DEF Init, MadeInv, EndsInv, Ended
<1>2. DoneTokensInv
  <2>. SUFFICES ASSUME NEW x \in Contexts, NEW k \in Slots PROVE token[x].done[k] < sequence[x]
    BY DEF DoneTokensInv
  <2>1. token[x].done = [i \in Slots |-> 0]
    BY DEF Init, Slots
  <2>2. token[x].done[k] = 0
    BY <2>1
  <2>3. sequence[x] = 1
    BY DEF Init
  <2>. QED BY <2>2, <2>3
<1>3. ASSUME NEW t \in Threads PROVE EndingInv(t)
  <2>1. PICK w : w = <<"call">>
    OBVIOUS
  <2>2. todo[t] = w /\ Calling(w)
    BY <2>1 DEF Init, Calling
  <2>3. Script(w) /\ ~Has(w, "pcie") /\ ~Has(w, "write_done") /\ ~Has(w, "wait_done")
    <3>1. {"pcie", "write_done", "wait_done"} \subseteq StepNames \ {"call", "return"}
      BY DEF StepNames
    <3>. QED BY <2>1, <3>1, RestScripts
  <2>. QED BY <2>2, <2>3 DEF EndingInv, Ending
<1>. QED BY <1>1, <1>2, <1>3 DEF OverInv

(* Nothing changes where nothing happens. *)
LEMMA OverStutter ==
  ASSUME Types, OverInv, UNCHANGED vars
  PROVE  OverInv'
<1>1. UNCHANGED <<program, todo, index, ticket, stream, lock, sequence, token, happened>> /\ SameProgram
  BY ProgramStays DEF vars, host, sync, device
<1>2. /\ \A c : Over(c)' <=> Over(c)
      /\ \A c : Awaited(c)' <=> Awaited(c)
      /\ \A c : Ended(c)' <=> Ended(c)
      /\ \A c : Made(c)' <=> Made(c)
      /\ \A c : Clear(PcieStream(c[1]), c, Unawaited)' <=> Clear(PcieStream(c[1]), c, Unawaited)
      /\ \A c, n : DoneQueued(c, n)' <=> DoneQueued(c, n)
      /\ \A x, n : UnusedDone(x, n)' <=> UnusedDone(x, n)
  BY <1>1 DEF Over, Awaited, Ended, Made, Calling, Clear, At, DoneQueued, DoneAt, UnusedDone, Parts, Ways, Unawaited, SameProgram,
              Slots, PcieStream, Call
<1>3. MadeInv' /\ DoneTokensInv'
  BY <1>1, <1>2 DEF OverInv, MadeInv, Made, Calling, DoneTokensInv, SameProgram, Slots
<1>4. EndsInv'
  <2>1. ASSUME NEW s \in Streams, NEW j \in 1 .. Len(stream[s]), EndInv(s, j) PROVE EndInv(s, j)'
    <3>1. PICK o : o = stream[s][j] /\ stream'[s][j] = o
      BY <1>1
    <3>2. PartInv(s, j)'
      BY <1>1, <2>1 DEF EndInv, PartInv, At, Parts, Ended
    <3>3. DoneInv(s, j)'
      BY <1>1, <2>1 DEF EndInv, DoneInv, At, Parts
    <3>4. DoneTicketInv(s, j)'
      BY <1>1, <2>1 DEF EndInv, DoneTicketInv, Slots
    <3>5. DoneWaitInv(s, j)'
      BY <1>1, <2>1 DEF EndInv, DoneWaitInv, Over, Clear, At, DoneQueued, DoneAt, PcieStream, Parts
    <3>. QED BY <3>2, <3>3, <3>4, <3>5 DEF EndInv
  <2>. QED BY <1>1, <2>1 DEF OverInv, EndsInv, SameProgram
<1>5. ASSUME NEW t \in Threads PROVE EndingInv(t)'
  <2>1. PICK c, x, n, w : c = Current(t) /\ x = Ctx(t) /\ n = ticket[t] /\ w = todo[t]
    OBVIOUS
  <2>2. Script(w) /\ Ending(w, c, x, n)
    BY <2>1 DEF OverInv, EndingInv
  <2>3. Ending(w, c, x, n)'
    BY <1>2, <2>2 DEF Ending, Settled, NoTicket, Unawaited, Calling
  <2>4. Current(t)' = c /\ Ctx(t)' = x /\ ticket'[t] = n /\ todo'[t] = w
    BY <1>1, <2>1 DEF Current, Ctx, Stream, Call
  <2>. QED BY <2>2, <2>3, <2>4, ScriptStays DEF EndingInv
<1>. QED BY <1>1, <1>3, <1>4, <1>5 DEF OverInv, SameProgram

(* The two ends of a collective together *)
StreamsInv == Types /\ InputInv /\ OverInv

(* The streams are in order at first. *)
LEMMA StreamsInit == Init => StreamsInv
BY InitOK, InputInit, OverInit DEF StreamsInv

(* Every step keeps the streams in order. *)
LEMMA StreamsStay ==
  ASSUME StreamsInv, [Next]_vars
  PROVE  StreamsInv'
<1>1. ASSUME NEW t \in Threads, HostNext(t) PROVE StreamsInv'
  <2>1. Types' /\ InputInv' /\ HostEffect(t)
    BY <1>1, HostStepOK, EffectOfHost DEF StreamsInv
  <2>. QED BY <2>1, HostOver DEF StreamsInv
<1>2. ASSUME NEW s \in Streams, DeviceNext(s) PROVE StreamsInv'
  <2>1. Types' /\ InputInv' /\ Executes(s) /\ Ends(s)
    BY <1>2, DeviceStepOK, DeviceEnds DEF StreamsInv
  <2>2. DeviceTypes'
    BY <2>1 DEF InputInv
  <2>. QED BY <2>1, <2>2, DeviceOver DEF StreamsInv
<1>3. CASE UNCHANGED vars
  BY <1>3, StutterOK, InputStutter, OverStutter DEF StreamsInv
<1>. QED BY <1>1, <1>2, <1>3 DEF Next, Work

-----------------------------------------------------------------------------
(* Callbacks and completion records *)

(* The callbacks among the first j operations of a stream *)
IsCall(o)   == o.kind = "callback"
Calls(q, j) == Cardinality({i \in 1 .. j : IsCall(q[i])})

(* The callbacks up to a place are counted one by one. *)
LEMMA CallsFacts ==
  ASSUME NEW q, NEW j \in Nat
  PROVE  /\ IsFiniteSet({i \in 1 .. j : IsCall(q[i])}) /\ Calls(q, j) \in Nat /\ Calls(q, 0) = 0
         /\ Calls(q, j + 1) = Calls(q, j) + (IF IsCall(q[j + 1]) THEN 1 ELSE 0)
<1>1. \A n \in Nat : IsFiniteSet({i \in 1 .. n : IsCall(q[i])}) /\ Calls(q, n) \in Nat
  <2>. TAKE n \in Nat
  <2>1. IsFiniteSet(1 .. n)
    BY FS_Interval
  <2>2. {i \in 1 .. n : IsCall(q[i])} \in SUBSET (1 .. n)
    OBVIOUS
  <2>3. IsFiniteSet({i \in 1 .. n : IsCall(q[i])})
    BY <2>1, <2>2, FS_Subset
  <2>. QED BY <2>3, FS_CardinalityType DEF Calls
<1>2. Calls(q, 0) = 0
  <2>1. {i \in 1 .. 0 : IsCall(q[i])} = {}
    OBVIOUS
  <2>. QED BY <2>1, FS_EmptySet DEF Calls
<1>3. CASE IsCall(q[j + 1])
  <2>1. {i \in 1 .. j + 1 : IsCall(q[i])} = {i \in 1 .. j : IsCall(q[i])} \cup {j + 1}
    BY <1>3
  <2>2. j + 1 \notin {i \in 1 .. j : IsCall(q[i])}
    OBVIOUS
  <2>3. Cardinality({i \in 1 .. j : IsCall(q[i])} \cup {j + 1}) = Cardinality({i \in 1 .. j : IsCall(q[i])}) + 1
    BY <1>1, <2>2, FS_AddElement
  <2>. QED BY <1>1, <1>2, <1>3, <2>1, <2>3 DEF Calls
<1>4. CASE ~IsCall(q[j + 1])
  <2>1. {i \in 1 .. j + 1 : IsCall(q[i])} = {i \in 1 .. j : IsCall(q[i])}
    BY <1>4
  <2>. QED BY <1>1, <1>2, <1>4, <2>1 DEF Calls
<1>. QED BY <1>1, <1>2, <1>3, <1>4

(* The number grows along the stream, and at every callback. *)
LEMMA CallsGrow ==
  ASSUME NEW q, NEW i \in Nat, NEW j \in Nat, i <= j
  PROVE  /\ Calls(q, i) \in Nat /\ Calls(q, j) \in Nat /\ Calls(q, i) <= Calls(q, j)
         /\ i < j /\ IsCall(q[j]) => Calls(q, i) < Calls(q, j)
<1>1. \A m \in Nat : i <= m => Calls(q, i) <= Calls(q, m)
  <2>. SUFFICES ASSUME NEW m \in Nat, i <= m PROVE Calls(q, i) <= Calls(q, m)
    OBVIOUS
  <2>1. {k \in 1 .. i : IsCall(q[k])} \in SUBSET {k \in 1 .. m : IsCall(q[k])}
    OBVIOUS
  <2>2. IsFiniteSet({k \in 1 .. m : IsCall(q[k])})
    BY CallsFacts
  <2>. QED BY <2>1, <2>2, FS_Subset DEF Calls
<1>2. Calls(q, i) \in Nat /\ Calls(q, j) \in Nat
  BY CallsFacts
<1>3. ASSUME i < j, IsCall(q[j]) PROVE Calls(q, i) < Calls(q, j)
  <2>1. PICK m \in Nat : j = m + 1 /\ i <= m
    <3>1. j - 1 \in Nat /\ j = (j - 1) + 1 /\ i <= j - 1
      BY <1>3
    <3>. QED BY <3>1
  <2>2. Calls(q, j) = Calls(q, m) + 1 /\ Calls(q, m) \in Nat
    BY <1>3, <2>1, CallsFacts
  <2>. QED BY <1>1, <1>2, <2>1, <2>2
<1>. QED BY <1>1, <1>2, <1>3

(* It depends on what the first operations are. *)
LEMMA CallsSame ==
  ASSUME NEW q, NEW r, NEW j \in Nat, \A i \in 1 .. j : r[i] = q[i]
  PROVE  Calls(r, j) = Calls(q, j)
<1>1. {i \in 1 .. j : IsCall(r[i])} = {i \in 1 .. j : IsCall(q[i])}
  OBVIOUS
<1>. QED BY <1>1 DEF Calls

(* Without the first operation it is less by that operation. *)
LEMMA CallsShift ==
  ASSUME NEW q, NEW r, NEW j \in Nat, \A i \in 1 .. j : r[i] = q[i + 1]
  PROVE  Calls(q, j + 1) = Calls(r, j) + (IF IsCall(q[1]) THEN 1 ELSE 0)
<1>. DEFINE A == {i \in 1 .. j : IsCall(r[i])}
            B == {i \in 2 .. j + 1 : IsCall(q[i])}
            f == [i \in A |-> i + 1]
<1>1. IsFiniteSet(A) /\ Cardinality(A) \in Nat /\ Calls(r, j) = Cardinality(A)
  BY CallsFacts DEF Calls
<1>2. f \in Bijection(A, B)
  <2>1. f \in [A -> B]
    <3>. SUFFICES ASSUME NEW i \in A PROVE i + 1 \in B
      OBVIOUS
    <3>1. i \in 1 .. j /\ IsCall(q[i + 1])
      OBVIOUS
    <3>. QED BY <3>1
  <2>2. \A a, b \in A : f[a] = f[b] => a = b
    OBVIOUS
  <2>3. ASSUME NEW b \in B PROVE \E a \in A : f[a] = b
    <3>1. b - 1 \in 1 .. j /\ b - 1 + 1 = b
      OBVIOUS
    <3>2. b - 1 \in A
      BY <3>1
    <3>. QED BY <3>1, <3>2
  <2>. QED BY <2>1, <2>2, <2>3 DEF Bijection, Injection, Surjection, IsInjective
<1>3. IsFiniteSet(B) /\ Cardinality(B) = Cardinality(A)
  BY <1>1, <1>2, FS_Bijection DEF ExistsBijection
<1>4. CASE IsCall(q[1])
  <2>1. {i \in 1 .. j + 1 : IsCall(q[i])} = B \cup {1}
    BY <1>4
  <2>2. 1 \notin B
    OBVIOUS
  <2>3. Cardinality(B \cup {1}) = Cardinality(B) + 1
    BY <1>3, <2>2, FS_AddElement
  <2>. QED BY <1>1, <1>3, <1>4, <2>1, <2>3 DEF Calls
<1>5. CASE ~IsCall(q[1])
  <2>1. {i \in 1 .. j + 1 : IsCall(q[i])} = B
    BY <1>5
  <2>. QED BY <1>1, <1>3, <1>5, <2>1 DEF Calls
<1>. QED BY <1>4, <1>5

(* No use of a buffer by c is queued on stream s at j or later, and its    *)
(* PCIe part is over or awaited before j.                                  *)
Behind(s, j, c) ==
  /\ \A i \in 1 .. Len(stream[s]) : i >= j => ~At(s, i, c, Fills)
  /\ Over(c) \/ \E i \in 1 .. Len(stream[s]) : i < j /\ At(s, i, c, Ways)

(* A record may be taken by a callback at j. *)
RecordInv(s, j, r) ==
  /\ Behind(s, j, r.coll)
  /\ r.timed # Nobody => Call(r.timed).stream = s /\ Behind(s, j, r.timed)

(* The threads that have registered a record on stream s without callback  *)
Owes(w)  == Has(w, "callback") /\ ~Has(w, "register")
Owing(s) == {t \in Threads : Stream(t) = s /\ Owes(todo[t])}

(* The records are those of the callbacks on the stream, then those of the *)
(* threads that owe one.                                                   *)
Counted(s) ==
  IsFiniteSet(Owing(s)) /\ Len(pending[s]) = Calls(stream[s], Len(stream[s])) + Cardinality(Owing(s))
RecordsInv(s) ==
  /\ Counted(s)
  /\ \A j \in 1 .. Len(stream[s]) : IsCall(stream[s][j]) => RecordInv(s, j, pending[s][Calls(stream[s], j)])
  /\ \A k \in 1 .. Len(pending[s]) : RecordInv(s, Len(stream[s]) + 1, pending[s][k])

(* A collective that still uses a buffer or its part, or has no record yet *)
(* is in no record, and the application has queued nothing behind it.      *)
Used(w) == \E step \in Fills \cup {"pcie", "register"} : Has(w, step)
Unrecorded(c) ==
  \A s \in UserStreams : \A k \in 1 .. Len(pending[s]) : pending[s][k].coll # c /\ pending[s][k].timed # c
Fresh(c) == Unrecorded(c) /\ Clear(Call(c).stream, c, {"consume"})

RecordsMade ==
  \A s \in UserStreams : \A k \in 1 .. Len(pending[s]) :
    Made(pending[s][k].coll) /\ (pending[s][k].timed # Nobody => Made(pending[s][k].timed))
CompletionInv ==
  /\ \A s \in UserStreams : RecordsInv(s)
  /\ \A t \in Threads : Used(todo[t]) => Fresh(Current(t))
  /\ RecordsMade

(* A script with a step before the report of the collective owes nothing.  *)
LEMMA NotOwing ==
  ASSUME NEW w \in Seq(StepNames), Script(w), NEW step \in StepNames \ {"register", "attach", "callback", "return"},
         Has(w, step)
  PROVE  ~Owes(w)
<1>1. PICK i \in 1 .. Len(w) : w[i] = step
  BY DEF Has
<1>2. ~(Stage[w[i]] >= 2)
  BY <1>1, StageValues
<1>. QED BY <1>2 DEF Script, Reports, Owes

(* What the steps of a thread do to what it owes and uses *)
Reporting == {"register", "attach", "callback"}
OwesStep(w, v, h) ==
  /\ Owes(w) <=> h \in {"attach", "callback"}
  /\ Owes(v) <=> h \in {"register", "attach"}
  /\ Used(v) => h \notin Reporting \cup {"return"} /\ (h = "call" \/ Used(w))
  /\ h \in Fills \cup {"pcie", "register"} => Used(w)

(* How taking the next step changes what a thread owes a stream *)
LEMMA OwesTail ==
  ASSUME NEW w \in Seq(StepNames), w # <<>>, InOrder(w), Script(w), NEW h \in StepNames, h = Head(w), h # "call"
  PROVE  OwesStep(w, Tail(w), h)
<1>. DEFINE v == Tail(w)
<1>1. /\ \A step : Has(v, step) => Has(w, step) /\ step \in StepNames
      /\ \A step : Has(w, step) /\ step # h => Has(v, step)
      /\ Has(w, h)
      /\ \A step : Has(v, step) /\ Stage[h] # 1 => step \in StepNames /\ Stage[h] < Stage[step]
      /\ Has(w, "callback") /\ Stage[h] = 1 => Has(v, "register")
  <2>1. v \in Seq(StepNames) /\ 1 \in 1 .. Len(w) /\ h = w[1]
    OBVIOUS
  <2>2. Has(w, h) /\ \A step : Has(v, step) => step \in StepNames
    BY <2>1 DEF Has
  <2>. QED BY <2>2, TailInOrder, ScriptTail
<1>. HIDE DEF v
<1>2. /\ Has(w, "register") => Has(w, "attach")
      /\ Has(w, "attach") => Has(w, "callback")
  BY DEF Script, Follows
<1>3. Used(v) => Used(w)
  BY <1>1 DEF Used
<1>4. Used(v) => Stage[h] = 1
  <2>. SUFFICES ASSUME NEW step \in Fills \cup {"pcie", "register"}, Has(v, step), Stage[h] # 1 PROVE FALSE
    BY DEF Used
  <2>1. Stage[step] \in {1, 2} /\ Stage[h] < Stage[step] /\ Stage[h] \in 1 .. 5
    BY <1>1, StageValues DEF Fills, StepNames
  <2>. QED BY <2>1
<1>5. h \in Fills \cup {"pcie", "register"} => Used(w)
  BY <1>1 DEF Used
<1>6. CASE h = "register"
  <2>1. ~Has(v, "register") /\ Has(v, "callback")
    BY <1>1, <1>2, <1>6, StageValues
  <2>. QED BY <1>1, <1>4, <1>5, <1>6, <2>1, StageValues DEF OwesStep, Owes, Reporting, v
<1>7. CASE h = "attach"
  <2>1. ~Has(w, "register") /\ ~Has(v, "register") /\ Has(v, "callback") /\ Has(w, "callback")
    BY <1>1, <1>2, <1>7, StageValues
  <2>. QED BY <1>1, <1>4, <1>5, <1>7, <2>1, StageValues DEF OwesStep, Owes, Reporting, v
<1>8. CASE h = "callback"
  <2>1. ~Has(w, "register") /\ ~Has(v, "callback") /\ Has(w, "callback")
    BY <1>1, <1>2, <1>8, StageValues
  <2>. QED BY <1>1, <1>4, <1>5, <1>8, <2>1, StageValues DEF OwesStep, Owes, Reporting, v
<1>9. CASE h = "return"
  <2>1. ~Has(w, "callback") /\ ~Has(v, "callback")
    BY <1>1, <1>9, StageValues
  <2>. QED BY <1>3, <1>4, <1>5, <1>9, <2>1, StageValues DEF OwesStep, Owes, Reporting, v
<1>10. CASE h \notin {"register", "attach", "callback", "return"}
  <2>1. ~Owes(w) /\ ~Owes(v)
    BY <1>1, <1>10, NotOwing, StageValues DEF Owes
  <2>. QED BY <1>3, <1>5, <1>10, <2>1 DEF OwesStep, Reporting, v
<1>. QED BY <1>6, <1>7, <1>8, <1>9, <1>10

(* How any step changes what a thread owes a stream *)
LEMMA OwesMoves ==
  ASSUME Types, Types', NEW t \in Threads, HostEffect(t),
         NEW c \in Colls, NEW x \in Contexts, NEW n \in Nat, NEW w \in Seq(StepNames), NEW h \in StepNames,
         Facing(t, c, x, n, w, h), NEW v, v = todo'[t]
  PROVE  /\ OwesStep(w, v, h)
         /\ h \in Reporting => Current(t)' = c
         /\ Current(t)' = c \/ (v = <<"call">> /\ h = "return")
<1>0. /\ w = todo[t] /\ h = Head(w) /\ w # <<>> /\ Script(w) /\ InOrder(w) /\ Moves(t, w) /\ ThreadTypes
      /\ c = Current(t) /\ (Has(w, "call") => Calling(w)) /\ program' = program
  BY DEF Facing, HostEffect, HostShape, Types
<1>1. ASSUME index' = index PROVE Current(t)' = c
  BY <1>0, <1>1 DEF Current
<1>2. CASE Advance(t, w)
  <2>1. v = Tail(w) /\ h # "call" /\ index' = index
    BY <1>0, <1>2 DEF Advance, next, ThreadTypes
  <2>. QED BY <1>0, <1>1, <2>1, OwesTail
<1>3. Has(w, h)
  <2>1. 1 \in 1 .. Len(w) /\ h = w[1]
    BY <1>0
  <2>. QED BY <2>1 DEF Has
<1>4. CASE FallsBack(t, w)
  <2>1. PICK step, k : Fallback(w, step, k) /\ Instead(t, step, k)
    BY <1>4 DEF FallsBack
  <2>2. /\ v = <<step>> \o SubSeq(w, 1 + k, Len(w)) /\ step \in {"sync_user", "event"}
        /\ h \in {"input", "input_wait", "write_done", "wait_done"}
    BY <1>0, <2>1 DEF Instead, ThreadTypes, Fallback
  <2>3. Script(v) /\ v \in Seq(StepNames) /\ Has(v, step) /\ \A a : Has(v, a) /\ a # step => Has(w, a)
    BY <1>0, <2>1, <2>2, ScriptFallback
  <2>4. ~Owes(v) /\ ~Owes(w)
    BY <1>0, <1>3, <2>2, <2>3, NotOwing DEF StepNames
  <2>5. Used(v) => Used(w)
    BY <2>2, <2>3 DEF Used, Fills
  <2>6. Current(t)' = c
    BY <1>1, <1>4 DEF FallsBack, Keeps
  <2>. QED BY <2>2, <2>4, <2>5, <2>6 DEF OwesStep, Fills, Reporting
<1>5. CASE CutsShort(t, w)
  <2>1. Current(t)' = c /\ h \in {"alloc", "sync_user"}
    BY <1>0, <1>1, <1>5 DEF CutsShort, Keeps
  <2>2. ~Owes(w)
    BY <1>0, <1>3, <2>1, NotOwing DEF StepNames
  <2>3. CASE h = "alloc"
    <3>1. v = <<"fast">> \o Notify \o <<"return">>
      BY <1>0, <1>5, <2>3 DEF CutsShort, ThreadTypes
    <3>2. v \in Seq(StepNames) /\ Script(v) /\ Has(v, "fast")
      BY <3>1, ShortStarts
    <3>3. ~Owes(v)
      BY <3>2, NotOwing DEF StepNames
    <3>4. Has(w, "fast")
      BY <1>0, <1>3, <2>3 DEF Script, Follows
    <3>. QED BY <2>1, <2>2, <2>3, <3>3, <3>4 DEF OwesStep, Used, Fills, Reporting
  <2>4. CASE h = "sync_user"
    <3>1. v = <<"return">>
      BY <1>0, <1>5, <2>4 DEF CutsShort, ThreadTypes
    <3>2. \A step \in StepNames \ {"call", "return"} : ~Has(v, step)
      BY <3>1, RestScripts
    <3>3. ~Owes(v) /\ ~Used(v)
      BY <3>2 DEF Owes, Used, Fills, StepNames
    <3>. QED BY <2>1, <2>2, <2>4, <3>3 DEF OwesStep, Fills, Reporting
  <2>. QED BY <2>1, <2>3, <2>4
<1>6. CASE StartsCall(t, w)
  <2>1. Current(t)' = c /\ h = "call"
    BY <1>0, <1>1, <1>6 DEF StartsCall, Keeps
  <2>2. Call(c).op \in {"AllReduce", "AllGather", "ReduceScatter", "AllToAll"}
    BY <1>0, CollFacts DEF ThreadTypes
  <2>3. PICK p : p = LaunchPlan(c)
    OBVIOUS
  <2>4. v = StepsOf(Call(c).op, p) \o <<"return">>
    BY <1>0, <1>6, <2>3 DEF StartsCall, ThreadTypes
  <2>5. Starts(v, Call(c).op)
    BY <2>2, <2>4, WholeScript
  <2>6. ~Owes(v)
    BY <2>5, NotOwing DEF Starts, StepNames
  <2>7. ~Owes(w)
    BY <1>0, <1>3, <2>1, NotOwing DEF StepNames
  <2>. QED BY <2>1, <2>6, <2>7 DEF OwesStep, Fills, Reporting
<1>7. CASE GoesOn(t, w)
  <2>1. v = <<"call">> /\ h = "return"
    BY <1>0, <1>7 DEF GoesOn, ThreadTypes
  <2>2. \A step \in StepNames \ {"call", "return"} : ~Has(v, step)
    BY <2>1, RestScripts
  <2>3. ~Owes(v) /\ ~Used(v)
    BY <2>2 DEF Owes, Used, Fills, StepNames
  <2>4. ~Owes(w)
    <3>1. OwesStep(w, Tail(w), h)
      BY <1>0, <2>1, OwesTail
    <3>. QED BY <2>1, <3>1 DEF OwesStep
  <2>. QED BY <2>1, <2>3, <2>4 DEF OwesStep, Fills, Reporting
<1>. QED BY <1>0, <1>2, <1>4, <1>5, <1>6, <1>7 DEF Moves

(* Records are changed by the steps that register and attach only. *)
LEMMA PendingOf ==
  ASSUME NEW t, HostNext(t)
  PROVE  \/ Head(todo[t]) = "register" /\ RegisterPending(t)
         \/ Head(todo[t]) = "attach" /\ AttachTimers(t)
         \/ Head(todo[t]) \notin {"register", "attach"} /\ pending' = pending
<1>1. CASE RegisterPending(t) \/ AttachTimers(t)
  BY <1>1, ActionHeads DEF at
<1>2. ASSUME StartCall(t) \/ Allocate(t) \/ BeginValueSync(t) \/ NoValueSync(t) \/ SynchronizeFails(t) \/ PciePart(t)
      PROVE  Head(todo[t]) \notin {"register", "attach"} /\ pending' = pending
  <2>1. pending' = pending
    BY <1>2 DEF StartCall, Allocate, BeginValueSync, NoValueSync, SynchronizeFails, PciePart
  <2>2. Head(todo[t]) \in {"call", "alloc", "begin", "sync_user", "pcie"}
    BY <1>2, ActionHeads DEF at
  <2>. QED BY <2>1, <2>2
<1>3. ASSUME \/ EnqueueInputReady(t) \/ EnqueueInputWait(t) \/ SynchronizeUser(t) \/ Pack(t) \/ FastPart(t)
             \/ EnqueueWrite(t) \/ EnqueueWait(t) \/ WaitEventOnStream(t) \/ SyncPcieStream(t) \/ EnqueueCallback(t)
      PROVE  Head(todo[t]) \notin {"register", "attach"} /\ pending' = pending
  <2>1. HostStep(t)
    BY <1>3 DEF EnqueueInputReady, EnqueueInputWait, SynchronizeUser, Pack, FastPart, EnqueueWrite, EnqueueWait,
                WaitEventOnStream, SyncPcieStream, EnqueueCallback
  <2>2. Head(todo[t]) \in {"input", "input_wait", "sync_user", "pack", "fast", "write_done", "wait_done", "event",
                           "sync_pcie", "callback"}
    BY <1>3, ActionHeads DEF at
  <2>. QED BY <2>1, <2>2 DEF HostStep
<1>4. ASSUME Merge(t) \/ Return(t)
      PROVE  Head(todo[t]) \notin {"register", "attach"} /\ pending' = pending
  <2>1. pending' = pending
    BY <1>4 DEF Merge, Return
  <2>2. Head(todo[t]) \in {"merge", "return"}
    BY <1>4, ActionHeads DEF at
  <2>. QED BY <2>1, <2>2
<1>. QED BY <1>1, <1>2, <1>3, <1>4 DEF HostNext

(* Who owes a callback after a step of thread t *)
LEMMA OwingMoves ==
  ASSUME Types, Types', NEW t \in Threads, HostEffect(t),
         NEW c \in Colls, NEW x \in Contexts, NEW n \in Nat, NEW w \in Seq(StepNames), NEW h \in StepNames,
         Facing(t, c, x, n, w, h), NEW s
  PROVE  /\ h = "register" => t \notin Owing(s) /\ Owing(s)' = IF s = Call(c).stream THEN Owing(s) \cup {t} ELSE Owing(s)
         /\ h = "callback" => Owing(s)' = Owing(s) \ {t}
         /\ h \in {"attach", "callback"} => (t \in Owing(s) <=> s = Call(c).stream)
         /\ h \notin {"register", "callback"} => Owing(s)' = Owing(s)
         /\ h \notin {"attach", "callback"} => t \notin Owing(s)
<1>0. /\ SameProgram /\ program' = program /\ ThreadTypes /\ c = Current(t) /\ w = todo[t] /\ Stream(t) = Call(c).stream
      /\ \A q \in Threads : q # t => todo'[q] = todo[q] /\ Stream(q)' = Stream(q)
  BY HostFrame, CurrentFacts DEF Facing, Types
<1>1. PICK v : v = todo'[t]
  OBVIOUS
<1>2. /\ OwesStep(w, v, h)
      /\ h \in Reporting => Current(t)' = c
  BY <1>1, OwesMoves
<1>3. /\ Owes(w) <=> h \in {"attach", "callback"}
      /\ Owes(v) <=> h \in {"register", "attach"}
  BY <1>2 DEF OwesStep
<1>4. h \in Reporting => Stream(t)' = Stream(t)
  BY <1>0, <1>2 DEF Stream, Call
<1>5. \A q \in Threads : q # t => (q \in Owing(s)' <=> q \in Owing(s))
  BY <1>0 DEF Owing, Owes, Has, SameProgram
<1>6. t \in Owing(s) <=> s = Call(c).stream /\ h \in {"attach", "callback"}
  BY <1>0, <1>3 DEF Owing
<1>7. t \in Owing(s)' <=> s = Call(c).stream /\ h \in {"register", "attach"}
  <2>1. t \in Owing(s)' <=> Stream(t)' = s /\ Owes(v)
    BY <1>0, <1>1 DEF Owing, Owes, Has, SameProgram
  <2>. QED BY <1>0, <1>3, <1>4, <2>1 DEF Reporting
<1>8. Owing(s) \subseteq Threads /\ Owing(s)' \subseteq Threads
  BY <1>0 DEF Owing, SameProgram
<1>9. PICK A, B : A = Owing(s) /\ B = Owing(s)'
  OBVIOUS
<1>10. /\ A \subseteq Threads /\ B \subseteq Threads /\ \A q \in Threads : q # t => (q \in B <=> q \in A)
       /\ t \in A <=> s = Call(c).stream /\ h \in {"attach", "callback"}
       /\ t \in B <=> s = Call(c).stream /\ h \in {"register", "attach"}
  BY <1>5, <1>6, <1>7, <1>8, <1>9
<1>11. \A q : (q \in A => q \in Threads) /\ (q \in B => q \in Threads)
  BY <1>10
<1>12. CASE h = "register"
  <2>1. t \notin A
    BY <1>10, <1>12
  <2>2. \A q : q \in B <=> q \in (IF s = Call(c).stream THEN A \cup {t} ELSE A)
    BY <1>10, <1>11, <1>12
  <2>3. B = IF s = Call(c).stream THEN A \cup {t} ELSE A
    BY <2>2
  <2>. QED BY <1>9, <1>12, <2>1, <2>3
<1>13. CASE h = "callback"
  <2>1. \A q : q \in B <=> q \in A \ {t}
    BY <1>10, <1>11, <1>13
  <2>2. B = A \ {t}
    BY <2>1
  <2>. QED BY <1>9, <1>10, <1>13, <2>2
<1>14. CASE h \notin {"register", "callback"}
  <2>1. \A q : q \in B <=> q \in A
    BY <1>10, <1>11, <1>14
  <2>2. B = A
    BY <2>1
  <2>. QED BY <1>9, <1>10, <1>14, <2>2
<1>. QED BY <1>12, <1>13, <1>14

(* What is behind c on a stream stays so, further on as well, unless the   *)
(* thread is about to use a buffer or to queue the PCIe part of c.         *)
LEMMA BehindStays ==
  ASSUME Types, Types', NEW t \in Threads, HostEffect(t), NEW h \in StepNames, h = Head(todo[t]),
         NEW s \in Streams, NEW j \in Nat, NEW i \in Nat, j <= i, NEW d \in Colls,
         d # Current(t) \/ h \notin Fills \cup {"pcie"}, Behind(s, j, d)
  PROVE  Behind(s, i, d)'
<1>0. program' = program /\ happened' = happened /\ Extended(t, QueuedBy(h))
  BY HostFrame
<1>1. h \notin Fills \cup {"pcie"} => QueuedBy(h) \cap Fills = {} /\ Parts \cap QueuedBy(h) = {}
  BY DEF QueuedBy, Fills, Parts, StepNames
<1>2. Over(d) => Over(d)'
  BY <1>0, <1>1, EndStays
<1>3. ASSUME NEW k \in 1 .. Len(stream'[s]), k >= i, stream'[s][k].coll = d, stream'[s][k].kind \in Fills
      PROVE  FALSE
  <2>1. CASE k \in 1 .. Len(stream[s])
    <3>1. stream'[s][k] = stream[s][k] /\ k >= j
      BY <1>0, <1>3, <2>1, QueuedPlaces
    <3>. QED BY <1>3, <2>1, <3>1 DEF Behind, At
  <2>2. CASE k \notin 1 .. Len(stream[s])
    <3>1. d = Current(t) /\ stream'[s][k].kind \in QueuedBy(h)
      BY <1>0, <1>3, <2>2, QueuedPlaces
    <3>. QED BY <1>1, <1>3, <3>1
  <2>. QED BY <2>1, <2>2
<1>4. ASSUME NEW k \in 1 .. Len(stream[s]), k < j, stream[s][k].coll = d, stream[s][k].kind \in Ways
      PROVE  k \in 1 .. Len(stream'[s]) /\ k < i /\ stream'[s][k].coll = d /\ stream'[s][k].kind \in Ways
  <2>1. k \in 1 .. Len(stream'[s]) /\ stream'[s][k] = stream[s][k]
    BY <1>0, QueuedPlaces
  <2>. QED BY <1>4, <2>1
<1>5. Over(d)' \/ \E k \in 1 .. Len(stream'[s]) : k < i /\ stream'[s][k].coll = d /\ stream'[s][k].kind \in Ways
  BY <1>2, <1>4 DEF Behind, At
<1>. QED BY <1>3, <1>5 DEF Behind, At, Fills, Ways

(* The end of the application's stream is behind what is settled. *)
LEMMA BehindNow ==
  ASSUME Types, NEW d \in Colls, Settled(d), NEW s, s = Call(d).stream
  PROVE  Behind(s, Len(stream[s]) + 1, d)
<1>1. s \in Streams /\ Len(stream[s]) \in Nat
  BY CollFacts, StreamLengths DEF Types, ThreadTypes
<1>2. \A i \in 1 .. Len(stream[s]) : ~(i >= Len(stream[s]) + 1) /\ i < Len(stream[s]) + 1
  BY <1>1
<1>. QED BY <1>2 DEF Behind, Settled, Awaited, Clear

(* A thread that reports, or returns, has settled its collective. *)
LEMMA SettledAt ==
  ASSUME NEW t \in Threads, NEW c \in Colls, NEW x \in Contexts, NEW n \in Nat, NEW w \in Seq(StepNames), NEW h \in StepNames,
         Facing(t, c, x, n, w, h), h \in {"register", "attach", "callback", "return"}
  PROVE  Settled(c)
<1>1. /\ w # <<>> /\ InOrder(w) /\ Script(w) /\ h = Head(w)
      /\ Calling(w) \/ Settled(c) \/ \E step \in {"pcie", "write_done", "wait_done", "event"} : Has(w, step)
  BY DEF Facing, Ending
<1>2. ~Calling(w)
  BY <1>1 DEF Calling
<1>3. Stage[h] \in 2 .. 5
  BY StageValues
<1>4. ASSUME NEW step \in {"pcie", "write_done", "wait_done", "event"}, Has(w, step) PROVE FALSE
  <2>1. Has(Tail(w), step)
    BY <1>1, <1>4, TailInOrder
  <2>2. Stage[h] < Stage[step]
    BY <1>1, <1>3, <2>1, ScriptTail
  <2>3. Stage[step] = 1
    BY StageValues DEF StepNames
  <2>. QED BY <1>3, <2>2, <2>3
<1>. QED BY <1>1, <1>2, <1>4

(* What is no callback does not count. *)
LEMMA CallsMore ==
  ASSUME NEW q, NEW r, NEW m \in Nat, NEW n \in Nat, m <= n, \A i \in 1 .. m : r[i] = q[i],
         \A i \in 1 .. n : i > m => ~IsCall(r[i])
  PROVE  Calls(r, n) = Calls(q, m)
<1>1. {i \in 1 .. n : IsCall(r[i])} = {i \in 1 .. m : IsCall(q[i])}
  OBVIOUS
<1>. QED BY <1>1 DEF Calls

(* A step of thread t keeps the numbers of the callbacks, and adds one to  *)
(* the end of the stream of its collective if it is the callback's.        *)
LEMMA CallsHost ==
  ASSUME Types, Types', NEW t \in Threads, HostEffect(t),
         NEW c \in Colls, NEW x \in Contexts, NEW n \in Nat, NEW w \in Seq(StepNames), NEW h \in StepNames,
         Facing(t, c, x, n, w, h), NEW s \in UserStreams
  PROVE  /\ \A j \in 0 .. Len(stream[s]) : Calls(stream'[s], j) = Calls(stream[s], j)
         /\ ~(h = "callback" /\ s = Call(c).stream) =>
              /\ Calls(stream'[s], Len(stream'[s])) = Calls(stream[s], Len(stream[s]))
              /\ \A j \in 1 .. Len(stream'[s]) : IsCall(stream'[s][j]) => j \in 1 .. Len(stream[s])
         /\ h = "callback" /\ s = Call(c).stream =>
              /\ Len(stream'[s]) = Len(stream[s]) + 1
              /\ Calls(stream'[s], Len(stream[s]) + 1) = Calls(stream[s], Len(stream[s])) + 1
<1>0. /\ program' = program /\ Extended(t, QueuedBy(h)) /\ c = Current(t) /\ h = Head(todo[t]) /\ s \in Streams
      /\ Stream(t) = Call(c).stream /\ w = todo[t] /\ Moves(t, w)
  BY HostFrame, CurrentFacts DEF Facing, Types, Streams, HostEffect
<1>10. PICK m \in Nat, k \in Nat : m = Len(stream[s]) /\ k = Len(stream'[s])
  BY <1>0, QueuedPlaces
<1>11. PICK q, r : q = stream[s] /\ r = stream'[s]
  OBVIOUS
<1>1. q = stream[s] /\ r = stream'[s] /\ m = Len(q) /\ k = Len(r)
  BY <1>10, <1>11
<1>2. /\ m <= k
      /\ \A j \in 1 .. m : r[j] = q[j]
      /\ \A j \in 1 .. k : j \in 1 .. m \/ (j > m /\ r[j].kind \in QueuedBy(h) /\ r[j].coll = c)
      /\ \A j \in 1 .. k : r[j] \in ItemsOf(s)
  BY <1>0, <1>1, QueuedPlaces
<1>3. \A j \in 0 .. m : Calls(r, j) = Calls(q, j)
  <2>. TAKE j \in 0 .. m
  <2>1. j \in Nat /\ \A i \in 1 .. j : r[i] = q[i]
    BY <1>2
  <2>. QED BY <2>1, CallsSame
<1>4. ASSUME ~(h = "callback" /\ s = Call(c).stream)
      PROVE  Calls(r, k) = Calls(q, m) /\ \A j \in 1 .. k : IsCall(r[j]) => j \in 1 .. m
  <2>1. \A j \in 1 .. k : IsCall(r[j]) => j \in 1 .. m
    <3>. SUFFICES ASSUME NEW j \in 1 .. k, IsCall(r[j]), j \notin 1 .. m PROVE FALSE
      OBVIOUS
    <3>1. r[j].kind = "callback" /\ r[j].kind \in QueuedBy(h) /\ r[j].coll = c /\ r[j] \in ItemsOf(s)
      BY <1>2 DEF IsCall
    <3>2. h = "callback"
      BY <3>1 DEF QueuedBy, Parts, StepNames
    <3>3. s = Call(c).stream
      BY <3>1 DEF ItemsOf, Place, PcieKinds
    <3>. QED BY <1>4, <3>2, <3>3
  <2>2. \A j \in 1 .. k : j > m => ~IsCall(r[j])
    BY <2>1
  <2>3. m <= k /\ \A j \in 1 .. m : r[j] = q[j]
    BY <1>2
  <2>4. Calls(r, k) = Calls(q, m)
    BY <2>2, <2>3, CallsMore
  <2>. QED BY <2>1, <2>4
<1>5. ASSUME h = "callback", s = Call(c).stream
      PROVE  k = m + 1 /\ Calls(r, m + 1) = Calls(q, m) + 1
  <2>1. Advance(t, w)
    BY <1>0, <1>5 DEF Facing, Moves, FallsBack, Fallback, CutsShort, StartsCall, GoesOn
  <2>2. PICK kind \in QueuedBy(h) : Adds(t, kind)
    BY <1>0, <1>5, <2>1 DEF Advance
  <2>3. kind = "callback"
    BY <1>5, <2>2 DEF QueuedBy
  <2>4. Len(stream'[s]) = Len(stream[s]) + 1 /\ stream'[s][Len(stream[s]) + 1] = item(kind, t)
    BY <1>0, <1>5, <2>2, <2>3 DEF Adds, PcieKinds
  <2>5. k = m + 1 /\ IsCall(r[m + 1])
    BY <1>1, <2>3, <2>4 DEF IsCall, item
  <2>6. Calls(r, m + 1) = Calls(r, m) + 1
    BY <2>5, CallsFacts
  <2>. QED BY <1>3, <2>5, <2>6
<1>. QED BY <1>1, <1>3, <1>4, <1>5

(* Callbacks up to a place are counted as before. *)
LEMMA CallsKept ==
  ASSUME Types, Types', NEW t \in Threads, HostEffect(t),
         NEW c \in Colls, NEW x \in Contexts, NEW n \in Nat, NEW w \in Seq(StepNames), NEW h \in StepNames,
         Facing(t, c, x, n, w, h), NEW s \in UserStreams
  PROVE  \A j \in 0 .. Len(stream[s]) : Calls(stream'[s], j) = Calls(stream[s], j)
BY CallsHost

(* A record is still of work that lies before a place. *)
LEMMA RecordStays ==
  ASSUME Types, Types', NEW t \in Threads, HostEffect(t), NEW h \in StepNames, h = Head(todo[t]),
         NEW s \in UserStreams, NEW j \in Nat, NEW i \in Nat, j <= i, NEW r \in Records(s),
         (r.coll # Current(t) /\ r.timed # Current(t)) \/ h \notin Fills \cup {"pcie"}, RecordInv(s, j, r)
  PROVE  RecordInv(s, i, r)'
<1>1. PICK d, e : d \in Colls /\ d = r.coll /\ e = r.timed
  BY DEF Records
<1>2. s \in Streams /\ (e # Nobody => e \in Colls)
  BY <1>1 DEF Streams, Records
<1>3. Behind(s, i, d)'
  BY <1>1, <1>2, BehindStays DEF RecordInv
<1>4. e # Nobody => Call(e)' = Call(e) /\ Call(e).stream = s /\ Behind(s, i, e)'
  <2>. SUFFICES ASSUME e # Nobody PROVE Call(e)' = Call(e) /\ Call(e).stream = s /\ Behind(s, i, e)'
    OBVIOUS
  <2>1. Call(e)' = Call(e)
    BY HostFrame DEF Call
  <2>2. Call(e).stream = s /\ Behind(s, j, e)
    BY <1>1 DEF RecordInv
  <2>3. Behind(s, i, e)'
    BY <1>1, <1>2, <2>2, BehindStays
  <2>. QED BY <2>1, <2>2, <2>3
<1>5. Nobody' = Nobody
  BY DEF Nobody
<1>. QED BY <1>1, <1>3, <1>4, <1>5 DEF RecordInv, Behind, Over, Clear, At, Call

(* What a thread that uses a buffer or queues a part has no record of *)
Apart(t, s, h) ==
  \A k \in 1 .. Len(pending[s]) :
    (pending[s][k].coll # Current(t) /\ pending[s][k].timed # Current(t)) \/ h \notin Fills \cup {"pcie"}

(* Who still queues work has no record yet. *)
LEMMA UsersApart ==
  ASSUME CompletionInv, NEW t \in Threads, NEW w, w = todo[t], NEW h \in StepNames, NEW v, OwesStep(w, v, h),
         NEW s \in UserStreams
  PROVE  Apart(t, s, h)
BY DEF CompletionInv, OwesStep, Fresh, Unrecorded, Apart

(* The records after a step, of the streams and records after it *)
NextRecords(s, q, p, O, m) ==
  /\ q = stream'[s] /\ p = pending'[s] /\ O = Owing(s)' /\ m = Len(q)
  /\ IsFiniteSet(O) /\ Len(p) = Calls(q, m) + Cardinality(O)
  /\ \A j \in 1 .. m : IsCall(q[j]) => \E r : r = p[Calls(q, j)] /\ RecordInv(s, j, r)'
  /\ \A k \in 1 .. Len(p) : \E r : r = p[k] /\ RecordInv(s, m + 1, r)'

(* The records after a step, from its streams, records and owing threads *)
LEMMA RecordsNext ==
  ASSUME NEW s, NEW q, NEW p, NEW O, NEW m, NextRecords(s, q, p, O, m)
  PROVE  RecordsInv(s)'
<1>1. Counted(s)'
  BY DEF Counted, NextRecords
<1>2. ASSUME NEW i, NEW k, NEW r, r = p[k], RecordInv(s, i, r)' PROVE RecordInv(s, i, pending[s][k])'
  <2>1. r = pending'[s][k]
    BY <1>2 DEF NextRecords
  <2>2. PICK d, e : d = r.coll /\ e = r.timed
    OBVIOUS
  <2>3. Behind(s, i, d)' /\ (e # Nobody' => Call(e).stream' = s /\ Behind(s, i, e)')
    BY <1>2, <2>2 DEF RecordInv
  <2>4. d = pending'[s][k].coll /\ e = pending'[s][k].timed
    BY <2>1, <2>2
  <2>5. Behind(s, i, pending[s][k].coll)'
    BY <2>3, <2>4 DEF Behind, Over, Clear, At, PcieStream
  <2>6. e # Nobody' => Call(pending[s][k].timed).stream' = s /\ Behind(s, i, pending[s][k].timed)'
    BY <2>3, <2>4 DEF Behind, Over, Clear, At, PcieStream, Call
  <2>. QED BY <2>4, <2>5, <2>6 DEF RecordInv
<1>3. ASSUME NEW j \in 1 .. m, IsCall(q[j]) PROVE RecordInv(s, j, pending[s][Calls(stream[s], j)])'
  <2>1. PICK a, r : a = Calls(q, j) /\ r = p[a] /\ RecordInv(s, j, r)'
    BY <1>3 DEF NextRecords
  <2>2. RecordInv(s, j, pending[s][a])' /\ a = Calls(stream'[s], j)
    BY <1>2, <2>1 DEF NextRecords
  <2>. QED BY <2>2 DEF RecordInv, Behind, Over, Clear, At, Call, PcieStream, Nobody
<1>4. ASSUME NEW k \in 1 .. Len(p) PROVE RecordInv(s, Len(stream[s]) + 1, pending[s][k])'
  <2>1. PICK i, r : i = m + 1 /\ r = p[k] /\ RecordInv(s, i, r)'
    BY DEF NextRecords
  <2>2. RecordInv(s, i, pending[s][k])' /\ i = Len(stream'[s]) + 1
    BY <1>2, <2>1 DEF NextRecords
  <2>. QED BY <2>2 DEF RecordInv, Behind, Over, Clear, At, Call, PcieStream, Nobody
<1>. QED BY <1>1, <1>3, <1>4 DEF RecordsInv, NextRecords

(* The record of a callback is there. *)
LEMMA CallPlace ==
  ASSUME Types, NEW s \in UserStreams, RecordsInv(s)
  PROVE  /\ pending[s] \in Seq(Records(s)) /\ Len(pending[s]) \in Nat /\ Len(stream[s]) \in Nat /\ s \in Streams
         /\ \A k \in 1 .. Len(pending[s]) : pending[s][k] \in Records(s)
         /\ Cardinality(Owing(s)) \in Nat /\ Calls(stream[s], Len(stream[s])) \in Nat
         /\ \A j \in 1 .. Len(stream[s]) : IsCall(stream[s][j]) =>
              /\ Calls(stream[s], j) \in 1 .. Len(pending[s])
              /\ Owing(s) # {} => Calls(stream[s], j) < Len(pending[s])
<1>1. pending[s] \in Seq(Records(s)) /\ s \in Streams
  BY DEF Types, StreamTypes, Streams
<1>2. Len(stream[s]) \in Nat
  BY <1>1, StreamLengths DEF Types
<1>3. Len(pending[s]) \in Nat /\ \A k \in 1 .. Len(pending[s]) : pending[s][k] \in Records(s)
  BY <1>1
<1>4. Cardinality(Owing(s)) \in Nat /\ (Owing(s) # {} => Cardinality(Owing(s)) # 0)
  BY FS_CardinalityType, FS_EmptySet DEF RecordsInv, Counted
<1>5. Calls(stream[s], Len(stream[s])) \in Nat
  BY <1>2, CallsFacts
<1>6. ASSUME NEW j \in 1 .. Len(stream[s]), IsCall(stream[s][j])
      PROVE  Calls(stream[s], j) \in Nat /\ 0 < Calls(stream[s], j) /\ Calls(stream[s], j) <= Calls(stream[s], Len(stream[s]))
  <2>1. PICK m, q : m \in Nat /\ m = Len(stream[s]) /\ q = stream[s]
    BY <1>2
  <2>2. j \in Nat /\ 0 < j /\ j <= m
    BY <2>1
  <2>3. Calls(q, 0) < Calls(q, j) /\ Calls(q, j) \in Nat /\ Calls(q, 0) = 0
    <3>1. IsCall(q[j]) /\ 0 \in Nat /\ 0 <= j
      BY <1>6, <2>1, <2>2
    <3>. QED BY <2>2, <3>1, CallsGrow, CallsFacts
  <2>4. Calls(q, j) <= Calls(q, m)
    <3>1. m \in Nat /\ j <= m
      BY <2>1, <2>2
    <3>. QED BY <2>2, <3>1, CallsGrow
  <2>. QED BY <2>1, <2>3, <2>4
<1>7. Len(pending[s]) = Calls(stream[s], Len(stream[s])) + Cardinality(Owing(s))
  BY DEF RecordsInv, Counted
<1>8. ASSUME NEW j \in 1 .. Len(stream[s]), IsCall(stream[s][j])
      PROVE  /\ Calls(stream[s], j) \in 1 .. Len(pending[s])
             /\ Owing(s) # {} => Calls(stream[s], j) < Len(pending[s])
  <2>1. PICK a, b, d, l : a = Calls(stream[s], j) /\ b = Calls(stream[s], Len(stream[s])) /\ d = Cardinality(Owing(s)) /\ l = Len(pending[s])
    OBVIOUS
  <2>2. a \in Nat /\ 0 < a /\ a <= b /\ b \in Nat /\ d \in Nat /\ l = b + d /\ (Owing(s) # {} => d # 0)
    BY <1>4, <1>5, <1>6, <1>7, <1>8, <2>1
  <2>. QED BY <2>1, <2>2
<1>. QED BY <1>1, <1>2, <1>3, <1>4, <1>5, <1>8

(* A stream on which the step neither registers, attaches nor reports      *)
LEMMA RecordsKept ==
  ASSUME Types, Types', NEW t \in Threads, HostEffect(t),
         NEW c \in Colls, NEW x \in Contexts, NEW n \in Nat, NEW w \in Seq(StepNames), NEW h \in StepNames,
         Facing(t, c, x, n, w, h), NEW s \in UserStreams, RecordsInv(s), Apart(t, s, h), pending'[s] = pending[s],
         ~(h = "callback" /\ s = Call(c).stream), Owing(s)' = Owing(s)
  PROVE  RecordsInv(s)'
<1>1. PICK q, r, p, O : q = stream[s] /\ r = stream'[s] /\ p = pending[s] /\ O = Owing(s)
  OBVIOUS
<1>2. PICK m \in Nat, k \in Nat : m = Len(q) /\ k = Len(r)
  <2>1. Extended(t, QueuedBy(h)) /\ program' = program /\ s \in Streams
    BY HostFrame DEF Facing, Streams
  <2>. QED BY <1>1, <2>1, QueuedPlaces
<1>3. /\ m <= k /\ \A j \in 1 .. m : r[j] = q[j]
      /\ h = Head(todo[t])
  <2>1. Extended(t, QueuedBy(h)) /\ program' = program /\ s \in Streams /\ h = Head(todo[t])
    BY HostFrame DEF Facing, Streams
  <2>. QED BY <1>1, <1>2, <2>1, QueuedPlaces
<1>4. /\ \A j \in 0 .. m : Calls(r, j) = Calls(q, j)
      /\ Calls(r, k) = Calls(q, m)
      /\ \A j \in 1 .. k : IsCall(r[j]) => j \in 1 .. m
  BY <1>1, <1>2, CallsHost
<1>5. /\ \A a \in 1 .. Len(p) : p[a] \in Records(s)
      /\ \A j \in 1 .. m : IsCall(q[j]) => Calls(q, j) \in 1 .. Len(p)
  BY <1>1, <1>2, CallPlace
<1>6. /\ IsFiniteSet(O) /\ Len(p) = Calls(q, m) + Cardinality(O)
      /\ \A j \in 1 .. m : IsCall(q[j]) => RecordInv(s, j, p[Calls(q, j)])
      /\ \A a \in 1 .. Len(p) : RecordInv(s, m + 1, p[a])
  BY <1>1, <1>2 DEF RecordsInv, Counted
<1>7. \A a \in 1 .. Len(p) : (p[a].coll # Current(t) /\ p[a].timed # Current(t)) \/ h \notin Fills \cup {"pcie"}
  BY <1>1 DEF Apart
<1>8. ASSUME NEW j \in 1 .. k, IsCall(r[j]) PROVE \E e : e = p[Calls(r, j)] /\ RecordInv(s, j, e)'
  <2>1. j \in 1 .. m /\ r[j] = q[j] /\ Calls(r, j) = Calls(q, j)
    BY <1>3, <1>4, <1>8
  <2>2. PICK a \in 1 .. Len(p), e \in Records(s) : a = Calls(q, j) /\ e = p[a] /\ RecordInv(s, j, e)
    BY <1>5, <1>6, <1>8, <2>1
  <2>3. RecordInv(s, j, e)'
    BY <1>3, <1>7, <2>1, <2>2, RecordStays
  <2>. QED BY <2>1, <2>2, <2>3
<1>9. ASSUME NEW a \in 1 .. Len(p) PROVE \E e : e = p[a] /\ RecordInv(s, k + 1, e)'
  <2>1. PICK e \in Records(s) : e = p[a] /\ RecordInv(s, m + 1, e)
    BY <1>5, <1>6
  <2>2. m + 1 \in Nat /\ k + 1 \in Nat /\ m + 1 <= k + 1
    BY <1>3
  <2>3. RecordInv(s, k + 1, e)'
    BY <1>3, <1>7, <2>1, <2>2, RecordStays
  <2>. QED BY <2>1, <2>3
<1>10. r = stream'[s] /\ p = pending'[s] /\ O = Owing(s)' /\ k = Len(r)
  BY <1>1, <1>2
<1>11. IsFiniteSet(O) /\ Len(p) = Calls(r, k) + Cardinality(O)
  BY <1>4, <1>6
<1>12. NextRecords(s, r, p, O, k)
  BY <1>8, <1>9, <1>10, <1>11 DEF NextRecords
<1>. QED BY <1>12, RecordsNext

(* What a record means once it is queued for, added or completed *)
LEMMA RecordsCalled ==
  ASSUME Types, Types', NEW t \in Threads, HostEffect(t),
         NEW c \in Colls, NEW x \in Contexts, NEW n \in Nat, NEW w \in Seq(StepNames), NEW h \in StepNames,
         Facing(t, c, x, n, w, h), NEW s \in UserStreams, RecordsInv(s), pending'[s] = pending[s],
         h = "callback", s = Call(c).stream
  PROVE  RecordsInv(s)'
<1>1. PICK q, r, p, O : q = stream[s] /\ r = stream'[s] /\ p = pending[s] /\ O = Owing(s)
  OBVIOUS
<1>2. PICK m \in Nat, k \in Nat : m = Len(q) /\ k = Len(r)
  <2>1. Extended(t, QueuedBy(h)) /\ program' = program /\ s \in Streams
    BY HostFrame DEF Facing, Streams
  <2>. QED BY <1>1, <2>1, QueuedPlaces
<1>3. /\ m <= k /\ \A j \in 1 .. m : r[j] = q[j]
      /\ h = Head(todo[t]) /\ h \notin Fills \cup {"pcie"}
  <2>1. Extended(t, QueuedBy(h)) /\ program' = program /\ s \in Streams /\ h = Head(todo[t])
    BY HostFrame DEF Facing, Streams
  <2>. QED BY <1>1, <1>2, <2>1, QueuedPlaces DEF Fills
<1>4. /\ \A j \in 0 .. m : Calls(r, j) = Calls(q, j)
      /\ k = m + 1 /\ Calls(r, k) = Calls(q, m) + 1
  BY <1>1, <1>2, CallsHost
<1>5. /\ \A a \in 1 .. Len(p) : p[a] \in Records(s)
      /\ \A j \in 1 .. m : IsCall(q[j]) => Calls(q, j) \in 1 .. Len(p)
      /\ Len(p) \in Nat /\ Calls(q, m) \in Nat /\ Cardinality(O) \in Nat
  BY <1>1, <1>2, CallPlace
<1>6. /\ IsFiniteSet(O) /\ Len(p) = Calls(q, m) + Cardinality(O)
      /\ \A j \in 1 .. m : IsCall(q[j]) => RecordInv(s, j, p[Calls(q, j)])
      /\ \A a \in 1 .. Len(p) : RecordInv(s, m + 1, p[a])
  BY <1>1, <1>2 DEF RecordsInv, Counted
<1>7. Owing(s)' = O \ {t} /\ t \in O
  BY <1>1, OwingMoves
<1>8. IsFiniteSet(O \ {t}) /\ Cardinality(O \ {t}) = Cardinality(O) - 1
  BY <1>6, <1>7, FS_RemoveElement
<1>9. Cardinality(O \ {t}) \in Nat
  BY <1>8, FS_CardinalityType
<1>10. Len(p) = Calls(r, k) + Cardinality(O \ {t}) /\ Calls(r, k) \in 1 .. Len(p)
  <2>1. PICK a, b, i, d : a = Calls(r, k) /\ b = Calls(q, m) /\ i = Cardinality(O) /\ d = Cardinality(O \ {t})
    OBVIOUS
  <2>2. a = b + 1 /\ Len(p) = b + i /\ d = i - 1 /\ b \in Nat /\ i \in Nat /\ d \in Nat
    BY <1>4, <1>5, <1>6, <1>8, <1>9, <2>1
  <2>3. PICK l : l = Len(p)
    OBVIOUS
  <2>4. l = a + d /\ a \in 1 .. l
    BY <2>2, <2>3
  <2>. QED BY <2>1, <2>3, <2>4
<1>11. ASSUME NEW j \in 1 .. k, IsCall(r[j]) PROVE \E e : e = p[Calls(r, j)] /\ RecordInv(s, j, e)'
  <2>1. CASE j \in 1 .. m
    <3>1. r[j] = q[j] /\ Calls(r, j) = Calls(q, j)
      BY <1>3, <1>4, <2>1
    <3>2. PICK a \in 1 .. Len(p), e \in Records(s) : a = Calls(q, j) /\ e = p[a] /\ RecordInv(s, j, e)
      BY <1>5, <1>6, <1>11, <2>1, <3>1
    <3>3. RecordInv(s, j, e)'
      BY <1>3, <2>1, <3>2, RecordStays
    <3>. QED BY <3>1, <3>2, <3>3
  <2>2. CASE j = m + 1
    <3>1. PICK a \in 1 .. Len(p), e \in Records(s) : a = Calls(r, k) /\ e = p[a] /\ RecordInv(s, m + 1, e)
      BY <1>5, <1>6, <1>10
    <3>2. RecordInv(s, j, e)'
      BY <1>3, <2>2, <3>1, RecordStays
    <3>. QED BY <1>4, <2>2, <3>1, <3>2
  <2>. QED BY <1>4, <2>1, <2>2
<1>12. ASSUME NEW a \in 1 .. Len(p) PROVE \E e : e = p[a] /\ RecordInv(s, k + 1, e)'
  <2>1. PICK e \in Records(s) : e = p[a] /\ RecordInv(s, m + 1, e)
    BY <1>5, <1>6
  <2>2. m + 1 \in Nat /\ k + 1 \in Nat /\ m + 1 <= k + 1
    BY <1>3
  <2>3. RecordInv(s, k + 1, e)'
    BY <1>3, <2>1, <2>2, RecordStays
  <2>. QED BY <2>1, <2>3
<1>13. PICK P : P = O \ {t}
  OBVIOUS
<1>14. r = stream'[s] /\ p = pending'[s] /\ P = Owing(s)' /\ k = Len(r) /\ IsFiniteSet(P) /\ Len(p) = Calls(r, k) + Cardinality(P)
  BY <1>1, <1>2, <1>7, <1>8, <1>10, <1>13
<1>15. NextRecords(s, r, p, P, k)
  BY <1>11, <1>12, <1>14 DEF NextRecords
<1>. QED BY <1>15, RecordsNext

(* The step that registers or attaches: nothing is queued. *)
LEMMA NothingQueued ==
  ASSUME Types, Types', NEW t \in Threads, HostEffect(t), Head(todo[t]) \in {"register", "attach"}, NEW s \in Streams
  PROVE  Len(stream'[s]) = Len(stream[s]) /\ Len(stream[s]) \in Nat
         /\ \A j \in 1 .. Len(stream[s]) : stream'[s][j] = stream[s][j]
<1>1. Extended(t, QueuedBy(Head(todo[t]))) /\ program' = program
  BY HostFrame
<1>2. QueuedBy(Head(todo[t])) = {}
  BY QueuedByValues
<1>3. /\ Len(stream[s]) \in Nat /\ Len(stream'[s]) \in Nat /\ Len(stream[s]) <= Len(stream'[s])
      /\ \A j \in 1 .. Len(stream[s]) : stream'[s][j] = stream[s][j]
      /\ \A j \in 1 .. Len(stream'[s]) : j \in 1 .. Len(stream[s])
  BY <1>1, <1>2, QueuedPlaces
<1>4. Len(stream'[s]) <= Len(stream[s])
  <2>1. CASE Len(stream'[s]) = 0
    BY <1>3, <2>1
  <2>2. CASE Len(stream'[s]) # 0
    <3>1. Len(stream'[s]) \in 1 .. Len(stream'[s])
      BY <1>3, <2>2
    <3>. QED BY <1>3, <3>1
  <2>. QED BY <2>1, <2>2
<1>. QED BY <1>3, <1>4

(* RegisterPending: the record of work that is queued *)
LEMMA RecordsAdded ==
  ASSUME Types, Types', NEW t \in Threads, HostEffect(t),
         NEW c \in Colls, NEW x \in Contexts, NEW n \in Nat, NEW w \in Seq(StepNames), NEW h \in StepNames,
         Facing(t, c, x, n, w, h), NEW s \in UserStreams, RecordsInv(s),
         h = "register", s = Call(c).stream, NEW e, e.coll = c, e.timed = Nobody, pending'[s] = Append(pending[s], e)
  PROVE  RecordsInv(s)'
<1>1. PICK q, r, p, O : q = stream[s] /\ r = stream'[s] /\ p = pending[s] /\ O = Owing(s)
  OBVIOUS
<1>0. s \in Streams /\ h = Head(todo[t]) /\ h \notin Fills \cup {"pcie"} /\ program' = program /\ c = Current(t)
  BY HostFrame DEF Facing, Streams, Fills
<1>2. PICK m \in Nat : m = Len(q) /\ m = Len(r) /\ \A j \in 1 .. m : r[j] = q[j]
  BY <1>0, <1>1, NothingQueued
<1>4. /\ \A j \in 0 .. m : Calls(r, j) = Calls(q, j)
      /\ Calls(r, m) = Calls(q, m)
  <2>1. \A j \in 0 .. m : Calls(r, j) = Calls(q, j)
    <3>1. \A j \in 0 .. Len(stream[s]) : Calls(stream'[s], j) = Calls(stream[s], j)
      BY CallsKept
    <3>. QED BY <1>1, <1>2, <3>1
  <2>2. m \in 0 .. m
    OBVIOUS
  <2>. QED BY <2>1, <2>2
<1>5. /\ \A a \in 1 .. Len(p) : p[a] \in Records(s)
      /\ \A j \in 1 .. m : IsCall(q[j]) => Calls(q, j) \in 1 .. Len(p)
      /\ Len(p) \in Nat /\ Calls(q, m) \in Nat /\ Cardinality(O) \in Nat /\ p \in Seq(Records(s))
  BY <1>1, <1>2, CallPlace
<1>6. /\ IsFiniteSet(O) /\ Len(p) = Calls(q, m) + Cardinality(O)
      /\ \A j \in 1 .. m : IsCall(q[j]) => RecordInv(s, j, p[Calls(q, j)])
      /\ \A a \in 1 .. Len(p) : RecordInv(s, m + 1, p[a])
  BY <1>1, <1>2 DEF RecordsInv, Counted
<1>7. PICK P, g : P = Owing(s)' /\ g = Append(p, e)
  OBVIOUS
<1>8. P = O \cup {t} /\ t \notin O
  BY <1>1, <1>7, OwingMoves
<1>9. IsFiniteSet(P) /\ Cardinality(P) = Cardinality(O) + 1
  BY <1>6, <1>8, FS_AddElement
<1>10. /\ Len(g) = Len(p) + 1 /\ \A a \in 1 .. Len(p) : g[a] = p[a]
       /\ g[Len(p) + 1] = e /\ g = pending'[s]
  BY <1>1, <1>5, <1>7
<1>11. e \in Records(s)
  <2>1. SameProgram /\ StreamTypes'
    BY HostFrame DEF Types
  <2>2. g \in Seq(Records(s))
    BY <1>10, <2>1 DEF StreamTypes, SameProgram
  <2>3. Len(p) + 1 \in 1 .. Len(g)
    BY <1>5, <1>10
  <2>. QED BY <1>10, <2>2, <2>3
<1>12. RecordInv(s, m + 1, e)
  <2>1. Behind(s, m + 1, c)
    BY <1>0, <1>1, <1>2, SettledAt, BehindNow
  <2>. QED BY <2>1 DEF RecordInv
<1>13. ASSUME NEW j \in 1 .. m, IsCall(r[j]) PROVE \E b : b = g[Calls(r, j)] /\ RecordInv(s, j, b)'
  <2>1. r[j] = q[j] /\ Calls(r, j) = Calls(q, j)
    BY <1>2, <1>4
  <2>2. PICK a \in 1 .. Len(p), b \in Records(s) : a = Calls(q, j) /\ b = p[a] /\ RecordInv(s, j, b)
    BY <1>5, <1>6, <1>13, <2>1
  <2>3. RecordInv(s, j, b)'
    BY <1>0, <2>2, RecordStays
  <2>. QED BY <1>10, <2>1, <2>2, <2>3
<1>14. ASSUME NEW a \in 1 .. Len(g) PROVE \E b : b = g[a] /\ RecordInv(s, m + 1, b)'
  <2>1. PICK b \in Records(s) : b = g[a] /\ RecordInv(s, m + 1, b)
    <3>1. a \in 1 .. Len(p) \/ a = Len(p) + 1
      BY <1>5, <1>10
    <3>. QED BY <1>5, <1>6, <1>10, <1>11, <1>12, <3>1
  <2>2. PICK i \in Nat : i = m + 1 /\ i <= i
    OBVIOUS
  <2>3. RecordInv(s, i, b)'
    BY <1>0, <2>1, <2>2, RecordStays
  <2>. QED BY <2>1, <2>2, <2>3
<1>15. Len(g) = Calls(r, m) + Cardinality(P)
  BY <1>4, <1>5, <1>6, <1>9, <1>10
<1>16. NextRecords(s, r, g, P, m)
  BY <1>1, <1>2, <1>7, <1>9, <1>10, <1>13, <1>14, <1>15 DEF NextRecords
<1>. QED BY <1>16, RecordsNext

(* AttachTimers: the timers of work that is queued *)
LEMMA RecordsTimed ==
  ASSUME Types, Types', NEW t \in Threads, HostEffect(t),
         NEW c \in Colls, NEW x \in Contexts, NEW n \in Nat, NEW w \in Seq(StepNames), NEW h \in StepNames,
         Facing(t, c, x, n, w, h), NEW s \in UserStreams, RecordsInv(s),
         h = "attach", s = Call(c).stream, NEW p, p = pending[s], NEW g, g = pending'[s], NEW l, l = Len(p), Len(g) = l,
         \A a \in 1 .. l : g[a].coll = p[a].coll /\ (a # l => g[a] = p[a]), g[l].timed = c
  PROVE  RecordsInv(s)'
<1>1. PICK q, r, O : q = stream[s] /\ r = stream'[s] /\ O = Owing(s)
  OBVIOUS
<1>0. s \in Streams /\ h = Head(todo[t]) /\ h \notin Fills \cup {"pcie"} /\ program' = program /\ c = Current(t)
  BY HostFrame DEF Facing, Streams, Fills
<1>2. PICK m \in Nat : m = Len(q) /\ m = Len(r) /\ \A j \in 1 .. m : r[j] = q[j]
  BY <1>0, <1>1, NothingQueued
<1>3. O = Owing(s)' /\ O # {}
  BY <1>1, OwingMoves
<1>4. /\ \A j \in 0 .. m : Calls(r, j) = Calls(q, j)
      /\ Calls(r, m) = Calls(q, m)
  <2>1. \A j \in 0 .. m : Calls(r, j) = Calls(q, j)
    <3>1. \A j \in 0 .. Len(stream[s]) : Calls(stream'[s], j) = Calls(stream[s], j)
      BY CallsKept
    <3>. QED BY <1>1, <1>2, <3>1
  <2>2. m \in 0 .. m
    OBVIOUS
  <2>. QED BY <2>1, <2>2
<1>5. /\ \A a \in 1 .. l : p[a] \in Records(s)
      /\ \A j \in 1 .. m : IsCall(q[j]) => Calls(q, j) \in 1 .. l /\ Calls(q, j) < l
      /\ l \in Nat
  BY <1>1, <1>2, <1>3, CallPlace, ZenonT(30)
<1>6. /\ IsFiniteSet(O) /\ l = Calls(q, m) + Cardinality(O)
      /\ \A j \in 1 .. m : IsCall(q[j]) => RecordInv(s, j, p[Calls(q, j)])
      /\ \A a \in 1 .. l : RecordInv(s, m + 1, p[a])
  BY <1>1, <1>2 DEF RecordsInv, Counted
<1>7. \A a \in 1 .. l : g[a] \in Records(s)
  <2>1. SameProgram /\ StreamTypes'
    BY HostFrame DEF Types
  <2>2. g \in Seq(Records(s))
    BY <2>1 DEF StreamTypes, SameProgram
  <2>. QED BY <2>2
<1>8. ASSUME NEW a \in 1 .. l PROVE RecordInv(s, m + 1, g[a])
  <2>1. CASE a # l
    BY <1>6, <2>1
  <2>2. CASE a = l
    <3>1. Behind(s, m + 1, c)
      BY <1>0, <1>1, <1>2, SettledAt, BehindNow
    <3>2. PICK d : d = g[a].coll /\ d = p[a].coll
      OBVIOUS
    <3>3. Behind(s, m + 1, d)
      BY <1>6, <3>2 DEF RecordInv
    <3>4. g[a].timed = c /\ Call(c).stream = s
      BY <2>2
    <3>. QED BY <3>1, <3>2, <3>3, <3>4 DEF RecordInv
  <2>. QED BY <2>1, <2>2
<1>13. ASSUME NEW j \in 1 .. m, IsCall(r[j]) PROVE \E b : b = g[Calls(r, j)] /\ RecordInv(s, j, b)'
  <2>1. r[j] = q[j] /\ Calls(r, j) = Calls(q, j)
    BY <1>2, <1>4
  <2>2. PICK a \in 1 .. l, b \in Records(s) : a = Calls(q, j) /\ b = p[a] /\ b = g[a] /\ RecordInv(s, j, b)
    <3>1. Calls(q, j) \in 1 .. l /\ Calls(q, j) # l
      BY <1>5, <1>13, <2>1
    <3>. QED BY <1>5, <1>6, <1>13, <2>1, <3>1
  <2>3. RecordInv(s, j, b)'
    BY <1>0, <2>2, RecordStays
  <2>. QED BY <2>1, <2>2, <2>3
<1>14. ASSUME NEW a \in 1 .. Len(g) PROVE \E b : b = g[a] /\ RecordInv(s, m + 1, b)'
  <2>1. PICK b \in Records(s) : b = g[a] /\ RecordInv(s, m + 1, b)
    BY <1>7, <1>8
  <2>2. PICK i \in Nat : i = m + 1 /\ i <= i
    OBVIOUS
  <2>3. RecordInv(s, i, b)'
    BY <1>0, <2>1, <2>2, RecordStays
  <2>. QED BY <2>1, <2>2, <2>3
<1>15. Len(g) = Calls(r, m) + Cardinality(O)
  BY <1>4, <1>6
<1>16. NextRecords(s, r, g, O, m)
  BY <1>1, <1>2, <1>3, <1>6, <1>13, <1>14, <1>15 DEF NextRecords
<1>. QED BY <1>16, RecordsNext

(* What a step of thread t does to the records of a stream *)
PendingMoves(t, s, p, g) ==
  \/ g = p /\ ~(s = Stream(t) /\ (Head(todo[t]) = "register" \/ (Head(todo[t]) = "attach" /\ p # <<>>)))
  \/ /\ Head(todo[t]) = "register" /\ s = Stream(t)
     /\ \E e : /\ g = Append(p, e) /\ e.coll = Current(t) /\ e.timed = Nobody
              /\ e.tmp = IF buffer[t] # None /\ ~MergedOnStream(Current(t)) THEN buffer[t] ELSE None
  \/ /\ Head(todo[t]) = "attach" /\ s = Stream(t) /\ Len(g) = Len(p) /\ p # <<>> /\ g[Len(p)].timed = Current(t)
     /\ \A a \in 1 .. Len(p) : g[a].coll = p[a].coll /\ g[a].tmp = p[a].tmp /\ (a # Len(p) => g[a] = p[a])

(* The records change in three ways only. *)
LEMMA PendingMove ==
  ASSUME Types, NEW t \in Threads, HostNext(t), NEW s \in UserStreams, NEW p, p = pending[s], NEW g, g = pending'[s]
  PROVE  PendingMoves(t, s, p, g)
<1>0. /\ DOMAIN pending = UserStreams /\ p \in Seq(Records(s)) /\ Stream(t) \in UserStreams
  BY CurrentFacts DEF Types, StreamTypes
<1>1. CASE Head(todo[t]) = "register" /\ RegisterPending(t)
  <2>1. PICK b : b = IF buffer[t] # None /\ ~MergedOnStream(Current(t)) THEN buffer[t] ELSE None
    OBVIOUS
  <2>2. PICK e : e = [coll |-> Current(t), plan |-> plan[t], ok |-> ok[t], timed |-> Nobody, tmp |-> b]
    OBVIOUS
  <2>3. e.coll = Current(t) /\ e.timed = Nobody /\ e.tmp = b
    BY <2>2
  <2>4. pending' = [pending EXCEPT ![Stream(t)] = Append(@, e)]
    BY <1>1, <2>1, <2>2 DEF RegisterPending
  <2>5. s = Stream(t) => g = Append(p, e)
    BY <1>0, <2>4
  <2>6. s # Stream(t) => g = p
    BY <1>0, <2>4
  <2>. QED BY <1>1, <2>1, <2>3, <2>5, <2>6 DEF PendingMoves
<1>2. CASE Head(todo[t]) = "attach" /\ AttachTimers(t)
  <2>1. CASE pending[Stream(t)] = <<>>
    <3>1. pending' = pending /\ (s = Stream(t) => p = <<>>)
      BY <1>2, <2>1 DEF AttachTimers
    <3>. QED BY <1>2, <3>1 DEF PendingMoves
  <2>2. CASE pending[Stream(t)] # <<>>
    <3>1. PICK u \in UserStreams : u = Stream(t)
      BY <1>0
    <3>2. pending[u] # <<>> /\ pending' = [pending EXCEPT ![u][Len(pending[u])].timed = Current(t)]
      BY <1>2, <2>2, <3>1 DEF AttachTimers
    <3>3. s # u => g = p
      BY <1>0, <3>2
    <3>4. CASE s = u
      <4>1. PICK l : l = Len(p)
        OBVIOUS
      <4>2. l \in 1 .. Len(p) /\ p # <<>> /\ p[l] \in Records(s)
        BY <1>0, <3>2, <3>4, <4>1
      <4>3. g = [p EXCEPT ![l].timed = Current(t)]
        BY <1>0, <3>2, <3>4, <4>1
      <4>4. Len(g) = Len(p) /\ g[l] = [p[l] EXCEPT !.timed = Current(t)] /\ \A a \in 1 .. Len(p) : a # l => g[a] = p[a]
        BY <1>0, <4>2, <4>3
      <4>5. g[l].timed = Current(t) /\ g[l].coll = p[l].coll /\ g[l].tmp = p[l].tmp
        BY <4>2, <4>4 DEF Records
      <4>6. \A a \in 1 .. Len(p) : g[a].coll = p[a].coll /\ g[a].tmp = p[a].tmp /\ (a # l => g[a] = p[a])
        BY <4>4, <4>5
      <4>. QED BY <1>2, <3>1, <3>4, <4>1, <4>2, <4>4, <4>5, <4>6 DEF PendingMoves
    <3>. QED BY <1>2, <3>1, <3>3, <3>4 DEF PendingMoves
  <2>. QED BY <2>1, <2>2
<1>3. CASE Head(todo[t]) \notin {"register", "attach"} /\ pending' = pending
  BY <1>3 DEF PendingMoves
<1>. QED BY <1>1, <1>2, <1>3, PendingOf

(* No collective is nobody's. *)
LEMMA Somebody ==
  ASSUME Types, NEW d \in Colls
  PROVE  d # Nobody
<1>1. program \in Programs /\ d[1] \in Threads /\ d[2] \in DOMAIN program.calls[d[1]] /\ d = <<d[1], d[2]>>
  BY CollFacts DEF Types, ThreadTypes
<1>2. PICK S, q : q = program.calls[d[1]] /\ q \in Seq(S)
  BY <1>1, CollectiveAssumption DEF Threads
<1>3. d[2] \in 1 .. Len(q)
  BY <1>1, <1>2
<1>4. d[2] # 0
  BY <1>3
<1>. QED BY <1>1, <1>4 DEF Nobody

(* What a host step does to the records of one stream *)
LEMMA StreamRecords ==
  ASSUME Types, Types', NEW t \in Threads, HostNext(t), HostEffect(t), CompletionInv,
         NEW c \in Colls, NEW x \in Contexts, NEW n \in Nat, NEW w \in Seq(StepNames), NEW h \in StepNames,
         Facing(t, c, x, n, w, h), NEW s \in UserStreams
  PROVE  RecordsInv(s)'
<1>1. PICK v : v = todo'[t]
  OBVIOUS
<1>2. OwesStep(w, v, h) /\ RecordsInv(s) /\ h = Head(todo[t]) /\ c = Current(t) /\ w = todo[t]
  BY <1>1, OwesMoves DEF CompletionInv, Facing
<1>3. Apart(t, s, h)
  BY <1>2, UsersApart
<1>0. PICK u \in UserStreams : u = Stream(t) /\ u = Call(c).stream
  BY <1>2, CurrentFacts DEF Types
<1>4. PICK p, g : p = pending[s] /\ g = pending'[s] /\ u = Stream(t) /\ u = Call(c).stream
  BY <1>0
<1>5. PendingMoves(t, s, p, g) /\ p \in Seq(Records(s))
  BY <1>4, PendingMove DEF Types, StreamTypes
<1>6. CASE h = "register" /\ s = u
  <2>1. PICK e : g = Append(p, e) /\ e.coll = c /\ e.timed = Nobody
    BY <1>2, <1>4, <1>5, <1>6 DEF PendingMoves
  <2>. QED BY <1>2, <1>4, <1>6, <2>1, RecordsAdded
<1>7. CASE h = "attach" /\ s = u /\ p # <<>>
  <2>1. PICK l \in Nat : l = Len(p)
    BY <1>5
  <2>2. Len(g) = l /\ g[l].timed = c /\ \A a \in 1 .. l : g[a].coll = p[a].coll /\ (a # l => g[a] = p[a])
    BY <1>2, <1>4, <1>5, <1>7, <2>1 DEF PendingMoves
  <2>3. h = "attach" /\ s = Call(c).stream
    BY <1>4, <1>7
  <2>. QED BY <1>2, <1>4, <2>1, <2>2, <2>3, RecordsTimed, SMTT(20)
<1>8. CASE h = "callback" /\ s = u
  <2>1. g = p
    BY <1>2, <1>5, <1>8 DEF PendingMoves
  <2>. QED BY <1>2, <1>4, <1>8, <2>1, RecordsCalled
<1>9. CASE ~(h \in {"register", "callback"} /\ s = u) /\ ~(h = "attach" /\ s = u /\ p # <<>>)
  <2>1. g = p
    BY <1>2, <1>4, <1>5, <1>9 DEF PendingMoves
  <2>2. Owing(s)' = Owing(s)
    <3>1. CASE h = "register"
      BY <1>4, <1>9, <3>1, OwingMoves
    <3>2. CASE h = "callback"
      BY <1>4, <1>9, <3>2, OwingMoves, ZenonT(30)
    <3>3. CASE h \notin {"register", "callback"}
      BY <3>3, OwingMoves
    <3>. QED BY <3>1, <3>2, <3>3
  <2>. QED BY <1>2, <1>3, <1>4, <1>9, <2>1, <2>2, RecordsKept
<1>. QED BY <1>6, <1>7, <1>8, <1>9

(* Only a return queues what uses the result. *)
LEMMA ConsumeQueued ==
  \A h \in StepNames : h # "return" => {"consume"} \cap QueuedBy(h) = {}
BY QueuedByValues DEF StepNames, Parts

(* A collective is not in the records before it is registered *)
LEMMA FreshStays ==
  ASSUME Types, Types', NEW t \in Threads, HostNext(t), HostEffect(t), NEW h \in StepNames, h = Head(todo[t]),
         NEW d \in Colls, Fresh(d), d # Current(t) \/ h \notin Reporting \cup {"return"}
  PROVE  Fresh(d)'
<1>1. /\ program' = program /\ UserStreams' = UserStreams /\ happened' = happened /\ Extended(t, QueuedBy(h))
  BY HostFrame DEF SameProgram
<1>2. PICK z \in Streams : z = Call(d).stream
  BY CollFacts DEF Types, ThreadTypes
<1>3. Clear(z, d, {"consume"})'
  <2>1. d # Current(t) \/ {"consume"} \cap QueuedBy(h) = {}
    BY ConsumeQueued
  <2>2. Clear(z, d, {"consume"})
    BY <1>2 DEF Fresh
  <2>. QED BY <1>1, <2>1, <2>2, ClearStays
<1>4. d # Nobody
  BY Somebody
<1>5. ASSUME NEW s \in UserStreams
      PROVE  \A k \in 1 .. Len(pending'[s]) : pending'[s][k].coll # d /\ pending'[s][k].timed # d
  <2>1. PICK p, g : p = pending[s] /\ g = pending'[s]
    OBVIOUS
  <2>2. PendingMoves(t, s, p, g) /\ p \in Seq(Records(s)) /\ \A k \in 1 .. Len(p) : p[k].coll # d /\ p[k].timed # d
    BY <2>1, PendingMove DEF Types, StreamTypes, Fresh, Unrecorded
  <2>3. \A k \in 1 .. Len(g) : g[k].coll # d /\ g[k].timed # d
    <3>1. CASE g = p
      BY <2>2, <3>1
    <3>2. CASE h = "register" /\ g # p
      <4>1. PICK e : g = Append(p, e) /\ e.coll = Current(t) /\ e.timed = Nobody
        BY <2>2, <3>2 DEF PendingMoves
      <4>2. e.coll # d /\ e.timed # d
        BY <1>4, <3>2, <4>1 DEF Reporting
      <4>3. Len(g) = Len(p) + 1 /\ g[Len(p) + 1] = e /\ \A k \in 1 .. Len(p) : g[k] = p[k]
        BY <2>2, <4>1
      <4>. QED BY <2>2, <4>2, <4>3
    <3>3. CASE h = "attach" /\ g # p
      <4>1. /\ Len(g) = Len(p) /\ g[Len(p)].timed = Current(t)
            /\ \A a \in 1 .. Len(p) : g[a].coll = p[a].coll /\ (a # Len(p) => g[a] = p[a])
        BY <2>2, <3>3 DEF PendingMoves
      <4>2. Current(t) # d
        BY <3>3 DEF Reporting
      <4>. QED BY <2>2, <4>1, <4>2
    <3>. QED BY <2>2, <3>1, <3>2, <3>3 DEF PendingMoves
  <2>. QED BY <2>1, <2>3
<1>6. Unrecorded(d)'
  BY <1>1, <1>5 DEF Unrecorded
<1>7. z = Call(d).stream'
  BY <1>1, <1>2 DEF Call
<1>. QED BY <1>3, <1>6, <1>7 DEF Fresh

(* A collective that was not begun has no records. *)
LEMMA FreshNew ==
  ASSUME Types, MadeInv, RecordsMade, NEW d \in Colls, ~Made(d)
  PROVE  Fresh(d)
<1>1. d # Nobody /\ Call(d).stream \in Streams
  BY Somebody, CollFacts DEF Types, ThreadTypes
<1>2. Unrecorded(d)
  BY <1>1 DEF RecordsMade, Unrecorded
<1>3. Clear(Call(d).stream, d, {"consume"})
  BY <1>1 DEF MadeInv, Clear, At
<1>. QED BY <1>2, <1>3 DEF Fresh

(* A thread that will still use its stream has no record on it. *)
LEMMA UsersFresh ==
  ASSUME Types, Types', InputInv, OverInv, CompletionInv, NEW t \in Threads, HostNext(t), HostEffect(t),
         NEW q \in Threads, Used(todo'[q])
  PROVE  Fresh(Current(q))'
<1>1. PICK c \in Colls, x \in Contexts, n \in Nat, w \in Seq(StepNames), h \in StepNames : Facing(t, c, x, n, w, h)
  BY FacingFacts DEF HostEffect
<1>2. h = Head(todo[t]) /\ c = Current(t) /\ w = todo[t]
  BY <1>1 DEF Facing
<1>3. CASE q # t
  <2>1. PICK d \in Colls : d = Current(q) /\ d # Current(t)
    BY <1>3, CurrentFacts DEF Types
  <2>2. todo'[q] = todo[q] /\ d = Current(q)'
    BY <1>3, <2>1, HostFrame
  <2>3. Fresh(d)
    BY <2>1, <2>2 DEF CompletionInv
  <2>4. Fresh(d)'
    BY <1>2, <2>1, <2>3, FreshStays
  <2>. QED BY <2>2, <2>4
<1>4. CASE q = t
  <2>1. PICK v : v = todo'[t]
    OBVIOUS
  <2>2. OwesStep(w, v, h) /\ (Current(t)' = c \/ h = "return")
    BY <1>1, <2>1, OwesMoves
  <2>3. h \notin Reporting \cup {"return"} /\ (h = "call" \/ Used(w))
    BY <1>4, <2>1, <2>2 DEF OwesStep
  <2>4. Fresh(c)
    <3>1. CASE Used(w)
      BY <1>2, <3>1 DEF CompletionInv
    <3>2. CASE h = "call"
      <4>1. Calling(w)
        BY <1>1, <3>2 DEF Facing, Calling
      <4>2. c[1] = t /\ c[2] = index[t] /\ index[t] \in Nat
        BY <1>2, CurrentFacts, CollFacts, CollectiveAssumption DEF Types, ThreadTypes, Threads
      <4>3. ~Made(c)
        BY <1>2, <4>1, <4>2 DEF Made
      <4>. QED BY <4>3, FreshNew DEF OverInv, CompletionInv
    <3>. QED BY <2>3, <3>1, <3>2
  <2>5. Fresh(c)'
    BY <1>2, <2>3, <2>4, FreshStays
  <2>. QED BY <1>4, <2>2, <2>3, <2>5
<1>. QED BY <1>3, <1>4

(* Records are of collectives that were begun. *)
LEMMA RecordsMadeStay ==
  ASSUME Types, Types', InputInv, CompletionInv, NEW t \in Threads, HostNext(t), HostEffect(t)
  PROVE  RecordsMade'
<1>0. UserStreams' = UserStreams /\ Nobody' = Nobody /\ (\A q \in Threads : ThreadInv(q)) /\ Current(t) \in Colls
  BY HostFrame, CurrentFacts DEF SameProgram, InputInv, Types, Nobody
<1>1. ASSUME NEW s \in UserStreams, NEW k \in 1 .. Len(pending'[s])
      PROVE  Made(pending[s][k].coll)' /\ (pending'[s][k].timed # Nobody => Made(pending[s][k].timed)')
  <2>1. PICK p, g : p = pending[s] /\ g = pending'[s]
    OBVIOUS
  <2>2. /\ PendingMoves(t, s, p, g) /\ p \in Seq(Records(s))
        /\ \A a \in 1 .. Len(p) : /\ p[a].coll \in Colls /\ Made(p[a].coll)
                                  /\ p[a].timed # Nobody => p[a].timed \in Colls /\ Made(p[a].timed)
    <3>1. p \in Seq(Records(s))
      BY <2>1 DEF Types, StreamTypes
    <3>2. \A a \in 1 .. Len(p) : p[a].coll \in Colls /\ p[a].timed \in Colls \cup {Nobody}
      BY <3>1 DEF Records
    <3>. QED BY <2>1, <3>1, <3>2, PendingMove DEF CompletionInv, RecordsMade
  <2>3. ASSUME NEW d \in Colls, Made(d) \/ d = Current(t) PROVE Made(d)'
    BY <1>0, <2>3, MadeGrows
  <2>4. PICK a, b : a = g[k].coll /\ b = g[k].timed
    OBVIOUS
  <2>5. /\ a \in Colls /\ (Made(a) \/ a = Current(t))
        /\ b # Nobody => b \in Colls /\ (Made(b) \/ b = Current(t))
    <3>0. k \in 1 .. Len(g)
      BY <2>1
    <3>1. CASE g = p
      BY <2>2, <2>4, <3>0, <3>1
    <3>2. CASE \E e : g = Append(p, e) /\ e.coll = Current(t) /\ e.timed = Nobody
      <4>1. PICK e : g = Append(p, e) /\ e.coll = Current(t) /\ e.timed = Nobody
        BY <3>2
      <4>2. Len(g) = Len(p) + 1 /\ g[Len(p) + 1] = e /\ \A i \in 1 .. Len(p) : g[i] = p[i]
        BY <2>2, <4>1
      <4>3. CASE k \in 1 .. Len(p)
        BY <2>2, <2>4, <4>2, <4>3
      <4>4. CASE g[k] = e
        BY <1>0, <2>4, <4>1, <4>4
      <4>. QED BY <3>0, <4>2, <4>3, <4>4
    <3>3. CASE /\ Len(g) = Len(p) /\ g[Len(p)].timed = Current(t)
               /\ \A i \in 1 .. Len(p) : g[i].coll = p[i].coll /\ (i # Len(p) => g[i] = p[i])
      <4>1. a = p[k].coll /\ (b = p[k].timed \/ b = Current(t)) /\ k \in 1 .. Len(p)
        BY <2>4, <3>0, <3>3
      <4>. QED BY <1>0, <2>2, <4>1
    <3>. QED BY <2>2, <3>1, <3>2, <3>3 DEF PendingMoves
  <2>. QED BY <2>1, <2>3, <2>4, <2>5
<1>. QED BY <1>0, <1>1 DEF RecordsMade

(* A host's step keeps the records right. *)
LEMMA HostRecords ==
  ASSUME Types, Types', InputInv, OverInv, CompletionInv, NEW t \in Threads, HostNext(t), HostEffect(t)
  PROVE  CompletionInv'
<1>0. UserStreams' = UserStreams /\ Threads' = Threads
  BY HostFrame DEF SameProgram
<1>1. PICK c \in Colls, x \in Contexts, n \in Nat, w \in Seq(StepNames), h \in StepNames : Facing(t, c, x, n, w, h)
  BY FacingFacts DEF HostEffect
<1>2. \A s \in UserStreams : RecordsInv(s)'
  BY <1>1, StreamRecords
<1>3. \A q \in Threads : Used(todo'[q]) => Fresh(Current(q))'
  BY UsersFresh
<1>4. \A q : Used(todo[q])' <=> Used(todo'[q])
  BY DEF Used
<1>. QED BY <1>0, <1>2, <1>3, <1>4, RecordsMadeStay DEF CompletionInv

-----------------------------------------------------------------------------
(* The records, while the device executes *)

(* A callback takes the first record of its stream. *)
Collects(s) ==
  IF IsCall(Head(stream[s])) /\ pending[s] # <<>> THEN pending' = [pending EXCEPT ![s] = Tail(@)] ELSE pending' = pending

(* A callback takes the oldest record, and nothing else does. *)
LEMMA DeviceCollects ==
  ASSUME NEW s \in Streams, DeviceNext(s)
  PROVE  Collects(s)
<1>1. CASE HostCompletion(s)
  BY <1>1 DEF HostCompletion, Collects, IsCall, head
<1>2. CASE WriteToken(s) \/ WaitToken(s) \/ WaitEvent(s) \/ Compute(s) \/ FillBuffer(s) \/ RunPcie(s) \/ FreeAsync(s)
  <2>1. pending' = pending
    BY <1>2 DEF WriteToken, WaitToken, WaitEvent, Compute, FillBuffer, RunPcie, FreeAsync, DeviceStep
  <2>2. Head(stream[s]).kind # "callback"
    BY <1>2 DEF WriteToken, WaitToken, WaitEvent, Compute, FillBuffer, RunPcie, FreeAsync, head
  <2>. QED BY <2>1, <2>2 DEF Collects, IsCall
<1>. QED BY <1>1, <1>2 DEF DeviceNext

(* Stream q moves d places to the front, its records e. *)
Passed(q, s, d, e) ==
  /\ Moved(q, s, d) /\ d \in 0 .. 1 /\ e \in 0 .. 1 /\ Len(stream'[q]) \in Nat /\ Len(stream'[q]) + d = Len(stream[q])
  /\ Len(pending'[q]) \in Nat /\ Len(pending'[q]) + e = Len(pending[q])
  /\ \A k \in 1 .. Len(pending'[q]) : pending'[q][k] = pending[q][k + e]
  /\ \A j \in 0 .. Len(stream'[q]) : Calls(stream[q], j + d) = Calls(stream'[q], j) + e
  /\ e = 1 <=> q = s /\ IsCall(Head(stream[s]))
  /\ q = s => d = 1

(* The first callback has the first record. *)
LEMMA CallFirst ==
  ASSUME Types, NEW s \in UserStreams, RecordsInv(s), stream[s] # <<>>, IsCall(Head(stream[s]))
  PROVE  pending[s] # <<>> /\ Calls(stream[s], 1) = 1
<1>1. PICK q : q = stream[s]
  OBVIOUS
<1>2. s \in Streams /\ 1 \in 1 .. Len(q) /\ IsCall(q[1])
  BY <1>1, HeadItem DEF Streams
<1>3. Calls(q, 1) \in 1 .. Len(pending[s]) /\ pending[s] \in Seq(Records(s))
  BY <1>1, <1>2, CallPlace
<1>4. PICK z \in Nat : z = 0 /\ z + 1 = 1
  OBVIOUS
<1>5. Calls(q, z + 1) = Calls(q, z) + (IF IsCall(q[z + 1]) THEN 1 ELSE 0)
  BY CallsFacts
<1>6. Calls(q, z) = 0
  BY <1>4, CallsFacts
<1>7. Calls(q, 1) = 1
  BY <1>2, <1>4, <1>5, <1>6
<1>. QED BY <1>1, <1>3, <1>7

(* How far places and records move when an operation is executed *)
LEMMA RecordsPass ==
  ASSUME Types, NEW s \in Streams, Executes(s), Collects(s), NEW q \in UserStreams, RecordsInv(q)
  PROVE  \E d, e \in 0 .. 1 : Passed(q, s, d, e)
<1>0. q \in Streams /\ stream[s] # <<>> /\ stream' = [stream EXCEPT ![s] = Tail(@)] /\ StreamTypes
  BY DEF Executes, executed, Streams, Types
<1>1. PICK d \in 0 .. 1 : Moved(q, s, d) /\ (q = s => d = 1) /\ d = Shift(q, s)
  BY <1>0, ShiftFacts DEF Shift, Executes
<1>2. PICK u, v, p, g, o : u = stream[q] /\ v = stream'[q] /\ p = pending[q] /\ g = pending'[q] /\ o = Head(stream[s])
  OBVIOUS
<1>3. /\ u \in Seq(ItemsOf(q)) /\ p \in Seq(Records(q)) /\ DOMAIN pending = UserStreams
      /\ v = IF q = s THEN Tail(u) ELSE u
  BY <1>0, <1>2 DEF StreamTypes
<1>4. Len(v) \in Nat /\ Len(v) + d = Len(u)
  <2>1. CASE q = s
    <3>1. u # <<>> /\ v = Tail(u) /\ d = 1
      BY <1>0, <1>1, <1>2, <1>3, <2>1
    <3>. QED BY <1>3, <3>1
  <2>2. CASE q # s
    <3>1. v = u /\ d = 0
      BY <1>1, <1>3, <2>2 DEF Shift
    <3>. QED BY <1>3, <3>1
  <2>. QED BY <2>1, <2>2
<1>5. PICK e \in 0 .. 1 : e = IF q = s /\ IsCall(o) THEN 1 ELSE 0
  OBVIOUS
<1>6. Len(g) \in Nat /\ Len(g) + e = Len(p) /\ \A k \in 1 .. Len(g) : g[k] = p[k + e]
  <2>1. CASE q = s /\ IsCall(o)
    <3>1. p # <<>>
      BY <1>0, <1>2, <2>1, CallFirst
    <3>2. g = Tail(p)
      BY <1>2, <1>3, <2>1, <3>1 DEF Collects
    <3>. QED BY <1>3, <1>5, <2>1, <3>1, <3>2
  <2>2. CASE ~(q = s /\ IsCall(o))
    <3>1. g = p
      BY <1>2, <1>3, <2>2 DEF Collects
    <3>. QED BY <1>3, <1>5, <2>2, <3>1
  <2>. QED BY <2>1, <2>2
<1>7. ASSUME NEW j \in 0 .. Len(v) PROVE Calls(u, j + d) = Calls(v, j) + e
  <2>1. CASE q = s
    <3>1. d = 1 /\ u[1] = o /\ \A i \in 1 .. j : v[i] = u[i + 1]
      <4>1. d = 1 /\ \A i \in 1 .. Len(v) : v[i] = u[i + d]
        BY <1>1, <1>2, <2>1 DEF Moved
      <4>2. u[1] = o
        BY <1>0, <1>2, <2>1, HeadItem
      <4>. QED BY <4>1, <4>2
    <3>2. Calls(u, j + 1) = Calls(v, j) + (IF IsCall(u[1]) THEN 1 ELSE 0)
      BY <3>1, CallsShift
    <3>. QED BY <1>5, <2>1, <3>1, <3>2
  <2>2. CASE q # s
    <3>1. d = 0 /\ v = u /\ e = 0 /\ j + d = j
      BY <1>1, <1>3, <1>5, <2>2 DEF Shift
    <3>2. j \in Nat
      BY <1>4
    <3>3. Calls(u, j) \in Nat
      BY <3>2, CallsFacts
    <3>. QED BY <3>1, <3>3
  <2>. QED BY <2>1, <2>2
<1>8. e = 1 <=> q = s /\ IsCall(o)
  BY <1>5
<1>. QED BY <1>1, <1>2, <1>4, <1>6, <1>7, <1>8 DEF Passed

(* What lay behind a place still does when the stream has moved. *)
LEMMA BehindShifts ==
  ASSUME Types, Types', InputInv, OverInv, NEW s \in Streams, Executes(s), Ends(s), NEW q \in Streams, NEW d, Moved(q, s, d),
         NEW c \in Colls, NEW j \in Nat, NEW i \in Nat, i <= j + d, Behind(q, i, c)
  PROVE  Behind(q, j, c)'
<1>0. d \in 0 .. 1 /\ Len(stream[q]) \in Nat
  BY DEF Moved
<1>1. Over(c) => Over(c)'
  BY EndShifts
<1>2. \A k \in 1 .. Len(stream'[q]) : k >= j => ~(stream'[q][k].coll = c /\ stream'[q][k].kind \in Fills)
  <2>. TAKE k \in 1 .. Len(stream'[q])
  <2>1. k + d \in 1 .. Len(stream[q]) /\ stream'[q][k] = stream[q][k + d]
    BY DEF Moved
  <2>2. k >= j => k + d >= i
    BY <1>0
  <2>. QED BY <2>1, <2>2 DEF Behind, At
<1>3. ASSUME ~Over(c) PROVE Over(c)' \/ \E k \in 1 .. Len(stream'[q]) : k < j /\ stream'[q][k].coll = c /\ stream'[q][k].kind \in Ways
  <2>1. PICK k \in 1 .. Len(stream[q]) : k < i /\ stream[q][k].coll = c /\ stream[q][k].kind \in Ways
    BY <1>3 DEF Behind, At
  <2>2. CASE k > d
    <3>1. k - d \in 1 .. Len(stream'[q]) /\ stream'[q][k - d] = stream[q][k]
      BY <2>2 DEF Moved
    <3>2. k - d < j
      BY <1>0, <2>1
    <3>. QED BY <2>1, <3>1, <3>2
  <2>3. CASE ~(k > d)
    <3>1. k <= d
      BY <1>0, <2>3
    <3>2. stream[q][k] = Head(stream[s])
      BY <3>1 DEF Moved
    <3>. QED BY <1>3, <2>1, <3>2, WaysPass
  <2>. QED BY <2>2, <2>3
<1>4. Fills' = Fills /\ Ways' = Ways
  BY DEF Fills, Ways
<1>. QED BY <1>1, <1>2, <1>3, <1>4 DEF Behind, At

(* A record is still of work that lies before its callback. *)
LEMMA RecordShifts ==
  ASSUME Types, Types', InputInv, OverInv, NEW s \in Streams, Executes(s), Ends(s), NEW q \in UserStreams, NEW d, Moved(q, s, d),
         NEW r \in Records(q), NEW j \in Nat, NEW i \in Nat, i <= j + d, RecordInv(q, i, r)
  PROVE  RecordInv(q, j, r)'
<1>1. q \in Streams /\ Nobody' = Nobody /\ program' = program
  BY DEF Streams, Nobody, Executes
<1>2. PICK a, b : a = r.coll /\ b = r.timed /\ a \in Colls /\ b \in Colls \cup {Nobody}
  BY DEF Records
<1>3. Behind(q, i, a) /\ (b # Nobody => Call(b).stream = q /\ Behind(q, i, b))
  BY <1>2 DEF RecordInv
<1>4. Behind(q, j, a)'
  BY <1>1, <1>2, <1>3, BehindShifts
<1>5. b # Nobody => Behind(q, j, b)'
  BY <1>1, <1>2, <1>3, BehindShifts
<1>6. Call(b)' = Call(b)
  BY <1>1 DEF Call
<1>. QED BY <1>1, <1>2, <1>3, <1>4, <1>5, <1>6 DEF RecordInv

(* The records of a stream whose operation is executed *)
LEMMA RecordsShift ==
  ASSUME Types, Types', InputInv, OverInv, NEW s \in Streams, Executes(s), Ends(s), Collects(s),
         NEW q \in UserStreams, RecordsInv(q)
  PROVE  RecordsInv(q)'
<1>1. PICK d, e \in 0 .. 1 : Passed(q, s, d, e)
  BY RecordsPass
<1>2. PICK u, v, p, g, O : u = stream[q] /\ v = stream'[q] /\ p = pending[q] /\ g = pending'[q] /\ O = Owing(q)
  OBVIOUS
<1>3. /\ Moved(q, s, d) /\ Len(v) \in Nat /\ Len(v) + d = Len(u) /\ Len(g) \in Nat /\ Len(g) + e = Len(p)
      /\ \A k \in 1 .. Len(g) : g[k] = p[k + e]
      /\ \A j \in 0 .. Len(v) : Calls(u, j + d) = Calls(v, j) + e
  BY <1>1, <1>2 DEF Passed
<1>4. Owing(q)' = O
  <2>1. \A t : Stream(t)' = Stream(t) /\ todo' = todo /\ Threads' = Threads
    BY DEF Executes, Stream, Current, Call, Threads
  <2>2. \A t : Owes(todo[t])' <=> Owes(todo[t])
    BY <2>1 DEF Owes, Has
  <2>. QED BY <1>2, <2>1, <2>2 DEF Owing
<1>5. /\ \A k \in 1 .. Len(p) : p[k] \in Records(q)
      /\ Cardinality(O) \in Nat /\ Len(p) \in Nat /\ Calls(u, Len(u)) \in Nat
      /\ \A j \in 1 .. Len(u) : IsCall(u[j]) => Calls(u, j) \in 1 .. Len(p)
  BY <1>2, CallPlace
<1>6. /\ IsFiniteSet(O) /\ Len(p) = Calls(u, Len(u)) + Cardinality(O)
      /\ \A j \in 1 .. Len(u) : IsCall(u[j]) => RecordInv(q, j, p[Calls(u, j)])
      /\ \A k \in 1 .. Len(p) : RecordInv(q, Len(u) + 1, p[k])
  BY <1>2 DEF RecordsInv, Counted
<1>7. PICK m \in Nat, n \in Nat : m = Len(v) /\ n = Len(u) /\ m + d = n
  BY <1>3
<1>8. Len(g) = Calls(v, m) + Cardinality(O)
  <2>1. m \in 0 .. Len(v)
    BY <1>7
  <2>2. Calls(u, n) = Calls(v, m) + e
    BY <1>3, <1>7, <2>1
  <2>3. PICK a, b, k : a = Calls(v, m) /\ b = Cardinality(O) /\ k = Calls(u, n)
    OBVIOUS
  <2>4. Calls(v, m) \in Nat
    BY CallsFacts
  <2>. QED BY <1>3, <1>5, <1>6, <1>7, <2>2, <2>3, <2>4, SMTT(20)
<1>9. ASSUME NEW j \in 1 .. m, IsCall(v[j]) PROVE \E r : r = g[Calls(v, j)] /\ RecordInv(q, j, r)'
  <2>1. PICK i \in Nat : i = j + d /\ i \in 1 .. n /\ v[j] = u[i] /\ i <= j + d
    BY <1>2, <1>3, <1>7 DEF Moved
  <2>2. j \in 0 .. Len(v) /\ j \in Nat /\ j >= 1
    BY <1>7
  <2>3. Calls(u, i) = Calls(v, j) + e
    BY <1>3, <2>1, <2>2
  <2>4. PICK k \in 1 .. Len(p) : k = Calls(u, i) /\ RecordInv(q, i, p[k])
    BY <1>5, <1>6, <1>7, <1>9, <2>1
  <2>5. PICK l \in Nat : l = Calls(v, j)
    BY <2>2, CallsFacts
  <2>6. 1 <= l
    <3>1. PICK z \in Nat : z = 0 /\ z < j
      BY <2>2
    <3>2. Calls(v, z) < Calls(v, j) /\ Calls(v, z) \in Nat
      BY <1>9, <2>2, <3>1, CallsGrow
    <3>. QED BY <2>5, <3>2
  <2>7. l \in 1 .. Len(g) /\ l + e = k
    BY <1>3, <2>3, <2>4, <2>5, <2>6
  <2>8. PICK r \in Records(q) : r = g[l] /\ r = p[k]
    BY <1>3, <1>5, <2>4, <2>7
  <2>9. RecordInv(q, j, r)'
    BY <1>3, <2>1, <2>2, <2>4, <2>8, RecordShifts
  <2>. QED BY <2>5, <2>8, <2>9
<1>10. ASSUME NEW k \in 1 .. Len(g) PROVE \E r : r = g[k] /\ RecordInv(q, m + 1, r)'
  <2>1. k + e \in 1 .. Len(p)
    BY <1>3
  <2>2. PICK r \in Records(q) : r = g[k] /\ r = p[k + e]
    BY <1>3, <1>5, <2>1
  <2>3. PICK i \in Nat, j \in Nat : i = n + 1 /\ j = m + 1 /\ i <= j + d
    BY <1>7
  <2>4. RecordInv(q, i, r)
    BY <1>6, <1>7, <2>1, <2>2, <2>3
  <2>5. RecordInv(q, j, r)'
    BY <1>3, <2>2, <2>3, <2>4, RecordShifts
  <2>. QED BY <2>2, <2>3, <2>5
<1>11. NextRecords(q, v, g, O, m)
  BY <1>2, <1>4, <1>6, <1>7, <1>8, <1>9, <1>10 DEF NextRecords
<1>. QED BY <1>11, RecordsNext

(* A device's step keeps the records right. *)
LEMMA DeviceRecords ==
  ASSUME Types, Types', InputInv, OverInv, CompletionInv, NEW s \in Streams, Executes(s), Ends(s), Collects(s)
  PROVE  CompletionInv'
<1>0. /\ program' = program /\ todo' = todo /\ index' = index /\ Threads' = Threads /\ UserStreams' = UserStreams
      /\ Nobody' = Nobody /\ Colls' = Colls
  BY DEF Executes, Threads, UserStreams, Nobody, Colls
<1>1. \A q \in UserStreams : RecordsInv(q)'
  BY RecordsShift DEF CompletionInv
<1>2. ASSUME NEW q \in UserStreams, NEW k \in 1 .. Len(pending'[q])
      PROVE  \E i \in 1 .. Len(pending[q]) : pending'[q][k] = pending[q][i]
  <2>1. PICK d, e \in 0 .. 1 : Passed(q, s, d, e)
    BY RecordsPass DEF CompletionInv
  <2>2. k + e \in 1 .. Len(pending[q]) /\ pending'[q][k] = pending[q][k + e]
    BY <2>1 DEF Passed
  <2>. QED BY <2>2
<1>3. ASSUME NEW q \in Streams, NEW j \in 1 .. Len(stream'[q])
      PROVE  \E i \in 1 .. Len(stream[q]) : stream'[q][j] = stream[q][i]
  <2>1. PICK d \in 0 .. 1 : Moved(q, s, d)
    BY ExecutedPlaces DEF Types
  <2>. QED BY <2>1 DEF Moved
<1>4. \A c : Made(c)' <=> Made(c)
  BY <1>0 DEF Made, Calling
<1>5. RecordsMade'
  BY <1>0, <1>2, <1>4 DEF CompletionInv, RecordsMade
<1>6. ASSUME NEW t \in Threads, Used(todo[t])' PROVE Fresh(Current(t))'
  <2>1. PICK c \in Colls, z \in Streams : c = Current(t) /\ z = Call(c).stream
    BY CurrentFacts, CollFacts DEF Types, ThreadTypes
  <2>2. Current(t)' = c /\ Call(c)' = Call(c)
    BY <1>0, <2>1 DEF Current, Call
  <2>3. Used(todo[t])
    BY <1>0, <1>6 DEF Used, Has
  <2>4. Unrecorded(c) /\ Clear(z, c, {"consume"})
    BY <2>1, <2>3 DEF CompletionInv, Fresh
  <2>5. Unrecorded(c)'
    BY <1>0, <1>2, <2>4 DEF Unrecorded
  <2>6. Clear(z, c, {"consume"})'
    <3>1. ASSUME NEW j \in 1 .. Len(stream'[z])
          PROVE  ~(stream'[z][j].coll = c /\ stream'[z][j].kind \in {"consume"})
      <4>1. PICK i \in 1 .. Len(stream[z]) : stream'[z][j] = stream[z][i]
        BY <1>3, <2>1
      <4>. QED BY <2>4, <4>1 DEF Clear, At
    <3>. QED BY <3>1 DEF Clear, At
  <2>7. Fresh(c)'
    BY <2>1, <2>2, <2>5, <2>6 DEF Fresh
  <2>. QED BY <2>2, <2>7
<1>. QED BY <1>0, <1>1, <1>5, <1>6 DEF CompletionInv

(* No stream has records or callbacks at first. *)
LEMMA CompletionInit ==
  ASSUME Init, Types
  PROVE  CompletionInv
<1>1. /\ \A q \in UserStreams : q \in Streams /\ pending[q] = <<>> /\ stream[q] = <<>>
      /\ \A t \in Threads : todo[t] = <<"call">>
  BY DEF Init, Streams
<1>2. ~Owes(<<"call">>) /\ ~Used(<<"call">>)
  BY RestScripts DEF Owes, Used, StepNames, Fills
<1>3. ASSUME NEW q \in UserStreams PROVE RecordsInv(q)
  <2>1. Owing(q) = {}
    BY <1>1, <1>2 DEF Owing
  <2>2. Len(pending[q]) = 0 /\ Len(stream[q]) = 0
    BY <1>1
  <2>3. PICK z \in Nat : z = 0
    OBVIOUS
  <2>4. Calls(stream[q], z) = 0 /\ Cardinality({}) = 0 /\ IsFiniteSet({})
    BY <2>3, CallsFacts, FS_EmptySet
  <2>5. Counted(q)
    BY <2>1, <2>2, <2>3, <2>4 DEF Counted
  <2>. QED BY <2>2, <2>5 DEF RecordsInv
<1>4. RecordsMade
  BY <1>1 DEF RecordsMade
<1>. QED BY <1>1, <1>2, <1>3, <1>4 DEF CompletionInv

(* Nothing changes the records but a step. *)
LEMMA CompletionStutter ==
  ASSUME Types, CompletionInv, UNCHANGED vars
  PROVE  CompletionInv'
<1>0. UNCHANGED <<program, todo, index, stream, pending, happened>>
  BY DEF vars, host, device
<1>1. /\ UserStreams' = UserStreams /\ Threads' = Threads /\ Nobody' = Nobody /\ Fills' = Fills /\ Ways' = Ways
      /\ \A c : Call(c)' = Call(c) /\ PcieStream(c[1])' = PcieStream(c[1])
      /\ \A t : Current(t)' = Current(t) /\ Stream(t)' = Stream(t)
  BY <1>0 DEF UserStreams, Threads, Nobody, Fills, Ways, Call, PcieStream, Current, Stream
<1>2. \A c : (Over(c)' <=> Over(c)) /\ (Made(c)' <=> Made(c))
  BY <1>0, <1>1 DEF Over, Clear, At, Parts, Made, Calling
<1>3. \A s, j, c : Behind(s, j, c)' <=> Behind(s, j, c)
  BY <1>0, <1>1, <1>2 DEF Behind, At
<1>4. \A s, j, r : RecordInv(s, j, r)' <=> RecordInv(s, j, r)
  BY <1>1, <1>3 DEF RecordInv
<1>5. \A s : Owing(s)' = Owing(s)
  BY <1>0, <1>1 DEF Owing, Owes, Has
<1>6. ASSUME NEW s \in UserStreams PROVE RecordsInv(s)'
  <2>1. PICK q, p, O, m : q = stream'[s] /\ p = pending'[s] /\ O = Owing(s)' /\ m = Len(q)
    OBVIOUS
  <2>2. q = stream[s] /\ p = pending[s] /\ O = Owing(s) /\ RecordsInv(s)
    BY <1>0, <1>5, <2>1 DEF CompletionInv
  <2>3. /\ IsFiniteSet(O) /\ Len(p) = Calls(q, m) + Cardinality(O)
        /\ \A j \in 1 .. m : IsCall(q[j]) => RecordInv(s, j, p[Calls(q, j)])
        /\ \A k \in 1 .. Len(p) : RecordInv(s, m + 1, p[k])
    BY <2>1, <2>2 DEF RecordsInv, Counted
  <2>4. NextRecords(s, q, p, O, m)
    BY <1>4, <2>1, <2>3 DEF NextRecords
  <2>. QED BY <2>4, RecordsNext
<1>7. RecordsMade'
  BY <1>0, <1>1, <1>2 DEF CompletionInv, RecordsMade
<1>8. ASSUME NEW t \in Threads, Used(todo[t])' PROVE Fresh(Current(t))'
  <2>1. PICK c : c = Current(t) /\ c = Current(t)'
    BY <1>1
  <2>2. Fresh(c)
    BY <1>0, <1>8, <2>1 DEF CompletionInv, Used, Has
  <2>3. Unrecorded(c)' /\ Call(c)' = Call(c) /\ \A s : Clear(s, c, {"consume"})' <=> Clear(s, c, {"consume"})
    BY <1>0, <1>1, <2>2 DEF Fresh, Unrecorded, Clear, At
  <2>4. Fresh(c)'
    BY <2>2, <2>3 DEF Fresh
  <2>. QED BY <2>1, <2>4
<1>. QED BY <1>1, <1>6, <1>7, <1>8 DEF CompletionInv

RecordedInv == StreamsInv /\ CompletionInv

(* Streams and records are right at first. *)
LEMMA RecordedInit == Init => RecordedInv
BY StreamsInit, CompletionInit DEF RecordedInv, StreamsInv

(* Every step keeps streams and records right. *)
LEMMA RecordedStay ==
  ASSUME RecordedInv, [Next]_vars
  PROVE  RecordedInv'
<1>0. StreamsInv /\ StreamsInv' /\ CompletionInv /\ Types /\ Types' /\ InputInv /\ OverInv
  BY StreamsStay DEF RecordedInv, StreamsInv
<1>1. ASSUME NEW t \in Threads, HostNext(t) PROVE CompletionInv'
  BY <1>0, <1>1, EffectOfHost, HostRecords
<1>2. ASSUME NEW s \in Streams, DeviceNext(s) PROVE CompletionInv'
  BY <1>0, <1>2, DeviceEnds, DeviceCollects, DeviceRecords
<1>3. CASE UNCHANGED vars
  BY <1>0, <1>3, CompletionStutter DEF RecordedInv
<1>. QED BY <1>0, <1>1, <1>2, <1>3 DEF Next, Work, RecordedInv

(* No work is left of a collective that lies before the first place. *)
LEMMA BehindDone ==
  ASSUME Types, NEW c \in Colls, NEW s \in UserStreams, Call(c).stream = s, Behind(s, 1, c)
  PROVE  WorkDone(c)
<1>1. PcieStream(c[1]) \in Streams
  BY CollFacts DEF Types, ThreadTypes
<1>2. Over(c) /\ \A i \in 1 .. Len(stream[s]) : ~At(s, i, c, Fills)
  BY StreamLengths DEF Behind, Types, Streams
<1>3. ASSUME NEW q \in Streams, NEW k \in DOMAIN stream[q], stream[q][k].coll = c
      PROVE  stream[q][k].kind \notin {"fast", "pcie", "nothing"}
  <2>1. k \in 1 .. Len(stream[q]) /\ stream[q][k] \in ItemsOf(q)
    BY ItemFacts DEF Types, StreamTypes
  <2>2. q = IF stream[q][k].kind \in PcieKinds THEN PcieStream(c[1]) ELSE s
    BY <1>3, <2>1 DEF ItemsOf, Place
  <2>3. CASE stream[q][k].kind = "fast"
    BY <1>2, <1>3, <2>1, <2>2, <2>3 DEF At, Fills, PcieKinds
  <2>4. CASE stream[q][k].kind \in Parts
    BY <1>2, <1>3, <2>1, <2>2, <2>4 DEF At, Parts, PcieKinds, Over, Clear
  <2>. QED BY <2>3, <2>4 DEF Parts
<1>. QED BY <1>3 DEF WorkDone

(* A callback finds the first record, and its work behind it. *)
LEMMA FirstRecord ==
  ASSUME RecordedInv, NEW s \in UserStreams, head(s, "callback")
  PROVE  /\ pending[s] # <<>> /\ Head(pending[s]) \in Records(s) /\ Calls(stream[s], 1) = 1
         /\ Head(pending[s]) = pending[s][1] /\ RecordInv(s, 1, Head(pending[s]))
<1>1. Types /\ RecordsInv(s) /\ stream[s] # <<>> /\ IsCall(Head(stream[s])) /\ s \in Streams
  BY DEF RecordedInv, StreamsInv, CompletionInv, head, IsCall, Streams
<1>2. pending[s] # <<>> /\ Calls(stream[s], 1) = 1
  BY <1>1, CallFirst
<1>3. 1 \in 1 .. Len(stream[s]) /\ stream[s][1] = Head(stream[s])
  BY <1>1, HeadItem
<1>4. pending[s] \in Seq(Records(s))
  BY <1>1 DEF Types, StreamTypes
<1>5. Head(pending[s]) = pending[s][1] /\ Head(pending[s]) \in Records(s)
  BY <1>2, <1>4
<1>6. RecordInv(s, 1, pending[s][Calls(stream[s], 1)])
  BY <1>1, <1>3 DEF RecordsInv
<1>. QED BY <1>2, <1>5, <1>6

(* A callback never finds its stream without a record, and never waits for *)
(* a timer that has not ended: however the threads that share a stream     *)
(* interleave their registrations, their timers and their callbacks, and   *)
(* whatever fails, the record a callback takes and the timers it carries   *)
(* are of work the device has executed (DomainManager::                    *)
(* OnStreamSynchronized takes the oldest record of the stream).            *)
THEOREM CallbacksFindWork == Spec => []CallbackFindsWork
<1>1. RecordedInv => CallbackFindsWork
  <2>. SUFFICES ASSUME RecordedInv, NEW s \in UserStreams, head(s, "callback")
                PROVE  /\ pending[s] # <<>>
                       /\ LET r == Head(pending[s]) IN WorkDone(r.coll) /\ (r.timed # Nobody => WorkDone(r.timed))
    BY DEF CallbackFindsWork
  <2>1. PICK r \in Records(s) : r = Head(pending[s]) /\ RecordInv(s, 1, r) /\ pending[s] # <<>>
    BY FirstRecord
  <2>2. PICK a, b : a = r.coll /\ b = r.timed /\ a \in Colls /\ b \in Colls \cup {Nobody} /\ Call(a).stream = s
    BY DEF Records
  <2>3. Behind(s, 1, a) /\ (b # Nobody => Call(b).stream = s /\ Behind(s, 1, b))
    BY <2>1, <2>2 DEF RecordInv
  <2>4. WorkDone(a) /\ (b # Nobody => WorkDone(b))
    BY <2>2, <2>3, BehindDone DEF RecordedInv, StreamsInv
  <2>. QED BY <2>1, <2>2, <2>4
<1>. QED BY <1>1, RecordedInit, RecordedStay, PTL DEF Spec

-----------------------------------------------------------------------------
(* The output: what follows a collective follows both of its parts *)

(* A part of the collective is queued, or was executed. *)
Partly(c) ==
  \/ {"fast", "pcie"} \cap happened[c] # {}
  \/ ~Clear(Call(c).stream, c, {"fast"}) \/ ~Clear(PcieStream(c[1]), c, {"pcie"})

(* The records of the collective are of callbacks before place j. *)
Collected(s, j, c) ==
  OneThread => \A k \in 1 .. Len(pending[s]) : pending[s][k].coll = c => k <= Calls(stream[s], j)

ConsumeInv(s, j) ==
  stream[s][j].kind = "consume" =>
    Behind(s, j, stream[s][j].coll) /\ Partly(stream[s][j].coll) /\ Collected(s, j, stream[s][j].coll)
Submits(w) == Has(w, "fast") \/ Has(w, "pcie")
Promised(t) == ok[t] /\ todo[t] # <<>> /\ ~Calling(todo[t]) => Submits(todo[t]) \/ Partly(Current(t))
OutputInv ==
  /\ \A s \in UserStreams : \A j \in 1 .. Len(stream[s]) : ConsumeInv(s, j)
  /\ \A t \in Threads : Promised(t)

(* What becomes of the result of the PCIe part *)
LEMMA OkMoves ==
  ASSUME Types, Types', NEW t \in Threads, HostNext(t), HostEffect(t), NEW h \in StepNames, h = Head(todo[t])
  PROVE  /\ \A q \in Threads : q # t => ok'[q] = ok[q]
         /\ ok'[t] => ok[t] \/ h = "call" \/ h = "pcie"
         /\ h = "pcie" /\ ok'[t] => Adds(t, "pcie")
         /\ h = "sync_user" => next(t) \/ ~ok'[t]
         /\ h = "return" => ok' = ok /\ pending' = pending /\ (~ok[t] => stream' = stream)
<1>0. DOMAIN ok = Threads /\ HostShape(t)
  BY DEF Types, ThreadTypes, HostEffect
<1>1. CASE ok' = ok /\ h \notin {"pcie", "sync_user", "return"}
  BY <1>1
<1>2. CASE StartCall(t)
  <2>1. h = "call" /\ ok' = [ok EXCEPT ![t] = TRUE]
    BY <1>2 DEF StartCall, at
  <2>. QED BY <1>0, <2>1
<1>3. CASE PciePart(t)
  <2>1. PICK accepted \in BOOLEAN : /\ enqueue(PcieStream(t), item(IF accepted THEN "pcie" ELSE "nothing", t))
                                    /\ ok' = [ok EXCEPT ![t] = accepted]
    BY <1>3 DEF PciePart
  <2>2. h = "pcie"
    BY <1>3 DEF PciePart, at
  <2>3. ok'[t] => Adds(t, "pcie")
    <3>. SUFFICES ASSUME accepted PROVE Adds(t, "pcie")
      BY <1>0, <2>1
    <3>1. "pcie" \in PcieKinds /\ "pcie" \in Kinds
      BY DEF PcieKinds, Kinds
    <3>2. enqueue(PcieStream(t), item("pcie", t))
      BY <2>1
    <3>. QED BY <1>0, <3>1, <3>2, AddsOne
  <2>. QED BY <1>0, <2>1, <2>2, <2>3
<1>4. CASE SynchronizeUser(t)
  BY <1>4 DEF SynchronizeUser, HostStep, at, locals
<1>5. CASE SynchronizeFails(t)
  <2>1. h = "sync_user" /\ ok' = [ok EXCEPT ![t] = FALSE]
    BY <1>5 DEF SynchronizeFails, at
  <2>. QED BY <1>0, <2>1
<1>6. CASE Return(t)
  <2>1. h = "return" /\ ok' = ok /\ pending' = pending /\ (~ok[t] => stream' = stream)
    BY <1>6 DEF Return, at
  <2>. QED BY <2>1
<1>7. CASE Allocate(t) \/ BeginValueSync(t) \/ NoValueSync(t) \/ RegisterPending(t) \/ AttachTimers(t)
  <2>1. ok' = ok
    BY <1>7 DEF Allocate, BeginValueSync, NoValueSync, RegisterPending, AttachTimers, locals
  <2>2. h \notin {"pcie", "sync_user", "return"}
    BY <1>7, ActionHeads DEF at
  <2>. QED BY <1>1, <2>1, <2>2
<1>8. CASE \/ EnqueueInputReady(t) \/ EnqueueInputWait(t) \/ Pack(t) \/ FastPart(t) \/ EnqueueWrite(t) \/ EnqueueWait(t)
           \/ WaitEventOnStream(t) \/ SyncPcieStream(t) \/ Merge(t) \/ EnqueueCallback(t)
  <2>1. ok' = ok
    BY <1>8 DEF EnqueueInputReady, EnqueueInputWait, Pack, FastPart, EnqueueWrite, EnqueueWait, WaitEventOnStream,
                SyncPcieStream, Merge, EnqueueCallback, HostStep, locals
  <2>2. h \notin {"pcie", "sync_user", "return"}
    BY <1>8, ActionHeads DEF at
  <2>. QED BY <1>1, <2>1, <2>2
<1>. QED BY <1>2, <1>3, <1>4, <1>5, <1>6, <1>7, <1>8 DEF HostNext

(* A collective that runs in part still does. *)
LEMMA PartlyStays ==
  ASSUME Types, Types', NEW t \in Threads, HostEffect(t), NEW c \in Colls, Partly(c)
  PROVE  Partly(c)'
<1>1. program' = program /\ happened' = happened /\ Extended(t, QueuedBy(Head(todo[t])))
  BY HostFrame
<1>2. PICK u \in Streams, r \in Streams : u = Call(c).stream /\ r = PcieStream(c[1])
  BY CollFacts DEF Types, ThreadTypes
<1>3. Call(c)' = Call(c) /\ PcieStream(c[1])' = r /\ Call(c).stream' = u
  BY <1>1, <1>2 DEF Call, PcieStream
<1>4. /\ ~Clear(u, c, {"fast"}) => ~Clear(u, c, {"fast"})'
      /\ ~Clear(r, c, {"pcie"}) => ~Clear(r, c, {"pcie"})'
  BY <1>1, ClearStays
<1>. QED BY <1>1, <1>2, <1>3, <1>4 DEF Partly, Clear, At

(* A collective of which a part is queued runs in part. *)
LEMMA PartlyNow ==
  ASSUME Types, Types', NEW t \in Threads, HostEffect(t), NEW kind \in {"fast", "pcie"}, Adds(t, kind),
         NEW c \in Colls, c = Current(t)
  PROVE  Partly(c)'
<1>1. program' = program
  BY HostFrame
<1>2. PICK u \in Streams, r \in Streams : u = Call(c).stream /\ r = PcieStream(c[1]) /\ u = Stream(t) /\ r = PcieStream(t)
  BY CollFacts, CurrentFacts DEF Types, ThreadTypes
<1>3. PcieStream(c[1])' = r /\ Call(c).stream' = u
  BY <1>1, <1>2 DEF Call, PcieStream
<1>4. PICK s, l : s = (IF kind = "pcie" THEN r ELSE u) /\ l \in 1 .. Len(stream'[s]) /\ stream'[s][l] = item(kind, t)
  <2>1. PICK s : s = (IF kind \in PcieKinds THEN PcieStream(t) ELSE Stream(t))
    OBVIOUS
  <2>2. Len(stream[s]) \in Nat /\ Len(stream'[s]) = Len(stream[s]) + 1 /\ stream'[s][Len(stream[s]) + 1] = item(kind, t)
    BY <2>1 DEF Adds
  <2>3. s = IF kind = "pcie" THEN r ELSE u
    BY <1>2, <2>1 DEF PcieKinds
  <2>4. Len(stream[s]) + 1 \in 1 .. Len(stream'[s])
    BY <2>2
  <2>. QED BY <2>2, <2>3, <2>4
<1>5. stream'[s][l].coll = c /\ stream'[s][l].kind = kind
  BY <1>4 DEF item
<1>6. kind = "fast" => ~Clear(u, c, {"fast"})'
  BY <1>4, <1>5 DEF Clear, At
<1>7. kind = "pcie" => ~Clear(r, c, {"pcie"})'
  BY <1>4, <1>5 DEF Clear, At
<1>. QED BY <1>3, <1>6, <1>7 DEF Partly, Clear, At

(* What a step leaves of a thread's promise of a part *)
LEMMA PromiseTail ==
  ASSUME Types, Types', NEW t \in Threads, HostNext(t), HostEffect(t), Promised(t),
         NEW c \in Colls, NEW x \in Contexts, NEW n \in Nat, NEW w \in Seq(StepNames), NEW h \in StepNames,
         Facing(t, c, x, n, w, h), h # "call", ok'[t], h = "fast" => Adds(t, "fast")
  PROVE  Submits(Tail(w)) \/ Partly(c)'
<1>1. c = Current(t) /\ w = todo[t] /\ h = Head(w) /\ w # <<>>
  BY DEF Facing
<1>2. CASE h = "fast" \/ h = "pcie"
  BY <1>1, <1>2, OkMoves, PartlyNow
<1>3. CASE h # "fast" /\ h # "pcie"
  <2>1. ok[t]
    BY <1>1, <1>3, OkMoves
  <2>2. Submits(w) \/ Partly(c)
    BY <1>1, <2>1 DEF Promised, Calling
  <2>3. Submits(w) => Submits(Tail(w))
    BY <1>1, <1>3, TailInOrder DEF Submits, Facing
  <2>. QED BY <2>2, <2>3, PartlyStays
<1>. QED BY <1>2, <1>3

(* A thread will still queue a part, or has, after its own step. *)
LEMMA OwnPromise ==
  ASSUME Types, Types', InputInv, OverInv, NEW t \in Threads, HostNext(t), HostEffect(t), Promised(t)
  PROVE  Promised(t)'
<1>1. PICK c \in Colls, x \in Contexts, n \in Nat, w \in Seq(StepNames), h \in StepNames : Facing(t, c, x, n, w, h)
  BY FacingFacts DEF HostEffect
<1>2. c = Current(t) /\ w = todo[t] /\ h = Head(w) /\ w # <<>> /\ InOrder(w) /\ Script(w)
  BY <1>1 DEF Facing
<1>3. PICK v : v = todo'[t]
  OBVIOUS
<1>. SUFFICES ASSUME ok'[t], v # <<>>, Head(v) # "call" PROVE Submits(v) \/ Partly(Current(t))'
  BY <1>3 DEF Promised, Calling, Submits, Has
<1>4. Current(t)' = c
  <2>1. Current(t)' = c \/ v = <<"call">>
    BY <1>1, <1>3, OwesMoves
  <2>2. Head(<<"call">>) = "call"
    OBVIOUS
  <2>. QED BY <2>1, <2>2
<1>5. Moves(t, w) /\ DOMAIN todo = Threads
  BY <1>2 DEF HostEffect, Types, ThreadTypes
<1>6. CASE next(t) /\ h # "call" /\ (h = "fast" => Adds(t, "fast"))
  <2>1. v = Tail(w)
    BY <1>2, <1>3, <1>5, <1>6 DEF next
  <2>2. Submits(v) \/ Partly(c)'
    BY <1>1, <1>6, <2>1, PromiseTail
  <2>. QED BY <1>4, <2>2
<1>7. CASE Advance(t, w)
  <2>1. next(t) /\ h # "call"
    BY <1>2, <1>7 DEF Advance
  <2>2. h = "fast" => Adds(t, "fast")
    BY <1>2, <1>7, QueuedByValues DEF Advance
  <2>. QED BY <1>6, <2>1, <2>2
<1>8. CASE FallsBack(t, w)
  <2>1. PICK step, k : Fallback(w, step, k) /\ Instead(t, step, k)
    BY <1>8 DEF FallsBack
  <2>2. v = <<step>> \o SubSeq(w, 1 + k, Len(w))
    BY <1>2, <1>3, <1>5, <2>1 DEF Instead
  <2>3. \A z : Has(w, z) /\ z \notin {"input", "input_wait", "write_done", "wait_done"} => Has(v, z)
    BY <1>2, <2>1, <2>2, ScriptFallback
  <2>4. ok[t] /\ h # "call"
    BY <1>2, <1>8, <2>1 DEF FallsBack, Fallback
  <2>5. Submits(w) \/ Partly(c)
    BY <1>2, <2>4 DEF Promised, Calling
  <2>6. Submits(w) => Submits(v)
    BY <2>3 DEF Submits
  <2>. QED BY <1>4, <2>5, <2>6, PartlyStays
<1>9. CASE CutsShort(t, w)
  <2>1. CASE h = "alloc" /\ todo' = [todo EXCEPT ![t] = <<"fast">> \o Notify \o <<"return">>]
    <3>1. v = <<"fast">> \o Notify \o <<"return">>
      BY <1>3, <1>5, <2>1
    <3>2. Has(v, "fast")
      BY <3>1, ShortStarts
    <3>. QED BY <3>2 DEF Submits
  <2>2. CASE h = "sync_user"
    <3>1. next(t)
      BY <1>2, <2>2, OkMoves
    <3>. QED BY <1>6, <2>2, <3>1
  <2>. QED BY <1>2, <1>9, <2>1, <2>2 DEF CutsShort
<1>10. CASE StartsCall(t, w)
  <2>1. v = StepsOf(Call(c).op, LaunchPlan(c)) \o <<"return">>
    BY <1>2, <1>3, <1>5, <1>10 DEF StartsCall
  <2>2. Starts(v, Call(c).op)
    BY <2>1, WholeScript, CollFacts DEF Types, ThreadTypes
  <2>. QED BY <2>2 DEF Starts, Submits
<1>11. CASE GoesOn(t, w)
  <2>1. v = <<"call">> /\ Head(<<"call">>) = "call"
    BY <1>3, <1>5, <1>11 DEF GoesOn
  <2>. QED BY <2>1
<1>. QED BY <1>5, <1>7, <1>8, <1>9, <1>10, <1>11 DEF Moves

(* The same after anybody's step *)
LEMMA Promises ==
  ASSUME Types, Types', InputInv, OverInv, NEW t \in Threads, HostNext(t), HostEffect(t), NEW q \in Threads, Promised(q)
  PROVE  Promised(q)'
<1>1. CASE q = t
  BY <1>1, OwnPromise
<1>2. CASE q # t
  <2>1. PICK h \in StepNames : h = Head(todo[t])
    BY FacingFacts DEF Facing, HostEffect
  <2>2. ok'[q] = ok[q] /\ todo'[q] = todo[q] /\ Current(q)' = Current(q)
    BY <1>2, <2>1, OkMoves, HostFrame
  <2>3. PICK c \in Colls : c = Current(q) /\ c = Current(q)'
    BY <2>2, CurrentFacts DEF Types
  <2>4. Partly(c) => Partly(c)'
    BY PartlyStays
  <2>5. Partly(Current(q))' <=> Partly(c)'
    BY <2>3
  <2>. QED BY <2>2, <2>3, <2>4, <2>5 DEF Promised, Calling, Submits, Has
<1>. QED BY <1>1, <1>2

(* No record is registered behind the place of its collective. *)
LEMMA CollectedStays ==
  ASSUME Types, Types', NEW t \in Threads, HostNext(t), HostEffect(t),
         NEW c \in Colls, NEW x \in Contexts, NEW n \in Nat, NEW w \in Seq(StepNames), NEW h \in StepNames,
         Facing(t, c, x, n, w, h), NEW s \in UserStreams, NEW j \in 1 .. Len(stream[s]), NEW d \in Colls,
         d # c \/ h # "register", Collected(s, j, d)
  PROVE  Collected(s, j, d)'
<1>1. PICK p, g, u, v : p = pending[s] /\ g = pending'[s] /\ u = stream[s] /\ v = stream'[s]
  OBVIOUS
<1>2. h = Head(todo[t]) /\ c = Current(t) /\ program' = program
  BY HostFrame DEF Facing
<1>3. PendingMoves(t, s, p, g) /\ p \in Seq(Records(s)) /\ s \in Streams
  BY <1>1, PendingMove DEF Types, StreamTypes, Streams
<1>4. Calls(v, j) = Calls(u, j)
  <2>1. j \in 0 .. Len(u)
    BY <1>1, <1>3, StreamLengths DEF Types
  <2>. QED BY <1>1, <2>1, CallsHost
<1>5. \A k \in 1 .. Len(g) : g[k].coll = d => k \in 1 .. Len(p) /\ p[k].coll = d
  <2>1. CASE g = p
    BY <2>1
  <2>2. CASE h = "register" /\ g # p
    <3>1. PICK e : g = Append(p, e) /\ e.coll = c
      BY <1>2, <1>3, <2>2 DEF PendingMoves
    <3>2. Len(g) = Len(p) + 1 /\ g[Len(p) + 1] = e /\ \A k \in 1 .. Len(p) : g[k] = p[k]
      BY <1>3, <3>1
    <3>. QED BY <1>3, <2>2, <3>1, <3>2
  <2>3. CASE h = "attach" /\ g # p
    <3>1. Len(g) = Len(p) /\ \A a \in 1 .. Len(p) : g[a].coll = p[a].coll
      BY <1>2, <1>3, <2>3 DEF PendingMoves
    <3>. QED BY <3>1
  <2>. QED BY <1>2, <1>3, <2>1, <2>2, <2>3 DEF PendingMoves
<1>6. OneThread => \A k \in 1 .. Len(p) : p[k].coll = d => k <= Calls(u, j)
  BY <1>1 DEF Collected
<1>7. OneThread => \A k \in 1 .. Len(g) : g[k].coll = d => k <= Calls(v, j)
  BY <1>4, <1>5, <1>6
<1>8. OneThread' <=> OneThread
  BY <1>2 DEF OneThread, Threads
<1>. QED BY <1>1, <1>7, <1>8 DEF Collected, Calls, IsCall

(* What uses a result stays behind what makes it. *)
LEMMA ConsumeStays ==
  ASSUME Types, Types', CompletionInv, NEW t \in Threads, HostNext(t), HostEffect(t),
         NEW c \in Colls, NEW x \in Contexts, NEW n \in Nat, NEW w \in Seq(StepNames), NEW h \in StepNames,
         Facing(t, c, x, n, w, h), NEW s \in UserStreams, NEW j \in 1 .. Len(stream[s]), NEW d \in Colls,
         stream[s][j].kind = "consume", stream[s][j].coll = d, ConsumeInv(s, j)
  PROVE  Behind(s, j, d)' /\ Partly(d)' /\ Collected(s, j, d)'
<1>1. PICK v : v = todo'[t]
  OBVIOUS
<1>2. OwesStep(w, v, h) /\ h = Head(todo[t]) /\ c = Current(t) /\ w = todo[t]
  BY <1>1, OwesMoves DEF Facing
<1>3. s \in Streams /\ s = Call(d).stream
  <2>1. s \in Streams /\ stream[s] \in Seq(ItemsOf(s))
    BY DEF Types, StreamTypes, Streams
  <2>2. PICK o \in ItemsOf(s) : o = stream[s][j]
    BY <2>1
  <2>3. o.kind = "consume" /\ o.coll = d
    BY <2>2
  <2>4. s = Place(o)
    BY DEF ItemsOf
  <2>. QED BY <2>1, <2>3, <2>4 DEF Place, PcieKinds
<1>4. d # c \/ h \notin Fills \cup {"pcie", "register"}
  <2>. SUFFICES ASSUME d = c, Used(w) PROVE FALSE
    BY <1>2 DEF OwesStep
  <2>1. Clear(s, d, {"consume"})
    BY <1>2, <1>3 DEF CompletionInv, Fresh
  <2>. QED BY <2>1 DEF Clear, At
<1>5. Behind(s, j, d) /\ Partly(d) /\ Collected(s, j, d)
  BY DEF ConsumeInv
<1>6. PICK i \in Nat : i = j /\ i <= i
  BY <1>3, StreamLengths DEF Types
<1>7. Behind(s, i, d)'
  BY <1>2, <1>3, <1>4, <1>5, <1>6, BehindStays
<1>8. Partly(d)'
  BY <1>5, PartlyStays
<1>9. d # c \/ h # "register"
  BY <1>4
<1>10. Collected(s, j, d)'
  BY <1>5, <1>9, CollectedStays
<1>. QED BY <1>6, <1>7, <1>8, <1>10

(* What a return queues is behind what makes the result. *)
LEMMA ConsumeAdded ==
  ASSUME Types, Types', CompletionInv, NEW t \in Threads, HostNext(t), HostEffect(t), Promised(t),
         NEW c \in Colls, NEW x \in Contexts, NEW n \in Nat, NEW w \in Seq(StepNames), NEW h \in StepNames,
         Facing(t, c, x, n, w, h), NEW s \in UserStreams, NEW j \in 1 .. Len(stream'[s]), j > Len(stream[s]),
         h = "return", s = Call(c).stream
  PROVE  Behind(s, j, c)' /\ Partly(c)' /\ Collected(s, j, c)'
<1>1. h = Head(todo[t]) /\ c = Current(t) /\ w = todo[t] /\ w # <<>> /\ InOrder(w) /\ Script(w) /\ program' = program
  BY HostFrame DEF Facing
<1>2. s \in Streams /\ Len(stream[s]) \in Nat /\ Len(stream'[s]) \in Nat
  BY <1>1, StreamLengths, QueuedPlaces, HostFrame DEF Types, Streams
<1>3. ok[t] /\ pending' = pending
  BY <1>1, <1>2, OkMoves
<1>4. Behind(s, j, c)'
  <2>1. PICK i \in Nat, m \in Nat : i = Len(stream[s]) + 1 /\ m = j /\ i <= m
    BY <1>2
  <2>2. Behind(s, i, c)
    BY <2>1, SettledAt, BehindNow
  <2>3. Behind(s, m, c)'
    BY <1>1, <1>2, <2>1, <2>2, BehindStays DEF Fills
  <2>. QED BY <2>1, <2>3
<1>5. ~Submits(w)
  <2>1. Stage["return"] = 5 /\ Stage["fast"] = 1 /\ Stage["pcie"] = 1
    BY StageValues DEF StepNames
  <2>2. \A step : Has(Tail(w), step) => Stage[h] < Stage[step]
    BY <1>1, <2>1, ScriptTail
  <2>3. \A step : Has(w, step) /\ step # h => Has(Tail(w), step)
    BY <1>1, TailInOrder
  <2>4. ~Has(w, "fast")
    BY <2>1, <2>2, <2>3
  <2>5. ~Has(w, "pcie")
    BY <2>1, <2>2, <2>3
  <2>. QED BY <2>4, <2>5 DEF Submits
<1>6. Partly(c)'
  BY <1>1, <1>3, <1>5, PartlyStays DEF Promised, Calling
<1>7. ASSUME OneThread PROVE Len(pending[s]) <= Calls(stream'[s], j)
  <2>1. Owing(s) = {}
    <3>1. t \notin Owing(s)
      BY OwingMoves
    <3>2. \A q \in Threads : q = t
      BY <1>7 DEF OneThread
    <3>. QED BY <3>1, <3>2 DEF Owing
  <2>2. Len(pending[s]) = Calls(stream[s], Len(stream[s])) + Cardinality({})
    BY <2>1 DEF CompletionInv, RecordsInv, Counted
  <2>3. PICK m \in Nat, i \in Nat : m = Len(stream[s]) /\ i = j /\ m <= i /\ m \in 0 .. Len(stream[s])
    BY <1>2
  <2>4. Calls(stream'[s], m) = Calls(stream[s], m)
    BY <2>3, CallsHost
  <2>5. Calls(stream'[s], m) \in Nat /\ Calls(stream'[s], i) \in Nat /\ Calls(stream'[s], m) <= Calls(stream'[s], i)
    BY <2>3, CallsGrow
  <2>6. Cardinality({}) = 0
    BY FS_EmptySet
  <2>. QED BY <2>2, <2>3, <2>4, <2>5, <2>6
<1>8. Len(pending[s]) \in Nat /\ Calls(stream'[s], j) \in Nat
  <2>1. j \in Nat
    BY <1>2
  <2>2. Calls(stream'[s], j) \in Nat
    BY <2>1, CallsFacts
  <2>3. Len(pending[s]) \in Nat
    BY CallPlace DEF CompletionInv
  <2>. QED BY <2>2, <2>3
<1>9. OneThread' <=> OneThread
  BY <1>1 DEF OneThread, Threads
<1>10. Collected(s, j, c)'
  BY <1>3, <1>7, <1>8, <1>9 DEF Collected, Calls, IsCall
<1>. QED BY <1>4, <1>6, <1>10

(* A host's step keeps what uses results behind what makes them. *)
LEMMA HostOutput ==
  ASSUME Types, Types', InputInv, OverInv, CompletionInv, OutputInv, NEW t \in Threads, HostNext(t), HostEffect(t)
  PROVE  OutputInv'
<1>0. program' = program /\ UserStreams' = UserStreams /\ Threads' = Threads /\ Extended(t, QueuedBy(Head(todo[t])))
  BY HostFrame DEF SameProgram
<1>1. PICK c \in Colls, x \in Contexts, n \in Nat, w \in Seq(StepNames), h \in StepNames : Facing(t, c, x, n, w, h)
  BY FacingFacts DEF HostEffect
<1>2. ASSUME NEW s \in UserStreams, NEW j \in 1 .. Len(stream'[s]) PROVE ConsumeInv(s, j)'
  <2>. SUFFICES ASSUME stream'[s][j].kind = "consume"
                PROVE  \E d : d = stream'[s][j].coll /\ Behind(s, j, d)' /\ Partly(d)' /\ Collected(s, j, d)'
    BY DEF ConsumeInv
  <2>0. s \in Streams /\ h = Head(todo[t]) /\ c = Current(t)
    BY <1>1 DEF Streams, Facing
  <2>1. CASE j \in 1 .. Len(stream[s])
    <3>1. PICK d \in Colls : stream[s][j].kind = "consume" /\ stream[s][j].coll = d /\ d = stream'[s][j].coll
      <4>1. stream'[s][j] = stream[s][j]
        BY <1>0, <2>0, <2>1, QueuedPlaces
      <4>2. stream[s][j] \in ItemsOf(s)
        BY <2>0, <2>1 DEF Types, StreamTypes
      <4>. QED BY <4>1, <4>2 DEF ItemsOf, Items
    <3>. QED BY <1>1, <2>1, <3>1, ConsumeStays DEF OutputInv
  <2>2. CASE j \notin 1 .. Len(stream[s])
    <3>1. j > Len(stream[s]) /\ stream'[s][j].kind \in QueuedBy(h) /\ stream'[s][j].coll = c /\ stream'[s][j] \in ItemsOf(s)
      BY <1>0, <2>0, <2>2, QueuedPlaces
    <3>2. h = "return"
      BY <3>1, ConsumeQueued
    <3>3. s = Call(c).stream
      BY <3>1 DEF ItemsOf, Place, PcieKinds
    <3>. QED BY <1>1, <3>1, <3>2, <3>3, ConsumeAdded DEF OutputInv
  <2>. QED BY <2>1, <2>2
<1>3. \A q \in Threads : Promised(q)'
  BY Promises DEF OutputInv
<1>. QED BY <1>0, <1>2, <1>3 DEF OutputInv

(* What the device leaves of the collectives it has executed *)
Does(s) ==
  /\ ok' = ok /\ \A c \in Colls : happened[c] \subseteq happened'[c]
  /\ Head(stream[s]).kind \in {"fast", "pcie"} => Head(stream[s]).kind \in happened'[Head(stream[s]).coll]

(* What is marked has happened, and nothing is forgotten. *)
LEMMA MarkDoes ==
  ASSUME DeviceTypes, NEW c \in Colls, NEW E, happened' = [happened EXCEPT ![c] = @ \cup E]
  PROVE  E \subseteq happened'[c] /\ \A d \in Colls : happened[d] \subseteq happened'[d]
BY DEF DeviceTypes

(* What an operation does has happened when it was executed. *)
LEMMA DeviceDoes ==
  ASSUME Types, InputInv, NEW s \in Streams, DeviceNext(s)
  PROVE  Does(s)
<1>0. ok' = ok /\ stream[s] # <<>> /\ DeviceTypes
  BY DEF DeviceNext, WriteToken, WaitToken, WaitEvent, Compute, FillBuffer, RunPcie, FreeAsync, HostCompletion, head,
         DeviceStep, host, InputInv
<1>1. PICK o \in ItemsOf(s), c \in Colls : o = Head(stream[s]) /\ c = o.coll
  BY <1>0, HeadItem
<1>2. CASE WriteToken(s) \/ WaitToken(s) \/ WaitEvent(s) \/ FreeAsync(s)
  <2>1. happened' = happened /\ o.kind \notin {"fast", "pcie"}
    BY <1>1, <1>2 DEF WriteToken, WaitToken, WaitEvent, FreeAsync, device, head
  <2>. QED BY <1>0, <1>1, <2>1 DEF Does
<1>3. CASE Compute(s) \/ FillBuffer(s)
  <2>1. happened' = [happened EXCEPT ![c] = @ \cup {o.kind}]
    BY <1>1, <1>3 DEF Compute, FillBuffer, mark
  <2>2. {o.kind} \subseteq happened'[c] /\ \A d \in Colls : happened[d] \subseteq happened'[d]
    BY <1>0, <2>1, MarkDoes
  <2>. QED BY <1>0, <1>1, <2>2 DEF Does
<1>4. CASE RunPcie(s)
  <2>1. happened' = [happened EXCEPT ![c] = @ \cup {o.kind, "ended"}]
    BY <1>1, <1>4 DEF RunPcie
  <2>2. {o.kind, "ended"} \subseteq happened'[c] /\ \A d \in Colls : happened[d] \subseteq happened'[d]
    BY <1>0, <2>1, MarkDoes
  <2>. QED BY <1>0, <1>1, <2>2 DEF Does
<1>5. CASE HostCompletion(s)
  <2>1. o.kind = "callback" /\ (happened' = happened \/ (pending[s] # <<>> /\ mark(Head(pending[s]).coll, "merge")))
    BY <1>1, <1>5 DEF HostCompletion, head
  <2>2. ASSUME pending[s] # <<>>, mark(Head(pending[s]).coll, "merge")
        PROVE  \A d \in Colls : happened[d] \subseteq happened'[d]
    <3>1. s \in UserStreams
      BY <1>1, <2>1, CollFacts DEF ItemsOf, Place, PcieKinds, Types, ThreadTypes
    <3>2. pending[s] \in Seq(Records(s))
      BY <3>1 DEF Types, StreamTypes
    <3>3. PICK d \in Colls : d = Head(pending[s]).coll
      BY <2>2, <3>2 DEF Records
    <3>4. happened' = [happened EXCEPT ![d] = @ \cup {"merge"}]
      BY <2>2, <3>3 DEF mark
    <3>. QED BY <1>0, <3>4, MarkDoes
  <2>. QED BY <1>0, <1>1, <2>1, <2>2 DEF Does
<1>. QED BY <1>2, <1>3, <1>4, <1>5 DEF DeviceNext

(* A part that is queued stays queued or happens. *)
LEMMA PartShifts ==
  ASSUME Types, NEW s \in Streams, Executes(s), Does(s), NEW c \in Colls, NEW z \in Streams,
         NEW kind \in {"fast", "pcie"}, ~Clear(z, c, {kind}), kind \notin happened'[c]
  PROVE  ~Clear(z, c, {kind})'
<1>1. PICK i \in 1 .. Len(stream[z]) : stream[z][i].coll = c /\ stream[z][i].kind = kind
  BY DEF Clear, At
<1>2. PICK d \in 0 .. 1 : Moved(z, s, d)
  BY ExecutedPlaces DEF Types
<1>3. CASE i > d
  <2>1. i - d \in 1 .. Len(stream'[z]) /\ stream'[z][i - d] = stream[z][i]
    BY <1>2, <1>3 DEF Moved
  <2>. QED BY <1>1, <2>1 DEF Clear, At
<1>4. CASE ~(i > d)
  <2>1. i <= d
    BY <1>2, <1>4 DEF Moved
  <2>2. stream[z][i] = Head(stream[s])
    BY <1>2, <2>1 DEF Moved
  <2>. QED BY <1>1, <2>2 DEF Does
<1>. QED BY <1>3, <1>4

(* A collective that runs in part still does when it is executed. *)
LEMMA PartlyShifts ==
  ASSUME Types, NEW s \in Streams, Executes(s), Does(s), NEW c \in Colls, Partly(c)
  PROVE  Partly(c)'
<1>1. PICK u \in Streams, r \in Streams : u = Call(c).stream /\ r = PcieStream(c[1])
  BY CollFacts DEF Types, ThreadTypes
<1>2. PcieStream(c[1])' = r /\ Call(c).stream' = u
  BY <1>1 DEF Call, PcieStream, Executes
<1>3. \/ {"fast", "pcie"} \cap happened'[c] # {}
      \/ ~Clear(u, c, {"fast"})' \/ ~Clear(r, c, {"pcie"})'
  <2>1. CASE {"fast", "pcie"} \cap happened[c] # {}
    BY <2>1 DEF Does
  <2>2. CASE ~Clear(u, c, {"fast"})
    BY <2>2, PartShifts
  <2>3. CASE ~Clear(r, c, {"pcie"})
    BY <2>3, PartShifts
  <2>. QED BY <1>1, <2>1, <2>2, <2>3 DEF Partly
<1>. QED BY <1>2, <1>3 DEF Partly, Clear, At

(* The records move with the callbacks. *)
LEMMA CollectedShifts ==
  ASSUME NEW s, NEW q, NEW d \in 0 .. 1, NEW e \in 0 .. 1, Passed(q, s, d, e), OneThread' <=> OneThread,
         NEW j \in 1 .. Len(stream'[q]), NEW i, i = j + d, NEW c, Collected(q, i, c)
  PROVE  Collected(q, j, c)'
<1>1. PICK p, g, u, v : p = pending[q] /\ g = pending'[q] /\ u = stream[q] /\ v = stream'[q]
  OBVIOUS
<1>2. Calls(u, i) = Calls(v, j) + e
  BY <1>1 DEF Passed
<1>3. Len(g) \in Nat /\ Len(g) + e = Len(p) /\ \A k \in 1 .. Len(g) : g[k] = p[k + e]
  BY <1>1 DEF Passed
<1>4. j \in Nat /\ Calls(v, j) \in Nat
  <2>1. j \in Nat
    BY DEF Passed
  <2>. QED BY <2>1, CallsFacts
<1>5. ASSUME OneThread, NEW k \in 1 .. Len(g), g[k].coll = c PROVE k <= Calls(v, j)
  <2>1. k + e \in 1 .. Len(p) /\ p[k + e].coll = c
    BY <1>3, <1>5
  <2>2. k + e <= Calls(u, i)
    BY <1>1, <1>5, <2>1 DEF Collected
  <2>. QED BY <1>2, <1>4, <2>2
<1>. QED BY <1>1, <1>5 DEF Collected, Calls, IsCall

(* A device's step keeps what uses results behind what makes them. *)
LEMMA DeviceOutput ==
  ASSUME Types, Types', InputInv, OverInv, CompletionInv, OutputInv, NEW s \in Streams,
         Executes(s), Ends(s), Collects(s), Does(s)
  PROVE  OutputInv'
<1>0. /\ program' = program /\ todo' = todo /\ index' = index /\ Threads' = Threads /\ UserStreams' = UserStreams
      /\ OneThread' <=> OneThread
  BY DEF Executes, Threads, UserStreams, OneThread
<1>1. ASSUME NEW q \in UserStreams, NEW j \in 1 .. Len(stream'[q]) PROVE ConsumeInv(q, j)'
  <2>. SUFFICES ASSUME stream'[q][j].kind = "consume"
                PROVE  \E d : d = stream'[q][j].coll /\ Behind(q, j, d)' /\ Partly(d)' /\ Collected(q, j, d)'
    BY DEF ConsumeInv
  <2>1. PICK d, e \in 0 .. 1 : Passed(q, s, d, e) /\ Moved(q, s, d)
    BY RecordsPass DEF CompletionInv, Passed
  <2>2. PICK i \in 1 .. Len(stream[q]), k \in Nat : i = j + d /\ stream'[q][j] = stream[q][i] /\ k = j /\ i \in Nat /\ i <= k + d
    BY <2>1 DEF Moved, Passed
  <2>3. PICK c \in Colls : c = stream[q][i].coll /\ c = stream'[q][j].coll /\ q \in Streams
    <3>1. q \in Streams
      BY DEF Streams
    <3>2. stream[q][i] \in ItemsOf(q)
      BY <2>2, <3>1 DEF Types, StreamTypes
    <3>. QED BY <2>2, <3>1, <3>2 DEF ItemsOf, Items
  <2>4. Behind(q, i, c) /\ Partly(c) /\ Collected(q, i, c)
    BY <2>2, <2>3 DEF OutputInv, ConsumeInv
  <2>5. Behind(q, k, c)'
    BY <2>1, <2>2, <2>3, <2>4, BehindShifts
  <2>6. Collected(q, j, c)'
    BY <1>0, <2>1, <2>2, <2>4, CollectedShifts
  <2>7. Partly(c)'
    BY <2>4, PartlyShifts
  <2>. QED BY <2>2, <2>3, <2>5, <2>6, <2>7
<1>2. ASSUME NEW t \in Threads PROVE Promised(t)'
  <2>1. PICK c \in Colls : c = Current(t)
    BY CurrentFacts DEF Types
  <2>2. Current(t)' = c /\ ok' = ok
    BY <1>0, <2>1 DEF Current, Does
  <2>3. Partly(c) => Partly(c)'
    BY PartlyShifts
  <2>4. Partly(Current(t))' <=> Partly(c)'
    BY <2>2
  <2>. QED BY <1>0, <2>1, <2>2, <2>3, <2>4 DEF OutputInv, Promised, Calling, Submits, Has
<1>. QED BY <1>0, <1>1, <1>2 DEF OutputInv

(* Nothing uses a result at first. *)
LEMMA OutputInit ==
  ASSUME Init
  PROVE  OutputInv
<1>1. /\ \A q \in UserStreams : q \in Streams /\ stream[q] = <<>>
      /\ \A t \in Threads : todo[t] = <<"call">>
  BY DEF Init, Streams
<1>2. Calling(<<"call">>)
  BY DEF Calling
<1>. QED BY <1>1, <1>2 DEF OutputInv, Promised

(* Nothing changes that but a step. *)
LEMMA OutputStutter ==
  ASSUME OutputInv, UNCHANGED vars
  PROVE  OutputInv'
<1>0. UNCHANGED <<program, todo, index, stream, pending, happened, ok>>
  BY DEF vars, host, device
<1>1. /\ UserStreams' = UserStreams /\ Threads' = Threads /\ Fills' = Fills /\ Ways' = Ways /\ (OneThread' <=> OneThread)
      /\ \A c : Call(c)' = Call(c) /\ PcieStream(c[1])' = PcieStream(c[1])
      /\ \A t : Current(t)' = Current(t)
  BY <1>0 DEF UserStreams, Threads, Fills, Ways, Call, PcieStream, Current, OneThread
<1>2. \A c : (Over(c)' <=> Over(c)) /\ (Partly(c)' <=> Partly(c))
  BY <1>0, <1>1 DEF Over, Clear, At, Parts, Partly
<1>3. \A s, j, c : (Behind(s, j, c)' <=> Behind(s, j, c)) /\ (Collected(s, j, c)' <=> Collected(s, j, c))
  BY <1>0, <1>1, <1>2 DEF Behind, At, Collected, Calls, IsCall
<1>4. ASSUME NEW t \in Threads PROVE Promised(t)'
  BY <1>0, <1>1, <1>2 DEF OutputInv, Promised, Calling, Submits, Has
<1>5. \A s \in UserStreams : \A j \in 1 .. Len(stream[s]) : ConsumeInv(s, j)'
  BY <1>0, <1>2, <1>3 DEF OutputInv, ConsumeInv
<1>. QED BY <1>0, <1>1, <1>4, <1>5 DEF OutputInv

OrderedInv == RecordedInv /\ OutputInv

(* The streams are ordered at both ends at first. *)
LEMMA OrderedInit == Init => OrderedInv
BY RecordedInit, OutputInit DEF OrderedInv

(* Every step keeps both ends ordered. *)
LEMMA OrderedStay ==
  ASSUME OrderedInv, [Next]_vars
  PROVE  OrderedInv'
<1>0. RecordedInv' /\ Types' /\ Types /\ InputInv /\ OverInv /\ CompletionInv /\ OutputInv
  BY RecordedStay DEF OrderedInv, RecordedInv, StreamsInv
<1>1. ASSUME NEW t \in Threads, HostNext(t) PROVE OutputInv'
  BY <1>0, <1>1, EffectOfHost, HostOutput
<1>2. ASSUME NEW s \in Streams, DeviceNext(s) PROVE OutputInv'
  BY <1>0, <1>2, DeviceEnds, DeviceCollects, DeviceDoes, DeviceOutput
<1>3. CASE UNCHANGED vars
  BY <1>0, <1>3, OutputStutter DEF OrderedInv
<1>. QED BY <1>0, <1>1, <1>2, <1>3 DEF Next, Work, OrderedInv

(* A collective that is consumed is whole. *)
LEMMA ConsumedWhole ==
  ASSUME OrderedInv, OneThread, NEW s \in UserStreams, head(s, "consume")
  PROVE  Result(Head(stream[s]).coll)
<1>0. Types /\ s \in Streams /\ stream[s] # <<>>
  BY DEF OrderedInv, RecordedInv, StreamsInv, Streams, head
<1>1. PICK c \in Colls, o \in ItemsOf(s) : o = Head(stream[s]) /\ c = o.coll /\ stream[s][1] = o /\ 1 \in 1 .. Len(stream[s])
  BY <1>0, HeadItem
<1>2. s = Call(c).stream /\ o.kind = "consume"
  BY <1>1 DEF ItemsOf, Place, PcieKinds, head
<1>3. Behind(s, 1, c) /\ Partly(c) /\ Collected(s, 1, c)
  BY <1>1, <1>2 DEF OrderedInv, OutputInv, ConsumeInv
<1>4. Clear(s, c, Fills) /\ Over(c)
  BY <1>0, <1>3, StreamLengths DEF Behind, Types, Clear
<1>5. "pcie" \in happened[c] \/ "fast" \in happened[c]
  BY <1>2, <1>3, <1>4 DEF Partly, Over, Clear, At, Parts, Fills
<1>6. ASSUME NEW q \in Streams, NEW k \in DOMAIN stream[q], stream[q][k].coll = c
      PROVE  stream[q][k].kind \notin {"fast", "pcie", "merge", "pack"}
  <2>1. k \in 1 .. Len(stream[q]) /\ stream[q][k] \in ItemsOf(q)
    BY <1>0 DEF Types, StreamTypes
  <2>2. q = IF stream[q][k].kind \in PcieKinds THEN PcieStream(c[1]) ELSE s
    BY <1>2, <1>6, <2>1 DEF ItemsOf, Place
  <2>3. CASE stream[q][k].kind \in Fills
    BY <1>4, <1>6, <2>1, <2>2, <2>3 DEF At, Fills, PcieKinds, Clear
  <2>4. CASE stream[q][k].kind = "pcie"
    BY <1>4, <1>6, <2>1, <2>2, <2>4 DEF At, Parts, PcieKinds, Over, Clear
  <2>. QED BY <2>3, <2>4 DEF Fills
<1>7. ASSUME NEW q \in UserStreams, NEW k \in DOMAIN pending[q], pending[q][k].coll = c
      PROVE  FALSE
  <2>1. k \in 1 .. Len(pending[q]) /\ pending[q][k] \in Records(q)
    BY <1>0 DEF Types, StreamTypes
  <2>2. q = s
    BY <1>2, <1>7, <2>1 DEF Records
  <2>3. k <= Calls(stream[s], 1)
    BY <1>3, <1>7, <2>1, <2>2 DEF Collected
  <2>4. PICK z \in Nat : z = 0 /\ z + 1 = 1
    OBVIOUS
  <2>5. Calls(stream[s], z + 1) = Calls(stream[s], z) + (IF IsCall(stream[s][z + 1]) THEN 1 ELSE 0) /\ Calls(stream[s], 0) = 0
    BY CallsFacts
  <2>6. ~IsCall(stream[s][1])
    BY <1>1, <1>2 DEF IsCall
  <2>7. Calls(stream[s], 1) = 0
    BY <2>4, <2>5, <2>6
  <2>. QED BY <2>1, <2>3, <2>7
<1>. QED BY <1>1, <1>5, <1>6, <1>7 DEF Result

-----------------------------------------------------------------------------
(* The timers: whoever reports on a stream is alone on it *)

LockedAt(w, n) == Has(w, "callback") => Has(w, "begin") \/ n # NoTicket
LockedInv == Serialised => \A t \in Threads : LockedAt(todo[t], ticket[t])

(* What a serialised program never meets *)
LEMMA SerialisedSteps ==
  ASSUME Types, NEW t \in Threads, HostNext(t), Serialised
  PROVE  /\ Head(todo[t]) = "begin" => Takes(t)
         /\ Head(todo[t]) \in {"alloc", "sync_user"} => next(t) \/ todo'[t] = <<"return">>
<1>0. program.acl /\ "tokens" \notin program.failures /\ "alloc" \notin program.failures /\ DOMAIN todo = Threads
  BY DEF Serialised, Types, ThreadTypes
<1>1. CASE BeginValueSync(t)
  <2>1. Head(todo[t]) = "begin" /\ Takes(t)
    BY <1>1 DEF BeginValueSync, at, Takes, locals
  <2>. QED BY <2>1
<1>2. CASE NoValueSync(t)
  BY <1>0, <1>2 DEF NoValueSync
<1>3. CASE Allocate(t)
  <2>1. Head(todo[t]) = "alloc" /\ next(t)
    BY <1>0, <1>3 DEF Allocate, at
  <2>. QED BY <2>1
<1>4. CASE SynchronizeUser(t)
  <2>1. Head(todo[t]) = "sync_user" /\ next(t)
    BY <1>4 DEF SynchronizeUser, at
  <2>. QED BY <2>1
<1>5. CASE SynchronizeFails(t)
  <2>1. Head(todo[t]) = "sync_user" /\ todo'[t] = <<"return">>
    BY <1>0, <1>5 DEF SynchronizeFails, at
  <2>. QED BY <2>1
<1>6. CASE Head(todo[t]) \notin {"begin", "alloc", "sync_user"}
  BY <1>6
<1>. QED BY <1>1, <1>2, <1>3, <1>4, <1>5, <1>6, ActionHeads DEF HostNext, at

(* Who will report holds the lock or will take it, after its own step. *)
LEMMA OwnLocked ==
  ASSUME Types, Types', InputInv, OverInv, NEW t \in Threads, HostNext(t), HostEffect(t), Serialised,
         LockedAt(todo[t], ticket[t])
  PROVE  LockedAt(todo'[t], ticket'[t])
<1>1. PICK c \in Colls, x \in Contexts, n \in Nat, w \in Seq(StepNames), h \in StepNames : Facing(t, c, x, n, w, h)
  BY FacingFacts DEF HostEffect
<1>2. /\ c = Current(t) /\ w = todo[t] /\ h = Head(w) /\ w # <<>> /\ InOrder(w) /\ Script(w) /\ n = ticket[t]
      /\ Moves(t, w) /\ DOMAIN todo = Threads /\ DOMAIN ticket = Threads
  BY <1>1 DEF Facing, HostEffect, Types, ThreadTypes
<1>3. PICK v, m : v = todo'[t] /\ m = ticket'[t]
  OBVIOUS
<1>. SUFFICES ASSUME Has(v, "callback") PROVE Has(v, "begin") \/ m # NoTicket
  BY <1>3 DEF LockedAt
<1>4. Has(w, "callback") => Has(w, "begin") \/ n # NoTicket
  BY <1>2 DEF LockedAt
<1>5. CASE v = Tail(w) /\ h # "call" /\ (Keeps(t) \/ (h = "begin" /\ Takes(t)) \/ (h = "return" /\ GivesBack(t)))
  <2>1. Has(w, "callback") /\ (Has(w, "begin") /\ h # "begin" => Has(v, "begin"))
    BY <1>2, <1>5, TailInOrder
  <2>2. h # "return"
    <3>1. Stage["return"] = 5 /\ Stage["callback"] = 4
      BY StageValues
    <3>2. h = "return" => Stage[h] < Stage["callback"]
      BY <1>2, <1>5, <3>1, ScriptTail
    <3>. QED BY <3>1, <3>2
  <2>3. CASE h = "begin"
    <3>1. Takes(t)
      BY <1>2, <2>3, SerialisedSteps
    <3>2. m = sequence[Ctx(t)]
      BY <1>2, <1>3, <3>1 DEF Takes
    <3>3. sequence[x] # 0 /\ x = Ctx(t)
      <4>1. PICK k \in Slots : token[x].input[k] \in Nat
        <5>1. 0 \in Slots
          BY CollectiveAssumption DEF Slots
        <5>2. token[x] \in [input : [Slots -> Nat], done : [Slots -> Nat]]
          BY DEF InputInv, DeviceTypes
        <5>3. token[x].input \in [Slots -> Nat]
          BY <5>2
        <5>. QED BY <5>1, <5>3
      <4>2. token[x].input[k] < sequence[x] /\ sequence[x] \in Nat
        BY DEF InputInv, TokensInv, Types, SyncTypes
      <4>. QED BY <1>1, <4>1, <4>2 DEF Facing
    <3>. QED BY <3>2, <3>3 DEF NoTicket
  <2>4. CASE h # "begin"
    <3>1. m = n
      BY <1>2, <1>3, <1>5, <2>2, <2>4 DEF Keeps
    <3>. QED BY <1>4, <2>1, <2>4, <3>1
  <2>. QED BY <2>3, <2>4
<1>6. CASE Advance(t, w)
  BY <1>2, <1>3, <1>5, <1>6 DEF Advance, next
<1>7. CASE FallsBack(t, w)
  <2>1. PICK step, k : Fallback(w, step, k) /\ Instead(t, step, k)
    BY <1>7 DEF FallsBack
  <2>2. v = <<step>> \o SubSeq(w, 1 + k, Len(w)) /\ step # "callback"
    BY <1>2, <1>3, <2>1 DEF Instead, Fallback
  <2>3. /\ \A z : Has(v, z) /\ z # step => Has(w, z)
        /\ \A z : Has(w, z) /\ z \notin {"input", "input_wait", "write_done", "wait_done"} => Has(v, z)
    BY <1>2, <2>1, <2>2, ScriptFallback
  <2>4. m = n
    BY <1>2, <1>3, <1>7 DEF FallsBack, Keeps
  <2>. QED BY <1>4, <2>2, <2>3, <2>4
<1>8. CASE CutsShort(t, w)
  <2>1. h \in {"alloc", "sync_user"} /\ Keeps(t)
    BY <1>2, <1>8 DEF CutsShort
  <2>2. CASE next(t)
    <3>1. v = Tail(w)
      BY <1>2, <1>3, <2>2 DEF next
    <3>. QED BY <1>5, <2>1, <3>1
  <2>3. CASE v = <<"return">>
    BY <2>3, RestScripts DEF StepNames
  <2>. QED BY <1>2, <1>3, <2>1, <2>2, <2>3, SerialisedSteps
<1>9. CASE StartsCall(t, w)
  <2>1. v = StepsOf(Call(c).op, LaunchPlan(c)) \o <<"return">>
    BY <1>2, <1>3, <1>9 DEF StartsCall
  <2>2. Starts(v, Call(c).op)
    BY <2>1, WholeScript, CollFacts DEF Types, ThreadTypes
  <2>. QED BY <2>2 DEF Starts, Serialised
<1>10. CASE GoesOn(t, w)
  <2>1. v = <<"call">>
    BY <1>2, <1>3, <1>10 DEF GoesOn
  <2>. QED BY <2>1, RestScripts DEF StepNames
<1>. QED BY <1>2, <1>6, <1>7, <1>8, <1>9, <1>10 DEF Moves

(* The same after anybody's step *)
LEMMA HostLocked ==
  ASSUME Types, Types', InputInv, OverInv, LockedInv, NEW t \in Threads, HostNext(t), HostEffect(t)
  PROVE  LockedInv'
<1>1. program' = program /\ Threads' = Threads /\ (Serialised' <=> Serialised)
  BY HostFrame DEF SameProgram, Serialised, Threads
<1>2. ASSUME Serialised, NEW q \in Threads PROVE LockedAt(todo'[q], ticket'[q])
  <2>1. LockedAt(todo[q], ticket[q])
    BY <1>2 DEF LockedInv
  <2>2. CASE q = t
    BY <1>2, <2>1, <2>2, OwnLocked
  <2>3. CASE q # t
    BY <2>1, <2>3, HostFrame
  <2>. QED BY <2>2, <2>3
<1>. QED BY <1>1, <1>2 DEF LockedInv, LockedAt, Has

(* Those whose record a stream will call back, or who register one *)
Active(w) == Owes(w) \/ (w # <<>> /\ Head(w) = "register")

(* One thread at a time reports on a stream. *)
LEMMA AloneOnStream ==
  ASSUME Types, InputInv, OverInv, LockedInv, OneThread \/ Serialised, NEW s,
         NEW t \in Threads, Stream(t) = s, Active(todo[t]), NEW q \in Threads, Stream(q) = s, Active(todo[q])
  PROVE  q = t
<1>1. CASE OneThread
  BY <1>1 DEF OneThread
<1>2. CASE Serialised
  <2>1. ASSUME NEW u \in Threads, Active(todo[u]) PROVE Granted(u)
    <3>1. PICK w : w = todo[u]
      OBVIOUS
    <3>2. w \in Seq(StepNames) /\ Script(w) /\ LockedAt(w, ticket[u])
      BY <1>2, <3>1 DEF Types, ThreadTypes, OverInv, EndingInv, LockedInv
    <3>3. CASE Owes(w)
      <4>1. ~Has(w, "begin")
        BY <3>2, <3>3, NotOwing DEF StepNames
      <4>. QED BY <3>2, <3>3, <4>1 DEF Owes, LockedAt, Granted
    <3>4. CASE w # <<>> /\ Head(w) = "register"
      <4>1. InOrder(w) /\ Has(w, "register") /\ Stage["register"] = 2 /\ Stage["begin"] = 1
        BY <3>1, <3>2, <3>4, StepFacts, StageValues DEF StepNames, OverInv
      <4>2. Has(w, "callback")
        BY <3>2, <4>1 DEF Script, Follows
      <4>3. ~Has(Tail(w), "begin")
        <5>1. Has(Tail(w), "begin") => Stage[Head(w)] < Stage["begin"]
          BY <3>2, <3>4, <4>1, ScriptTail
        <5>. QED BY <3>4, <4>1, <5>1
      <4>4. ~Has(w, "begin")
        BY <3>2, <3>4, <4>1, <4>3, TailInOrder
      <4>. QED BY <3>2, <4>2, <4>4 DEF LockedAt, Granted
    <3>. QED BY <2>1, <3>1, <3>3, <3>4 DEF Active
  <2>2. Ctx(t) = Ctx(q)
    BY <1>2 DEF Ctx, Serialised
  <2>. QED BY <2>1, <2>2 DEF InputInv, LockInv
<1>. QED BY <1>1, <1>2

(* The last record of a stream is that of the thread that reports on it,   *)
(* and all the others have their own timers.                               *)
TimedInv(s) ==
  /\ \A t \in Owing(s) : pending[s] # <<>> /\ pending[s][Len(pending[s])].coll = Current(t)
  /\ \A k \in 1 .. Len(pending[s]) :
       \/ pending[s][k].timed = pending[s][k].coll
       \/ k = Len(pending[s]) /\ \E t \in Owing(s) : Has(todo[t], "attach")
TimersInv == OneThread \/ Serialised => \A s \in UserStreams : TimedInv(s)

(* The same of the next state, whose threads O still report on the stream *)
NextTimed(s, g, O) ==
  /\ g = pending'[s] /\ O = Owing(s)'
  /\ \A q \in O : g # <<>> /\ g[Len(g)].coll = Current(q)'
  /\ \A k \in 1 .. Len(g) : g[k].timed = g[k].coll \/ (k = Len(g) /\ \E q \in O : Has(todo'[q], "attach"))

(* The timers after a step, from its records and owing threads *)
LEMMA TimedNext ==
  ASSUME NEW s, NEW g, NEW O, NextTimed(s, g, O)
  PROVE  TimedInv(s)'
BY DEF NextTimed, TimedInv, Has

(* A host's step keeps timers with the record they are of. *)
LEMMA StreamTimers ==
  ASSUME Types, Types', InputInv, OverInv, LockedInv, OneThread \/ Serialised, NEW t \in Threads, HostNext(t), HostEffect(t),
         NEW c \in Colls, NEW x \in Contexts, NEW n \in Nat, NEW w \in Seq(StepNames), NEW h \in StepNames,
         Facing(t, c, x, n, w, h), NEW s \in UserStreams, TimedInv(s)
  PROVE  TimedInv(s)'
<1>0. PICK u \in UserStreams : u = Stream(t) /\ u = Call(c).stream
  BY CurrentFacts DEF Types, Facing
<1>1. PICK v, p, g, O, P : v = todo'[t] /\ p = pending[s] /\ g = pending'[s] /\ O = Owing(s) /\ P = Owing(s)'
  OBVIOUS
<1>2. /\ h = Head(todo[t]) /\ c = Current(t) /\ w = todo[t] /\ w # <<>> /\ Script(w) /\ InOrder(w)
      /\ h \in Reporting => Current(t)' = c
  BY <1>1, OwesMoves DEF Facing
<1>3. PendingMoves(t, s, p, g) /\ p \in Seq(Records(s)) /\ DOMAIN todo = Threads
  BY <1>1, PendingMove DEF Types, StreamTypes, ThreadTypes
<1>4. \A q \in O : q \in Threads /\ Stream(q) = s /\ Active(todo[q])
  BY <1>1 DEF Owing, Active
<1>5. /\ \A q \in O : p # <<>> /\ p[Len(p)].coll = Current(q)
      /\ \A k \in 1 .. Len(p) : p[k].timed = p[k].coll \/ (k = Len(p) /\ \E q \in O : Has(todo[q], "attach"))
  BY <1>1 DEF TimedInv
<1>6. Has(w, h) /\ Stage["attach"] = 3 /\ Stage["callback"] = 4
  <2>1. 1 \in 1 .. Len(w) /\ h = w[1]
    BY <1>2
  <2>. QED BY <2>1, StageValues DEF Has
<1>7. CASE h = "register" /\ s = u
  <2>1. O = {}
    <3>1. t \notin O
      BY <1>1, <1>7, OwingMoves
    <3>2. Active(todo[t])
      BY <1>2, <1>7 DEF Active
    <3>. QED BY <1>0, <1>4, <1>7, <3>1, <3>2, AloneOnStream, ZenonT(30)
  <2>2. P = {t}
    BY <1>0, <1>1, <1>7, <2>1, OwingMoves
  <2>3. v = Tail(w)
    BY <1>1, <1>2, <1>3, <1>7, PendingOf DEF RegisterPending, next
  <2>4. Has(v, "attach")
    BY <1>2, <1>6, <1>7, <2>3, TailInOrder DEF Script, Follows
  <2>5. PICK e : g = Append(p, e) /\ e.coll = c
    BY <1>0, <1>2, <1>3, <1>7 DEF PendingMoves
  <2>6. g # <<>> /\ Len(g) = Len(p) + 1 /\ g[Len(g)] = e /\ \A k \in 1 .. Len(p) : g[k] = p[k]
    BY <1>3, <2>5
  <2>7. \A k \in 1 .. Len(g) : g[k].timed = g[k].coll \/ k = Len(g)
    <3>1. \A k \in 1 .. Len(g) : k \in 1 .. Len(p) \/ k = Len(g)
      BY <1>3, <2>6
    <3>. QED BY <1>5, <2>1, <2>6, <3>1
  <2>8. g[Len(g)].coll = Current(t)'
    BY <1>2, <1>7, <2>5, <2>6 DEF Reporting
  <2>9. NextTimed(s, g, P)
    BY <1>1, <2>2, <2>4, <2>6, <2>7, <2>8 DEF NextTimed
  <2>. QED BY <2>9, TimedNext
<1>8. CASE h = "attach" /\ s = u
  <2>1. O = {t} /\ P = O
    <3>1. t \in O /\ P = O
      BY <1>0, <1>1, <1>8, OwingMoves
    <3>2. \A q \in O : q = t
      BY <1>4, <3>1, AloneOnStream
    <3>. QED BY <3>1, <3>2
  <2>2. p # <<>> /\ p[Len(p)].coll = c /\ Len(p) \in 1 .. Len(p)
    BY <1>2, <1>3, <1>5, <2>1
  <2>3. /\ Len(g) = Len(p) /\ g[Len(p)].timed = c
        /\ \A a \in 1 .. Len(p) : g[a].coll = p[a].coll /\ (a # Len(p) => g[a] = p[a])
    BY <1>0, <1>2, <1>3, <1>8, <2>2 DEF PendingMoves
  <2>4. g # <<>> /\ g[Len(g)].coll = Current(t)'
    BY <1>2, <1>8, <2>2, <2>3 DEF Reporting
  <2>5. \A k \in 1 .. Len(g) : g[k].timed = g[k].coll
    BY <1>5, <2>2, <2>3
  <2>6. NextTimed(s, g, P)
    BY <1>1, <2>1, <2>4, <2>5 DEF NextTimed
  <2>. QED BY <2>6, TimedNext
<1>9. CASE h = "callback" /\ s = u
  <2>1. O = {t} /\ P = {}
    <3>1. t \in O /\ P = O \ {t}
      BY <1>0, <1>1, <1>9, OwingMoves
    <3>2. \A q \in O : q = t
      BY <1>4, <3>1, AloneOnStream
    <3>. QED BY <3>1, <3>2
  <2>2. g = p
    BY <1>2, <1>3, <1>9 DEF PendingMoves
  <2>3. ~Has(w, "attach")
    <3>1. Has(w, "attach") => Has(Tail(w), "attach")
      BY <1>2, <1>9, TailInOrder
    <3>2. Has(Tail(w), "attach") => Stage[h] < Stage["attach"]
      BY <1>2, <1>6, <1>9, ScriptTail
    <3>. QED BY <1>6, <1>9, <3>1, <3>2
  <2>4. \A k \in 1 .. Len(g) : g[k].timed = g[k].coll
    BY <1>2, <1>5, <2>1, <2>2, <2>3
  <2>5. NextTimed(s, g, P)
    BY <1>1, <2>1, <2>4 DEF NextTimed
  <2>. QED BY <2>5, TimedNext
<1>10. CASE h \notin Reporting \/ s # u
  <2>1. t \notin O /\ P = O
    <3>1. CASE s # u
      <4>1. t \notin O
        BY <1>0, <1>4, <3>1
      <4>2. CASE h = "register"
        BY <1>0, <1>1, <3>1, <4>1, <4>2, OwingMoves
      <4>3. CASE h = "callback"
        <5>1. P = O \ {t}
          BY <1>1, <4>3, OwingMoves
        <5>. QED BY <4>1, <5>1
      <4>4. CASE h \notin {"register", "callback"}
        BY <1>1, <4>1, <4>4, OwingMoves
      <4>. QED BY <4>2, <4>3, <4>4
    <3>2. CASE h \notin Reporting
      BY <1>1, <3>2, OwingMoves DEF Reporting
    <3>. QED BY <1>10, <3>1, <3>2
  <2>2. g = p
    BY <1>0, <1>2, <1>3, <1>10 DEF PendingMoves, Reporting
  <2>3. \A q \in O : todo'[q] = todo[q] /\ Current(q)' = Current(q)
    BY <1>4, <2>1, HostFrame
  <2>4. NextTimed(s, g, P)
    BY <1>1, <1>5, <2>1, <2>2, <2>3 DEF NextTimed
  <2>. QED BY <2>4, TimedNext
<1>. QED BY <1>7, <1>8, <1>9, <1>10 DEF Reporting

(* The same on every stream *)
LEMMA HostTimers ==
  ASSUME Types, Types', InputInv, OverInv, LockedInv, TimersInv, NEW t \in Threads, HostNext(t), HostEffect(t)
  PROVE  TimersInv'
<1>1. UserStreams' = UserStreams /\ (OneThread \/ Serialised)' = (OneThread \/ Serialised)
  BY HostFrame DEF SameProgram, OneThread, Serialised, Threads
<1>2. PICK c \in Colls, x \in Contexts, n \in Nat, w \in Seq(StepNames), h \in StepNames : Facing(t, c, x, n, w, h)
  BY FacingFacts DEF HostEffect
<1>3. ASSUME OneThread \/ Serialised, NEW s \in UserStreams PROVE TimedInv(s)'
  BY <1>2, <1>3, StreamTimers DEF TimersInv
<1>. QED BY <1>1, <1>3 DEF TimersInv

(* The device takes records and leaves the others as they are. *)
LEMMA DeviceTimers ==
  ASSUME Types, Types', InputInv, OverInv, CompletionInv, LockedInv, TimersInv, NEW s \in Streams, Executes(s), Collects(s)
  PROVE  LockedInv' /\ TimersInv'
<1>1. /\ program' = program /\ todo' = todo /\ index' = index /\ ticket' = ticket /\ UserStreams' = UserStreams
      /\ Threads' = Threads /\ (OneThread' <=> OneThread) /\ (Serialised' <=> Serialised)
  BY DEF Executes, UserStreams, OneThread, Serialised, Threads
<1>2. LockedInv'
  BY <1>1 DEF LockedInv, LockedAt, Has
<1>3. ASSUME OneThread \/ Serialised, NEW q \in UserStreams PROVE TimedInv(q)'
  <2>1. PICK d, e \in 0 .. 1 : Passed(q, s, d, e)
    BY RecordsPass DEF CompletionInv
  <2>2. PICK p, g, O : p = pending[q] /\ g = pending'[q] /\ O = Owing(q)
    OBVIOUS
  <2>3. Owing(q)' = O
    <3>1. \A t : Stream(t)' = Stream(t)
      BY <1>1 DEF Stream, Current, Call
    <3>2. \A t : Owes(todo[t])' <=> Owes(todo[t])
      BY <1>1 DEF Owes, Has
    <3>. QED BY <1>1, <2>2, <3>1, <3>2 DEF Owing
  <2>4. /\ \A t \in O : p # <<>> /\ p[Len(p)].coll = Current(t)
        /\ \A k \in 1 .. Len(p) : p[k].timed = p[k].coll \/ (k = Len(p) /\ \E t \in O : Has(todo[t], "attach"))
    BY <1>3, <2>2 DEF TimersInv, TimedInv
  <2>5. Len(g) \in Nat /\ Len(g) + e = Len(p) /\ \A k \in 1 .. Len(g) : g[k] = p[k + e]
    BY <2>1, <2>2 DEF Passed
  <2>6. p \in Seq(Records(q)) /\ g \in Seq(Records(q)) /\ Records(q)' = Records(q)
    <3>1. SameProgram
      BY <1>1, ProgramStays
    <3>. QED BY <1>1, <2>2, <3>1 DEF Types, StreamTypes, SameProgram
  <2>7. ASSUME O # {} PROVE Len(g) > 0
    <3>1. CASE e = 0
      <4>1. Len(p) > 0
        BY <2>4, <2>6, <2>7
      <4>. QED BY <2>5, <3>1, <4>1
    <3>2. CASE e = 1
      <4>1. q = s /\ IsCall(Head(stream[q])) /\ stream[q] # <<>> /\ RecordsInv(q)
        BY <2>1, <3>2 DEF Passed, CompletionInv, Executes
      <4>2. Calls(stream[q], 1) = 1 /\ 1 \in 1 .. Len(stream[q]) /\ IsCall(stream[q][1])
        BY <4>1, CallFirst, HeadItem
      <4>3. 1 < Len(p)
        BY <2>2, <2>7, <4>1, <4>2, CallPlace
      <4>. QED BY <2>5, <3>2, <4>3
    <3>. QED BY <3>1, <3>2
  <2>8. \A t \in O : g # <<>> /\ g[Len(g)].coll = Current(t)'
    <3>. SUFFICES ASSUME NEW t \in O PROVE g # <<>> /\ g[Len(g)].coll = Current(t)'
      OBVIOUS
    <3>1. Len(g) \in 1 .. Len(g) /\ g # <<>>
      BY <2>5, <2>6, <2>7
    <3>2. g[Len(g)] = p[Len(p)]
      BY <2>5, <3>1
    <3>3. Current(t)' = Current(t)
      BY <1>1 DEF Current
    <3>. QED BY <2>4, <3>1, <3>2, <3>3
  <2>9. \A k \in 1 .. Len(g) : g[k].timed = g[k].coll \/ (k = Len(g) /\ \E t \in O : Has(todo'[t], "attach"))
    <3>. SUFFICES ASSUME NEW k \in 1 .. Len(g)
                  PROVE  g[k].timed = g[k].coll \/ (k = Len(g) /\ \E t \in O : Has(todo'[t], "attach"))
      OBVIOUS
    <3>1. k + e \in 1 .. Len(p) /\ g[k] = p[k + e] /\ (k + e = Len(p) => k = Len(g))
      BY <2>5
    <3>. QED BY <1>1, <2>4, <3>1
  <2>10. NextTimed(q, g, O)
    BY <2>2, <2>3, <2>8, <2>9 DEF NextTimed
  <2>. QED BY <2>10, TimedNext
<1>4. TimersInv'
  BY <1>1, <1>3 DEF TimersInv
<1>. QED BY <1>2, <1>4

(* There are no timers at first. *)
LEMMA TimersInit ==
  ASSUME Init
  PROVE  LockedInv /\ TimersInv
<1>1. /\ \A q \in UserStreams : pending[q] = <<>> /\ Len(pending[q]) = 0
      /\ \A t \in Threads : todo[t] = <<"call">>
  BY DEF Init
<1>2. ~Has(<<"call">>, "callback")
  BY RestScripts DEF StepNames
<1>3. LockedInv
  BY <1>1, <1>2 DEF LockedInv, LockedAt
<1>4. ASSUME NEW q \in UserStreams PROVE TimedInv(q)
  BY <1>1, <1>2 DEF TimedInv, Owing, Owes
<1>. QED BY <1>3, <1>4 DEF TimersInv

(* Nothing changes the timers but a step. *)
LEMMA TimersStutter ==
  ASSUME LockedInv, TimersInv, UNCHANGED vars
  PROVE  LockedInv' /\ TimersInv'
<1>0. UNCHANGED <<program, todo, index, ticket, pending>>
  BY DEF vars, host
<1>1. /\ UserStreams' = UserStreams /\ Threads' = Threads /\ (OneThread' <=> OneThread) /\ (Serialised' <=> Serialised)
      /\ \A t : Current(t)' = Current(t) /\ Stream(t)' = Stream(t)
  BY <1>0 DEF UserStreams, Threads, OneThread, Serialised, Current, Stream, Call
<1>2. LockedInv'
  BY <1>0, <1>1 DEF LockedInv, LockedAt, Has
<1>3. ASSUME OneThread \/ Serialised, NEW s \in UserStreams PROVE TimedInv(s)'
  <2>1. Owing(s)' = Owing(s)
    BY <1>0, <1>1 DEF Owing, Owes, Has
  <2>2. PICK g, O : g = pending'[s] /\ O = Owing(s)'
    OBVIOUS
  <2>3. NextTimed(s, g, O)
    BY <1>0, <1>1, <1>3, <2>1, <2>2 DEF NextTimed, TimersInv, TimedInv
  <2>. QED BY <2>3, TimedNext
<1>. QED BY <1>1, <1>2, <1>3 DEF TimersInv

TimingInv == OrderedInv /\ LockedInv /\ TimersInv

(* Orders, records and timers are right at first. *)
LEMMA TimingInit == Init => TimingInv
BY OrderedInit, TimersInit DEF TimingInv

(* Every step keeps orders, records and timers right. *)
LEMMA TimingStay ==
  ASSUME TimingInv, [Next]_vars
  PROVE  TimingInv'
<1>0. OrderedInv' /\ Types' /\ Types /\ InputInv /\ OverInv /\ CompletionInv /\ LockedInv /\ TimersInv
  BY OrderedStay DEF TimingInv, OrderedInv, RecordedInv, StreamsInv
<1>1. ASSUME NEW t \in Threads, HostNext(t) PROVE LockedInv' /\ TimersInv'
  BY <1>0, <1>1, EffectOfHost, HostLocked, HostTimers
<1>2. ASSUME NEW s \in Streams, DeviceNext(s) PROVE LockedInv' /\ TimersInv'
  BY <1>0, <1>2, DeviceEnds, DeviceCollects, DeviceTimers
<1>3. CASE UNCHANGED vars
  BY <1>0, <1>3, TimersStutter DEF TimingInv
<1>. QED BY <1>0, <1>1, <1>2, <1>3 DEF Next, Work, TimingInv

(* The record that a callback takes carries its own timers. *)
LEMMA CalledTimers ==
  ASSUME TimingInv, OneThread \/ Serialised, NEW s \in UserStreams, head(s, "callback")
  PROVE  Head(pending[s]).timed = Head(pending[s]).coll
<1>0. RecordedInv /\ TimedInv(s) /\ Types /\ RecordsInv(s)
  BY DEF TimingInv, OrderedInv, RecordedInv, TimersInv, CompletionInv, StreamsInv
<1>1. pending[s] # <<>> /\ Calls(stream[s], 1) = 1 /\ Head(pending[s]) = pending[s][1]
  BY <1>0, FirstRecord
<1>2. s \in Streams /\ stream[s] # <<>> /\ IsCall(Head(stream[s]))
  BY DEF head, IsCall, Streams
<1>3. 1 \in 1 .. Len(stream[s]) /\ IsCall(stream[s][1])
  BY <1>0, <1>2, HeadItem
<1>4. 1 \in 1 .. Len(pending[s]) /\ (Owing(s) # {} => 1 < Len(pending[s]))
  BY <1>0, <1>1, <1>3, CallPlace
<1>. QED BY <1>0, <1>1, <1>4 DEF TimedInv

-----------------------------------------------------------------------------
(* The staging buffers *)

BufOf(c)   == {None, Own(c)} \cup {Pool(t) : t \in Threads}
OwnItems   == \A s \in Streams : \A j \in 1 .. Len(stream[s]) : stream[s][j].buf \in BufOf(stream[s][j].coll)
OwnRecords == \A s \in UserStreams : \A k \in 1 .. Len(pending[s]) : pending[s][k].tmp \in BufOf(pending[s][k].coll)
OwnBuffers == \A t \in Threads : buffer[t] \in BufOf(Current(t))
OneRecord  == \A s \in UserStreams : \A k, l \in 1 .. Len(pending[s]) : pending[s][k].coll = pending[s][l].coll => k = l
OwnInv == OwnItems /\ OwnRecords /\ OwnBuffers /\ OneRecord

(* What a step does to the buffers *)
LEMMA BufferMoves ==
  ASSUME Types, Types', NEW t \in Threads, HostNext(t), NEW h, h = Head(todo[t])
  PROVE  /\ \A q \in Threads : q # t => buffer'[q] = buffer[q]
         /\ \/ h \notin {"alloc", "return"} /\ buffer' = buffer /\ index' = index
            \/ /\ h = "alloc" /\ index' = index
               /\ buffer'[t] \in {buffer[t], IF program.scratch THEN Pool(t) ELSE Own(Current(t))}
            \/ h = "return" /\ buffer'[t] = None
<1>0. DOMAIN buffer = Threads
  BY DEF Types, ThreadTypes
<1>1. CASE Allocate(t)
  <2>1. h = "alloc" /\ index' = index
    BY <1>1 DEF Allocate, at, locals
  <2>2. CASE buffer' = buffer
    BY <2>1, <2>2
  <2>3. CASE buffer' # buffer
    <3>1. buffer' = [buffer EXCEPT ![t] = IF program.scratch THEN Pool(t) ELSE Own(Current(t))]
      BY <1>1, <2>3 DEF Allocate
    <3>. QED BY <1>0, <2>1, <3>1
  <2>. QED BY <2>2, <2>3
<1>2. CASE Return(t)
  <2>1. h = "return" /\ buffer' = [buffer EXCEPT ![t] = None]
    BY <1>2 DEF Return, at
  <2>. QED BY <1>0, <2>1
<1>3. CASE h \notin {"alloc", "return"} /\ buffer' = buffer /\ index' = index
  BY <1>3
<1>4. CASE \/ StartCall(t) \/ BeginValueSync(t) \/ NoValueSync(t) \/ EnqueueInputReady(t) \/ EnqueueInputWait(t)
           \/ SynchronizeUser(t) \/ SynchronizeFails(t) \/ Pack(t) \/ FastPart(t) \/ PciePart(t)
  <2>1. buffer' = buffer /\ index' = index
    BY <1>4 DEF StartCall, BeginValueSync, NoValueSync, EnqueueInputReady, EnqueueInputWait, SynchronizeUser,
                SynchronizeFails, Pack, FastPart, PciePart, HostStep, locals
  <2>2. h \notin {"alloc", "return"}
    BY <1>4, ActionHeads DEF at
  <2>. QED BY <1>3, <2>1, <2>2
<1>5. CASE \/ EnqueueWrite(t) \/ EnqueueWait(t) \/ WaitEventOnStream(t) \/ SyncPcieStream(t) \/ Merge(t)
           \/ RegisterPending(t) \/ AttachTimers(t) \/ EnqueueCallback(t)
  <2>1. buffer' = buffer /\ index' = index
    BY <1>5 DEF EnqueueWrite, EnqueueWait, WaitEventOnStream, SyncPcieStream, Merge, RegisterPending, AttachTimers,
                EnqueueCallback, HostStep, locals
  <2>2. h \notin {"alloc", "return"}
    BY <1>5, ActionHeads DEF at
  <2>. QED BY <1>3, <2>1, <2>2
<1>. QED BY <1>1, <1>2, <1>4, <1>5 DEF HostNext

(* The records p of a stream are g after a step: those before, and one of  *)
(* thread t                                                                *)
RecordsAre(t, s, p, g) ==
  /\ Len(p) \in Nat /\ Len(g) \in Nat /\ Len(p) <= Len(g)
  /\ \A k \in 1 .. Len(p) : g[k].coll = p[k].coll /\ g[k].tmp = p[k].tmp
  /\ \A k \in 1 .. Len(g) :
       \/ k \in 1 .. Len(p)
       \/ /\ k = Len(p) + 1 /\ Head(todo[t]) = "register" /\ s = Stream(t) /\ g[k].coll = Current(t)
          /\ g[k].tmp = IF buffer[t] # None /\ ~MergedOnStream(Current(t)) THEN buffer[t] ELSE None

(* Records are kept, and registered behind the last.                       *)
LEMMA RecordsOf ==
  ASSUME Types, NEW t \in Threads, HostNext(t), NEW s \in UserStreams, NEW p, p = pending[s], NEW g, g = pending'[s]
  PROVE  RecordsAre(t, s, p, g)
<1>1. PendingMoves(t, s, p, g) /\ p \in Seq(Records(s)) /\ Len(p) \in Nat
  BY PendingMove DEF Types, StreamTypes
<1>2. CASE g = p
  BY <1>1, <1>2 DEF RecordsAre
<1>3. CASE \E e : g = Append(p, e) /\ Head(todo[t]) = "register" /\ s = Stream(t) /\ e.coll = Current(t)
                  /\ e.tmp = IF buffer[t] # None /\ ~MergedOnStream(Current(t)) THEN buffer[t] ELSE None
  <2>1. PICK b : b = IF buffer[t] # None /\ ~MergedOnStream(Current(t)) THEN buffer[t] ELSE None
    OBVIOUS
  <2>2. PICK e : g = Append(p, e) /\ Head(todo[t]) = "register" /\ s = Stream(t) /\ e.coll = Current(t) /\ e.tmp = b
    BY <1>3, <2>1
  <2>3. Len(g) = Len(p) + 1 /\ g[Len(p) + 1] = e /\ \A k \in 1 .. Len(p) : g[k] = p[k]
    BY <1>1, <2>2
  <2>4. \A k \in 1 .. Len(g) : k \in 1 .. Len(p) \/ k = Len(p) + 1
    BY <1>1, <2>3
  <2>. QED BY <1>1, <2>1, <2>2, <2>3, <2>4 DEF RecordsAre
<1>4. CASE Len(g) = Len(p) /\ \A a \in 1 .. Len(p) : g[a].coll = p[a].coll /\ g[a].tmp = p[a].tmp
  BY <1>1, <1>4 DEF RecordsAre
<1>. QED BY <1>1, <1>2, <1>3, <1>4 DEF PendingMoves

(* A host's step gives a buffer of its own to its collective only. *)
LEMMA OwnStays ==
  ASSUME Types, Types', InputInv, OverInv, CompletionInv, OwnInv, NEW t \in Threads, HostNext(t), HostEffect(t)
  PROVE  OwnInv'
<1>0. /\ program' = program /\ Streams' = Streams /\ UserStreams' = UserStreams /\ Threads' = Threads
      /\ Extended(t, QueuedBy(Head(todo[t]))) /\ \A c : BufOf(c)' = BufOf(c)
      /\ \A c : None \in BufOf(c) /\ Own(c) \in BufOf(c) /\ \A q \in Threads : Pool(q) \in BufOf(c)
  BY HostFrame DEF SameProgram, BufOf, None, Own, Pool
<1>1. PICK c \in Colls, x \in Contexts, n \in Nat, w \in Seq(StepNames), h \in StepNames : Facing(t, c, x, n, w, h)
  BY FacingFacts DEF HostEffect
<1>2. PICK v : v = todo'[t]
  OBVIOUS
<1>3. h = Head(todo[t]) /\ w = todo[t] /\ c = Current(t) /\ OwesStep(w, v, h) /\ buffer[t] \in BufOf(c)
  BY <1>1, <1>2, OwesMoves DEF Facing, OwnInv, OwnBuffers
<1>4. OwnItems'
  <2>. SUFFICES ASSUME NEW s \in Streams, NEW j \in 1 .. Len(stream'[s])
                PROVE  stream'[s][j].buf \in BufOf(stream'[s][j].coll)
    BY <1>0 DEF OwnItems, BufOf, None, Own, Pool
  <2>1. CASE j \in 1 .. Len(stream[s])
    <3>1. stream'[s][j] = stream[s][j]
      BY <1>0, <2>1, QueuedPlaces
    <3>. QED BY <2>1, <3>1 DEF OwnInv, OwnItems
  <2>2. CASE j \notin 1 .. Len(stream[s])
    <3>1. stream'[s][j].coll = Current(t) /\ stream'[s][j].buf = buffer[t]
      BY <1>0, <2>2, QueuedPlaces
    <3>. QED BY <1>3, <3>1
  <2>. QED BY <2>1, <2>2
<1>5. ASSUME NEW s \in UserStreams
      PROVE  /\ \A k \in 1 .. Len(pending'[s]) : pending'[s][k].tmp \in BufOf(pending'[s][k].coll)
             /\ \A k, l \in 1 .. Len(pending'[s]) : pending'[s][k].coll = pending'[s][l].coll => k = l
  <2>1. PICK p, g : p = pending[s] /\ g = pending'[s]
    OBVIOUS
  <2>0. RecordsAre(t, s, p, g)
    BY <2>1, RecordsOf
  <2>2. /\ Len(p) \in Nat /\ Len(g) \in Nat /\ Len(p) <= Len(g)
        /\ \A k \in 1 .. Len(p) : g[k].coll = p[k].coll /\ g[k].tmp = p[k].tmp
        /\ \A k \in 1 .. Len(g) :
             \/ k \in 1 .. Len(p)
             \/ /\ k = Len(p) + 1 /\ h = "register" /\ g[k].coll = c
                /\ g[k].tmp = IF buffer[t] # None /\ ~MergedOnStream(c) THEN buffer[t] ELSE None
    BY <1>3, <2>0 DEF RecordsAre
  <2>3. /\ \A k \in 1 .. Len(p) : p[k].tmp \in BufOf(p[k].coll)
        /\ \A k, l \in 1 .. Len(p) : p[k].coll = p[l].coll => k = l
    BY <2>1 DEF OwnInv, OwnRecords, OneRecord
  <2>4. h = "register" => \A k \in 1 .. Len(p) : p[k].coll # c
    <3>1. h = "register" => Used(w)
      BY <1>3 DEF OwesStep
    <3>. QED BY <1>3, <2>1, <3>1 DEF CompletionInv, Fresh, Unrecorded
  <2>5. \A k \in 1 .. Len(g) : g[k].tmp \in BufOf(g[k].coll)
    <3>. SUFFICES ASSUME NEW k \in 1 .. Len(g) PROVE g[k].tmp \in BufOf(g[k].coll)
      OBVIOUS
    <3>1. CASE k \in 1 .. Len(p)
      BY <2>2, <2>3, <3>1
    <3>2. CASE k \notin 1 .. Len(p)
      <4>1. g[k].coll = c /\ (g[k].tmp = buffer[t] \/ g[k].tmp = None)
        BY <2>2, <3>2
      <4>. QED BY <1>0, <1>3, <4>1
    <3>. QED BY <3>1, <3>2
  <2>6. ASSUME NEW k \in 1 .. Len(g), NEW l \in 1 .. Len(g), g[k].coll = g[l].coll PROVE k = l
    <3>1. CASE k \in 1 .. Len(p) /\ l \in 1 .. Len(p)
      BY <2>2, <2>3, <2>6, <3>1
    <3>2. CASE k \notin 1 .. Len(p) /\ l \notin 1 .. Len(p)
      BY <2>2, <3>2
    <3>3. CASE k \in 1 .. Len(p) /\ l \notin 1 .. Len(p)
      BY <2>2, <2>4, <2>6, <3>3
    <3>4. CASE k \notin 1 .. Len(p) /\ l \in 1 .. Len(p)
      BY <2>2, <2>4, <2>6, <3>4
    <3>. QED BY <3>1, <3>2, <3>3, <3>4
  <2>. QED BY <2>1, <2>5, <2>6
<1>6. OwnRecords' /\ OneRecord'
  <2>1. OwnRecords'
    BY <1>0, <1>5 DEF OwnRecords, BufOf, None, Own, Pool
  <2>2. OneRecord'
    BY <1>0, <1>5 DEF OneRecord
  <2>. QED BY <2>1, <2>2
<1>7. ASSUME NEW q \in Threads PROVE buffer'[q] \in BufOf(Current(q))'
  <2>1. PICK d : d = Current(q)'
    OBVIOUS
  <2>2. buffer'[q] \in BufOf(d)
    <3>1. CASE q # t
      <4>1. d = Current(q) /\ buffer'[q] = buffer[q]
        BY <2>1, <3>1, HostFrame, BufferMoves
      <4>. QED BY <4>1 DEF OwnInv, OwnBuffers
    <3>2. CASE q = t /\ h # "return"
      <4>1. index' = index /\ buffer'[t] \in {buffer[t], Pool(t), Own(c)}
        BY <1>3, <3>2, BufferMoves
      <4>2. d = c
        BY <1>3, <2>1, <3>2, <4>1 DEF Current
      <4>. QED BY <1>0, <1>3, <3>2, <4>1, <4>2
    <3>3. CASE q = t /\ h = "return"
      BY <1>0, <1>3, <3>3, BufferMoves
    <3>. QED BY <3>1, <3>2, <3>3
  <2>3. BufOf(d)' = BufOf(d)
    BY <1>0
  <2>. QED BY <2>1, <2>2, <1>0 DEF BufOf, None, Own, Pool
<1>8. OwnBuffers'
  BY <1>0, <1>7 DEF OwnBuffers
<1>. QED BY <1>4, <1>6, <1>8 DEF OwnInv

(* The device moves buffers with their operations and records. *)
LEMMA DeviceOwn ==
  ASSUME Types, CompletionInv, OwnInv, NEW s \in Streams, Executes(s), Collects(s), buffer' = buffer
  PROVE  OwnInv'
<1>0. /\ program' = program /\ index' = index /\ Streams' = Streams /\ UserStreams' = UserStreams /\ Threads' = Threads
      /\ \A c : BufOf(c)' = BufOf(c) /\ Current(c)' = Current(c)
  BY DEF Executes, Streams, UserStreams, Threads, BufOf, None, Own, Pool, PcieStream, Current
<1>1. OwnItems'
  <2>. SUFFICES ASSUME NEW q \in Streams, NEW j \in 1 .. Len(stream'[q])
                PROVE  stream'[q][j].buf \in BufOf(stream'[q][j].coll)
    BY <1>0 DEF OwnItems, BufOf, None, Own, Pool
  <2>1. PICK d \in 0 .. 1 : Moved(q, s, d)
    BY ExecutedPlaces DEF Types
  <2>2. PICK i \in 1 .. Len(stream[q]) : stream'[q][j] = stream[q][i]
    BY <2>1 DEF Moved
  <2>. QED BY <2>2 DEF OwnInv, OwnItems
<1>2. ASSUME NEW q \in UserStreams
      PROVE  /\ \A k \in 1 .. Len(pending'[q]) : pending'[q][k].tmp \in BufOf(pending'[q][k].coll)
             /\ \A k, l \in 1 .. Len(pending'[q]) : pending'[q][k].coll = pending'[q][l].coll => k = l
  <2>1. PICK d, e \in 0 .. 1 : Passed(q, s, d, e)
    BY RecordsPass DEF CompletionInv
  <2>2. \A k \in 1 .. Len(pending'[q]) : k + e \in 1 .. Len(pending[q]) /\ pending'[q][k] = pending[q][k + e]
    BY <2>1 DEF Passed
  <2>3. \A k \in 1 .. Len(pending'[q]) : pending'[q][k].tmp \in BufOf(pending'[q][k].coll)
    BY <2>2 DEF OwnInv, OwnRecords
  <2>4. ASSUME NEW k \in 1 .. Len(pending'[q]), NEW l \in 1 .. Len(pending'[q]), pending'[q][k].coll = pending'[q][l].coll
        PROVE  k = l
    <3>1. PICK a, b \in 1 .. Len(pending[q]) :
            a = k + e /\ b = l + e /\ pending[q][a].coll = pending[q][b].coll
      <4>1. PICK a \in 1 .. Len(pending[q]) : a = k + e /\ pending'[q][k] = pending[q][a]
        BY <2>2
      <4>2. PICK b \in 1 .. Len(pending[q]) : b = l + e /\ pending'[q][l] = pending[q][b]
        BY <2>2
      <4>. QED BY <2>4, <4>1, <4>2
    <3>2. a = b
      BY <3>1 DEF OwnInv, OneRecord
    <3>. QED BY <2>1, <3>1, <3>2 DEF Passed
  <2>. QED BY <2>3, <2>4
<1>3. OwnRecords' /\ OneRecord'
  <2>1. OwnRecords'
    BY <1>0, <1>2 DEF OwnRecords, BufOf, None, Own, Pool
  <2>2. OneRecord'
    BY <1>0, <1>2 DEF OneRecord
  <2>. QED BY <2>1, <2>2
<1>4. OwnBuffers'
  BY <1>0 DEF OwnInv, OwnBuffers, BufOf, None, Own, Pool
<1>. QED BY <1>1, <1>3, <1>4 DEF OwnInv

(* The two streams meet at both ends of a collective: besides what         *)
(* InputsAreProduced says of the input, the work that the application      *)
(* queues behind a collective finds its fast part and its PCIe part done   *)
(* and what was staged in its place, whichever part fails or falls back    *)
(* (PcieCompleteOnUserStreamIfNeeded, EnqueueSegmentedMergeOnStream and    *)
(* the callback); the staged result, when one thread submits.              *)
THEOREM StreamsAreOrdered == Spec => []StreamsOrdered
<1>1. OrderedInv => OutputComplete
  <2>. SUFFICES ASSUME OrderedInv, OneThread, NEW s \in UserStreams, head(s, "consume")
                PROVE  Result(Head(stream[s]).coll)
    BY DEF OutputComplete
  <2>. QED BY ConsumedWhole
<1>2. Spec => []OutputComplete
  BY <1>1, OrderedInit, OrderedStay, PTL DEF Spec
<1>3. PcieReadsProduced /\ OutputComplete => StreamsOrdered
  BY DEF StreamsOrdered
<1>. QED BY <1>2, <1>3, InputsAreProduced, PTL

(* The times that a collective's callback reports are its own: where one   *)
(* thread submits to a stream at a time, nothing comes between a record's  *)
(* registration and its timers, which AttachTimersToLastStreamPending      *)
(* gives to the last record of the stream.                                 *)
THEOREM TimersStayOwn == Spec => []TimersAreOwn
<1>1. TimingInv => TimersAreOwn
  <2>. SUFFICES ASSUME TimingInv, OneThread \/ Serialised, NEW s \in UserStreams, head(s, "callback")
                PROVE  Head(pending[s]).timed = Head(pending[s]).coll
    BY DEF TimersAreOwn
  <2>. QED BY CalledTimers
<1>. QED BY <1>1, TimingInit, TimingStay, PTL DEF Spec

-----------------------------------------------------------------------------
(* The staging buffers that were given back *)

NoFill(s, j, c) == \A i \in 1 .. Len(stream[s]) : i >= j => ~At(s, i, c, Fills)
Bare(c) == \A s \in UserStreams : \A k \in 1 .. Len(pending[s]) : pending[s][k].coll = c => pending[s][k].tmp = None
Exhausted(w, op) == (\A step \in Fills \cup {"alloc"} : ~Has(w, step)) /\ (op = "AllGather" \/ ~Has(w, "register"))
Idle(c) == Made(c) /\ (c[2] = index[c[1]] => Exhausted(todo[c[1]], Call(c).op))
(* Nothing uses the buffer of a collective from place j of its stream on. *)
Spent(c, j) == NoFill(Call(c).stream, j, c) /\ Bare(c) /\ Idle(c)

FreedSpent == \A b \in freed : \E c \in Colls : b = Own(c) /\ Spent(c, 1)
FreesSpent ==
  \A s \in UserStreams : \A j \in 1 .. Len(stream[s]) : stream[s][j].kind = "free" =>
    /\ Spent(stream[s][j].coll, j) /\ Call(stream[s][j].coll).op = "AllGather"
    /\ stream[s][j].buf = Own(stream[s][j].coll)
Opens(w)    == \E step \in Early : Has(w, step)
Unfilled(t) == Opens(todo[t]) => Clear(Stream(t), Current(t), Fills)
Merges(t)   == Has(todo[t], "merge") => MergedOnStream(Current(t))
FreedInv ==
  /\ ~program.acl => FreedSpent /\ FreesSpent
  /\ \A t \in Threads : Unfilled(t) /\ Merges(t)

(* What a step leaves of a script *)
Leaves(t, c, w, v, h) ==
  \/ v = Tail(w) /\ h # "call" /\ Current(t)' = c
  \/ v = <<"call">> /\ h = "return"
  \/ Starts(v, Call(c).op) /\ h = "call" /\ Current(t)' = c
  \/ /\ h \in {"input", "input_wait", "write_done", "wait_done"} /\ Current(t)' = c
     /\ \E step \in {"sync_user", "event"} : /\ \A x : Has(v, x) /\ x # step => Has(w, x)
                                             /\ step = "sync_user" => h \in Early
  \/ /\ h \in {"alloc", "sync_user"} /\ Current(t)' = c
     /\ \A x : Has(v, x) => x \in {"fast", "return"} \cup Reporting
     /\ h = "sync_user" => \A x : Has(v, x) => x = "return"

(* What any step leaves of the script, and of which collective *)
LEMMA StepLeaves ==
  ASSUME Types, Types', NEW t \in Threads, HostEffect(t),
         NEW c \in Colls, NEW x \in Contexts, NEW n \in Nat, NEW w \in Seq(StepNames), NEW h \in StepNames,
         Facing(t, c, x, n, w, h), NEW v, v = todo'[t]
  PROVE  Leaves(t, c, w, v, h)
<1>0. /\ w = todo[t] /\ h = Head(w) /\ w # <<>> /\ Script(w) /\ InOrder(w) /\ Moves(t, w) /\ ThreadTypes
      /\ c = Current(t) /\ program' = program
  BY DEF Facing, HostEffect, HostShape, Types
<1>1. ASSUME index' = index PROVE Current(t)' = c
  BY <1>0, <1>1 DEF Current
<1>2. CASE Advance(t, w)
  <2>1. v = Tail(w) /\ h # "call" /\ index' = index
    BY <1>0, <1>2 DEF Advance, next, ThreadTypes
  <2>. QED BY <1>1, <2>1 DEF Leaves
<1>3. CASE FallsBack(t, w)
  <2>1. PICK step, k : Fallback(w, step, k) /\ Instead(t, step, k)
    BY <1>3 DEF FallsBack
  <2>2. /\ v = <<step>> \o SubSeq(w, 1 + k, Len(w)) /\ step \in {"sync_user", "event"}
        /\ h \in {"input", "input_wait", "write_done", "wait_done"} /\ (step = "sync_user" => h \in Early)
    BY <1>0, <2>1 DEF Instead, ThreadTypes, Fallback, Early
  <2>3. \A a : Has(v, a) /\ a # step => Has(w, a)
    BY <1>0, <2>1, <2>2, ScriptFallback
  <2>4. Current(t)' = c
    BY <1>1, <1>3 DEF FallsBack, Keeps
  <2>. QED BY <2>2, <2>3, <2>4 DEF Leaves
<1>4. CASE CutsShort(t, w)
  <2>1. Current(t)' = c /\ h \in {"alloc", "sync_user"}
    BY <1>0, <1>1, <1>4 DEF CutsShort, Keeps
  <2>2. CASE h = "alloc"
    <3>1. v = <<"fast">> \o Notify \o <<"return">>
      BY <1>0, <1>4, <2>2 DEF CutsShort, ThreadTypes
    <3>2. \A a : Has(v, a) => a \in {"fast", "return"} \cup {"register", "attach", "callback"}
      BY <3>1, ShortStarts
    <3>. QED BY <2>1, <2>2, <3>2 DEF Leaves, Reporting
  <2>3. CASE h = "sync_user"
    <3>1. v = <<"return">>
      BY <1>0, <1>4, <2>3 DEF CutsShort, ThreadTypes
    <3>2. \A a : Has(v, a) => a = "return"
      BY <3>1 DEF Has
    <3>. QED BY <2>1, <2>3, <3>2 DEF Leaves
  <2>. QED BY <2>1, <2>2, <2>3
<1>5. CASE StartsCall(t, w)
  <2>1. Current(t)' = c /\ h = "call"
    BY <1>0, <1>1, <1>5 DEF StartsCall, Keeps
  <2>2. PICK p : v = StepsOf(Call(c).op, p) \o <<"return">>
    BY <1>0, <1>5 DEF StartsCall, ThreadTypes
  <2>3. Call(c).op \in {"AllReduce", "AllGather", "ReduceScatter", "AllToAll"}
    BY <1>0, CollFacts DEF ThreadTypes
  <2>4. Starts(v, Call(c).op)
    BY <2>2, <2>3, WholeScript
  <2>. QED BY <2>1, <2>4 DEF Leaves
<1>6. CASE GoesOn(t, w)
  BY <1>0, <1>6 DEF GoesOn, ThreadTypes, Leaves
<1>. QED BY <1>0, <1>2, <1>3, <1>4, <1>5, <1>6 DEF Moves

(* A script that needs no buffer any more will not need one later. *)
LEMMA StaysExhausted ==
  ASSUME NEW t, NEW c, NEW w \in Seq(StepNames), w # <<>>, InOrder(w), NEW h, h = Head(w), h # "call",
         NEW v, Leaves(t, c, w, v, h), NEW op, Exhausted(w, op)
  PROVE  Exhausted(v, op)
<1>1. \A x : Has(Tail(w), x) => Has(w, x)
  BY TailInOrder
<1>2. Has(w, h)
  <2>1. 1 \in 1 .. Len(w) /\ h = w[1]
    OBVIOUS
  <2>. QED BY <2>1 DEF Has
<1>3. h # "alloc"
  BY <1>2 DEF Exhausted
<1>4. \A x : Has(<<"call">>, x) => x = "call"
  BY DEF Has
<1>5. \A step \in Fills \cup {"alloc", "register"} : Has(v, step) => Has(w, step)
  BY <1>1, <1>3, <1>4 DEF Leaves, Fills
<1>. QED BY <1>5 DEF Exhausted

(* The steps that fill a buffer queue what fills it. *)
LEMMA FillsQueued ==
  \A h \in StepNames : h \notin Fills => Fills \cap QueuedBy(h) = {}
<1>. SUFFICES ASSUME NEW h \in StepNames, h \notin Fills, NEW kind \in QueuedBy(h), kind \in Fills PROVE FALSE
  OBVIOUS
<1>. QED BY QueuedByValues DEF StepNames, Fills, Parts

(* A collective is still without work on its buffer after a host's step. *)
LEMMA UnfilledStays ==
  ASSUME Types, Types', InputInv, OverInv, NEW t \in Threads, HostEffect(t), NEW q \in Threads, Unfilled(q)
  PROVE  Unfilled(q)'
<1>0. /\ program' = program /\ UNCHANGED happened /\ Extended(t, QueuedBy(Head(todo[t])))
      /\ (q # t => todo'[q] = todo[q] /\ Current(q)' = Current(q) /\ Stream(q)' = Stream(q))
      /\ Current(q) \in Colls /\ Current(t) \in Colls /\ Current(q)[1] = q /\ Current(t)[1] = t
      /\ Stream(q) = Call(Current(q)).stream /\ Stream(q) \in Streams
  BY HostFrame, CurrentFacts DEF Types
<1>1. PICK c \in Colls, x \in Contexts, n \in Nat, w \in Seq(StepNames), h \in StepNames : Facing(t, c, x, n, w, h)
  BY FacingFacts DEF HostEffect
<1>2. PICK v : v = todo'[t]
  OBVIOUS
<1>3. h = Head(todo[t]) /\ w = todo[t] /\ c = Current(t) /\ Leaves(t, c, w, v, h) /\ w # <<>> /\ InOrder(w) /\ Script(w)
  BY <1>1, <1>2, StepLeaves DEF Facing
<1>4. ASSUME NEW d \in Colls, NEW s \in Streams, d # c \/ h \notin Fills, Clear(s, d, Fills) PROVE Clear(s, d, Fills)'
  <2>1. d # Current(t) \/ Fills \cap QueuedBy(Head(todo[t])) = {}
    BY <1>3, <1>4, FillsQueued
  <2>. QED BY <1>0, <1>4, <2>1, ClearStays
<1>5. CASE q # t
  <2>1. PICK d, s : d = Current(q) /\ s = Stream(q) /\ d \in Colls /\ s \in Streams /\ d # c
    BY <1>0, <1>3, <1>5
  <2>2. Opens(todo[q]) => Clear(s, d, Fills)
    BY <2>1 DEF Unfilled
  <2>3. Opens(todo'[q]) => Clear(s, d, Fills)'
    BY <1>0, <1>4, <1>5, <2>1, <2>2
  <2>4. (Opens(todo'[q]) <=> Opens(todo[q])') /\ Current(q)' = d /\ Stream(q)' = s
    BY <1>0, <1>5, <2>1 DEF Opens, Has, Early
  <2>. QED BY <2>3, <2>4 DEF Unfilled, Clear, At, Fills
<1>6. CASE q = t
  <2>. SUFFICES ASSUME Opens(v) PROVE Clear(Stream(t), Current(t), Fills)'
    <3>1. Opens(v) <=> Opens(todo[t])'
      BY <1>2 DEF Opens, Has, Early
    <3>. QED BY <1>6, <3>1 DEF Unfilled
  <2>1. Has(w, h)
    <3>1. 1 \in 1 .. Len(w) /\ h = w[1]
      BY <1>3
    <3>. QED BY <3>1 DEF Has
  <2>2. PICK s : s = Call(c).stream /\ s \in Streams /\ s = Stream(t)
    BY <1>0, <1>3, <1>6
  <2>3. Opens(w) => Clear(s, c, Fills)
    BY <1>3, <1>6, <2>2 DEF Unfilled
  <2>4. CASE v = Tail(w) /\ h # "call" /\ Current(t)' = c
    <3>1. Opens(w)
      BY <1>3, <2>4, TailInOrder DEF Opens
    <3>2. PICK step \in Early : Has(Tail(w), step)
      BY <2>4 DEF Opens
    <3>3. Sorted(w, Filling, {1, 2}) /\ Numbered(Filling)
      BY <1>3, NumberedOrders DEF Script
    <3>4. Filling[h] # 0 /\ Filling[step] # 0 =>
            Filling[h] < Filling[step] \/ (Filling[h] = Filling[step] /\ Filling[step] \in {1, 2})
      BY <1>3, <3>2, <3>3, SortedTail
    <3>5. h \notin Fills
      BY <3>4, FillingValues DEF Fills
    <3>6. Clear(s, c, Fills)'
      BY <1>4, <2>2, <2>3, <3>1, <3>5
    <3>. QED BY <1>0, <1>3, <2>2, <2>4, <3>6 DEF Clear, At, Fills, Stream, Call
  <2>5. CASE v = <<"call">>
    BY <2>5 DEF Opens, Has, Early
  <2>6. CASE h = "call" /\ Current(t)' = c
    <3>1. ~Made(c)
      <4>1. c[1] = t /\ c[2] = index[t] /\ index[t] \in Nat
        BY <1>3, CurrentFacts DEF Types, ThreadTypes
      <4>. QED BY <1>3, <2>6, <4>1 DEF Made, Calling
    <3>2. Clear(s, c, Fills)
      BY <2>2, <3>1 DEF OverInv, MadeInv, Clear, At
    <3>3. Clear(s, c, Fills)'
      BY <1>4, <2>2, <2>6, <3>2 DEF Fills
    <3>. QED BY <1>0, <1>3, <2>2, <2>6, <3>3 DEF Clear, At, Fills, Stream, Call
  <2>7. CASE /\ h \in {"input", "input_wait", "write_done", "wait_done"} /\ Current(t)' = c
             /\ \E step \in {"sync_user", "event"} : /\ \A a : Has(v, a) /\ a # step => Has(w, a)
                                                     /\ step = "sync_user" => h \in Early
    <3>1. Opens(w)
      BY <2>1, <2>7 DEF Opens, Early
    <3>2. Clear(s, c, Fills)'
      BY <1>4, <2>2, <2>3, <2>7, <3>1 DEF Fills
    <3>. QED BY <1>0, <1>3, <2>2, <2>7, <3>2 DEF Clear, At, Fills, Stream, Call
  <2>8. CASE \A a : Has(v, a) => a \in {"fast", "return"} \cup Reporting
    BY <2>8 DEF Opens, Early, Reporting
  <2>. QED BY <1>3, <2>4, <2>5, <2>6, <2>7, <2>8 DEF Leaves
<1>. QED BY <1>5, <1>6

(* Only a gathered result is merged on the stream. *)
LEMMA MergesStay ==
  ASSUME Types, Types', InputInv, OverInv, NEW t \in Threads, HostEffect(t), NEW q \in Threads, Merges(q)
  PROVE  Merges(q)'
<1>0. /\ program' = program /\ (q # t => todo'[q] = todo[q] /\ Current(q)' = Current(q))
      /\ \A d : MergedOnStream(d)' = MergedOnStream(d)
  BY HostFrame DEF MergedOnStream, Call
<1>1. CASE q # t
  BY <1>0, <1>1 DEF Merges, Has, MergedOnStream, Call
<1>2. CASE q = t
  <2>1. PICK c \in Colls, x \in Contexts, n \in Nat, w \in Seq(StepNames), h \in StepNames : Facing(t, c, x, n, w, h)
    BY FacingFacts DEF HostEffect
  <2>2. PICK v : v = todo'[t]
    OBVIOUS
  <2>3. h = Head(w) /\ w = todo[t] /\ c = Current(t) /\ Leaves(t, c, w, v, h) /\ w # <<>> /\ InOrder(w)
    BY <2>1, <2>2, StepLeaves DEF Facing
  <2>4. \A a : Has(Tail(w), a) => Has(w, a)
    BY <2>3, TailInOrder
  <2>5. ~Has(<<"call">>, "merge")
    BY DEF Has
  <2>6. Has(w, "merge") => Call(c).op = "AllGather"
    BY <1>2, <2>3 DEF Merges, MergedOnStream
  <2>7. Has(v, "merge") => Call(c).op = "AllGather" /\ Current(t)' = c
    <3>1. CASE v = Tail(w) /\ Current(t)' = c
      BY <2>4, <2>6, <3>1
    <3>2. CASE v = <<"call">>
      BY <2>5, <3>2
    <3>3. CASE Starts(v, Call(c).op) /\ Current(t)' = c
      BY <3>3 DEF Starts
    <3>4. CASE Current(t)' = c /\ \E step \in {"sync_user", "event"} : \A a : Has(v, a) /\ a # step => Has(w, a)
      BY <2>6, <3>4
    <3>5. CASE \A a : Has(v, a) => a \in {"fast", "return"} \cup Reporting
      BY <3>5 DEF Reporting
    <3>. QED BY <2>3, <3>1, <3>2, <3>3, <3>4, <3>5 DEF Leaves
  <2>. QED BY <1>0, <1>2, <2>2, <2>7 DEF Merges, Has, MergedOnStream, Call
<1>. QED BY <1>1, <1>2

(* The current collective of a thread, if it is idle *)
LEMMA IdleCurrent ==
  ASSUME Types, NEW t \in Threads, NEW d \in Colls, d = Current(t), Idle(d), todo[t] # <<>>
  PROVE  /\ Exhausted(todo[t], Call(d).op) /\ ~Calling(todo[t])
         /\ \A step \in Fills \cup {"alloc"} : Head(todo[t]) # step
         /\ Head(todo[t]) = "register" => MergedOnStream(d)
<1>1. d[1] = t /\ d[2] = index[t] /\ index[t] \in Nat /\ todo[t] \in Seq(StepNames)
  BY CurrentFacts DEF Types, ThreadTypes
<1>2. Exhausted(todo[t], Call(d).op) /\ ~Calling(todo[t])
  BY <1>1 DEF Idle, Made
<1>3. Has(todo[t], Head(todo[t]))
  <2>1. 1 \in 1 .. Len(todo[t]) /\ Head(todo[t]) = todo[t][1]
    BY <1>1
  <2>. QED BY <2>1 DEF Has
<1>. QED BY <1>2, <1>3 DEF Exhausted, MergedOnStream

(* An idle collective stays idle when a host thread moves on. *)
LEMMA IdleStays ==
  ASSUME Types, Types', InputInv, OverInv, NEW t \in Threads, HostEffect(t), NEW d \in Colls, Idle(d)
  PROVE  Idle(d)'
<1>0. /\ program' = program /\ HostShape(t) /\ Call(d)' = Call(d) /\ d[1] \in Threads /\ d = <<d[1], d[2]>>
      /\ \A q \in Threads : q # t => todo'[q] = todo[q] /\ Current(q)' = Current(q)
      /\ Current(t) = <<t, index[t]>>
  BY HostFrame, CollFacts, SMTT(20) DEF Types, ThreadTypes, HostEffect, Call, Current
<1>1. Made(d)'
  BY MadeGrows DEF Idle, InputInv
<1>2. PICK v : v = todo'[d[1]]
  OBVIOUS
<1>3. ASSUME d[2] = index'[d[1]] PROVE Exhausted(v, Call(d).op)
  <2>1. CASE d[1] # t
    <3>1. index'[d[1]] = index[d[1]] /\ v = todo[d[1]]
      BY <1>0, <1>2, <2>1 DEF Current
    <3>. QED BY <1>3, <3>1 DEF Idle
  <2>2. CASE d[1] = t
    <3>1. PICK i, k : i = index[t] /\ k = index'[t] /\ i \in Nat /\ k \in {i, i + 1}
      BY <1>0 DEF HostShape, Types, ThreadTypes
    <3>2. d[2] = i
      BY <1>3, <2>2, <3>1 DEF Idle, Made
    <3>3. d = Current(t)
      BY <1>0, <2>2, <3>1, <3>2
    <3>4. PICK c \in Colls, x \in Contexts, n \in Nat, w \in Seq(StepNames), h \in StepNames : Facing(t, c, x, n, w, h)
      BY FacingFacts DEF HostEffect
    <3>5. h = Head(w) /\ w = todo[t] /\ c = d /\ Leaves(t, c, w, v, h) /\ w # <<>> /\ InOrder(w)
      BY <1>2, <2>2, <3>3, <3>4, StepLeaves DEF Facing
    <3>6. Exhausted(w, Call(d).op) /\ h # "call"
      BY <3>3, <3>5, IdleCurrent DEF Calling
    <3>. QED BY <3>5, <3>6, StaysExhausted
  <2>. QED BY <2>1, <2>2
<1>4. d[2] = index'[d[1]] => Exhausted(todo'[d[1]], Call(d).op)
  BY <1>2, <1>3
<1>. QED BY <1>0, <1>1, <1>4 DEF Idle, Exhausted, Has, Fills

(* What is not used any more from a place of its stream on stays unused. *)
LEMMA SpentStays ==
  ASSUME Types, Types', InputInv, OverInv, NEW t \in Threads, HostNext(t), HostEffect(t),
         NEW d \in Colls, NEW j \in Nat, Spent(d, j)
  PROVE  Spent(d, j)'
<1>0. /\ program' = program /\ SameProgram /\ Extended(t, QueuedBy(Head(todo[t]))) /\ Call(d)' = Call(d)
      /\ Call(d).stream \in Streams /\ todo[t] # <<>> /\ Idle(d)
  BY HostFrame, CollFacts DEF Types, ThreadTypes, HostEffect, Call, Spent
<1>1. Head(todo[t]) \in StepNames
  <2>1. todo[t] \in Seq(StepNames)
    BY DEF Types, ThreadTypes
  <2>. QED BY <1>0, <2>1
<1>2. d = Current(t) => Head(todo[t]) \notin Fills /\ (Head(todo[t]) = "register" => MergedOnStream(d))
  BY <1>0, IdleCurrent
<1>3. PICK s : s = Call(d).stream /\ s \in Streams
  BY <1>0
<1>4. NoFill(s, j, d)'
  <2>. SUFFICES ASSUME NEW i \in 1 .. Len(stream'[s]), i >= j, stream'[s][i].coll = d, stream'[s][i].kind \in Fills
                PROVE  FALSE
    BY DEF NoFill, At, Fills
  <2>1. CASE i \in 1 .. Len(stream[s])
    <3>1. stream'[s][i] = stream[s][i]
      BY <1>0, <1>3, <2>1, QueuedPlaces
    <3>. QED BY <1>3, <2>1, <3>1 DEF Spent, NoFill, At
  <2>2. CASE i \notin 1 .. Len(stream[s])
    <3>1. stream'[s][i].kind \in QueuedBy(Head(todo[t])) /\ d = Current(t)
      BY <1>0, <1>3, <2>2, QueuedPlaces
    <3>. QED BY <1>1, <1>2, <3>1, FillsQueued
  <2>. QED BY <2>1, <2>2
<1>5. Bare(d)'
  <2>. SUFFICES ASSUME NEW q \in UserStreams, NEW k \in 1 .. Len(pending'[q]), pending'[q][k].coll = d
                PROVE  pending'[q][k].tmp = None
    BY <1>0 DEF Bare, SameProgram, None
  <2>1. PICK p, g : p = pending[q] /\ g = pending'[q]
    OBVIOUS
  <2>0. RecordsAre(t, q, p, g)
    BY <2>1, RecordsOf
  <2>2. \A l \in 1 .. Len(p) : g[l].coll = p[l].coll /\ g[l].tmp = p[l].tmp
    BY <2>0 DEF RecordsAre
  <2>3. k \in 1 .. Len(g)
    BY <2>1
  <2>4. CASE k \in 1 .. Len(p)
    BY <2>1, <2>2, <2>4 DEF Spent, Bare
  <2>5. CASE k \notin 1 .. Len(p)
    <3>1. /\ Head(todo[t]) = "register" /\ g[k].coll = Current(t)
          /\ g[k].tmp = IF buffer[t] # None /\ ~MergedOnStream(Current(t)) THEN buffer[t] ELSE None
      BY <2>0, <2>3, <2>5 DEF RecordsAre
    <3>. QED BY <1>2, <2>1, <3>1
  <2>. QED BY <2>4, <2>5
<1>6. Idle(d)'
  BY <1>0, IdleStays
<1>. QED BY <1>0, <1>3, <1>4, <1>5, <1>6 DEF Spent, NoFill, At

(* A host thread gives a buffer back when it gives up its collective, and  *)
(* otherwise queues its release behind the copies out of it.               *)
LEMMA FreedMoves ==
  ASSUME NEW t \in Threads, HostNext(t), ~program.acl, Types
  PROVE  \/ freed' = freed
         \/ /\ Head(todo[t]) = "sync_user" /\ todo'[t] = <<"return">> /\ freed' \subseteq freed \cup {Own(Current(t))}
            /\ pending' = pending /\ stream' = stream /\ todo[t] # <<>> /\ index' = index
<1>0. DOMAIN todo = Threads
  BY DEF Types, ThreadTypes
<1>1. CASE \/ StartCall(t) \/ Allocate(t) \/ BeginValueSync(t) \/ NoValueSync(t)
           \/ EnqueueInputReady(t) \/ EnqueueInputWait(t) \/ SynchronizeUser(t)
           \/ Pack(t) \/ FastPart(t) \/ PciePart(t) \/ EnqueueWrite(t) \/ EnqueueWait(t)
           \/ WaitEventOnStream(t) \/ SyncPcieStream(t)
  BY <1>1 DEF StartCall, Allocate, BeginValueSync, NoValueSync, EnqueueInputReady, EnqueueInputWait, SynchronizeUser,
              Pack, FastPart, PciePart, EnqueueWrite, EnqueueWait, WaitEventOnStream, SyncPcieStream, HostStep, quiet
<1>2. CASE RegisterPending(t) \/ AttachTimers(t) \/ EnqueueCallback(t) \/ Return(t) \/ Merge(t)
  BY <1>2 DEF RegisterPending, AttachTimers, EnqueueCallback, Return, Merge, HostStep, quiet
<1>3. CASE SynchronizeFails(t)
  <2>1. at(t, "sync_user") /\ todo' = [todo EXCEPT ![t] = <<"return">>] /\ pending' = pending /\ stream' = stream
        /\ index' = index
    BY <1>3 DEF SynchronizeFails
  <2>2. freed' \subseteq freed \cup {Own(Current(t))}
    BY <1>3 DEF SynchronizeFails
  <2>. QED BY <1>0, <2>1, <2>2 DEF at
<1>. QED BY <1>1, <1>2, <1>3 DEF HostNext

(* A release is queued last, behind the copies, and is the collective's own. *)
LEMMA NewFree ==
  ASSUME Types, Types', NEW t \in Threads, HostNext(t), HostEffect(t), NEW s \in Streams,
         NEW j \in 1 .. Len(stream'[s]), j \notin 1 .. Len(stream[s]), stream'[s][j].kind = "free"
  PROVE  /\ Head(todo[t]) = "merge" /\ todo'[t] = Tail(todo[t]) /\ index' = index /\ pending' = pending
         /\ s = Stream(t) /\ buffer[t] = Own(Current(t)) /\ j = Len(stream'[s]) /\ stream'[s][j].coll = Current(t)
         /\ stream'[s][j].buf = buffer[t]
<1>0. StreamTypes /\ StreamTypes' /\ program' = program /\ Stream(t) \in Streams /\ DOMAIN todo = Threads
  BY CurrentFacts DEF Types, HostShape, HostEffect, ThreadTypes
<1>1. stream'[s][j].kind \in QueuedBy(Head(todo[t])) /\ stream'[s][j].coll = Current(t) /\ stream'[s][j].buf = buffer[t]
  BY QueuedPlaces, HostFrame
<1>2. Head(todo[t]) = "merge"
  <2>1. Head(todo[t]) \in StepNames
    <3>1. todo[t] \in Seq(StepNames) /\ todo[t] # <<>>
      BY DEF Types, ThreadTypes, HostEffect
    <3>. QED BY <3>1
  <2>. QED BY <1>1, <2>1, QueuedByValues DEF StepNames, Parts
<1>3. Merge(t)
  BY <1>2, ActionHeads DEF HostNext, at
<1>4. todo'[t] = Tail(todo[t]) /\ index' = index /\ pending' = pending
  BY <1>0, <1>3 DEF Merge, next, locals
<1>5. PICK tail \in {<<>>, <<item("free", t)>>} :
        /\ stream' = [stream EXCEPT ![Stream(t)] = @ \o <<item("merge", t)>> \o tail]
        /\ tail # <<>> => buffer[t] = Own(Current(t))
  BY <1>3 DEF Merge
<1>6. s = Stream(t)
  <2>1. s # Stream(t) => stream'[s] = stream[s]
    BY <1>0, <1>5 DEF StreamTypes
  <2>. QED BY <2>1
<1>. DEFINE before == stream[s]
            a == item("merge", t)
            b == item("free", t)
<1>7. before \in Seq(ItemsOf(s)) /\ a \in ItemsOf(s) /\ b \in ItemsOf(s) /\ a.kind = "merge"
  <2>1. before \in Seq(ItemsOf(s))
    BY <1>0 DEF StreamTypes
  <2>2. {"merge", "free"} \subseteq Kinds /\ {"merge", "free"} \cap PcieKinds = {}
    BY DEF Kinds, PcieKinds
  <2>3. a \in ItemsOf(s) /\ b \in ItemsOf(s)
    BY <1>6, <2>2, ItemFacts DEF Types
  <2>. QED BY <2>1, <2>3 DEF item
<1>8. stream'[s] = before \o <<a>> \o tail
  BY <1>0, <1>5, <1>6 DEF StreamTypes
<1>9. tail = <<>> \/ tail = <<b>>
  OBVIOUS
<1>. HIDE DEF before, a, b
<1>. DEFINE n == Len(before)
            after == stream'[s]
<1>10. CASE tail = <<>>
  <2>1. n \in Nat /\ Len(after) = n + 1 /\ after[n + 1] = a
    BY <1>7, <1>8, <1>10
  <2>2. j \notin 1 .. n /\ j \in 1 .. Len(after)
    BY DEF before
  <2>3. j = n + 1
    BY <2>1, <2>2
  <2>. QED BY <1>7, <2>1, <2>3
<1>11. CASE tail = <<b>>
  <2>1. n \in Nat /\ Len(after) = n + 2 /\ after[n + 1] = a
    BY <1>7, <1>8, <1>11
  <2>2. j \notin 1 .. n /\ j \in 1 .. Len(after)
    BY DEF before
  <2>. HIDE DEF n
  <2>3. j = n + 1 \/ j = n + 2
    BY <2>1, <2>2
  <2>4. j = Len(after)
    BY <1>7, <2>1, <2>3
  <2>. QED BY <1>1, <1>2, <1>4, <1>5, <1>6, <1>11, <2>4
<1>. QED BY <1>9, <1>10, <1>11

(* The collective that a host thread gives up has used its buffer nowhere. *)
LEMMA GivenUpSpent ==
  ASSUME Types, Types', InputInv, OverInv, CompletionInv, NEW t \in Threads, HostEffect(t), Unfilled(t),
         Head(todo[t]) = "sync_user", todo'[t] = <<"return">>, pending' = pending, stream' = stream, index' = index,
         NEW c, c = Current(t)
  PROVE  Spent(c, 1)'
<1>0. /\ program' = program /\ SameProgram /\ c \in Colls /\ c[1] = t /\ Call(c)' = Call(c) /\ Stream(t) = Call(c).stream
  BY HostFrame, CurrentFacts DEF Types, Call
<1>1. PICK x \in Contexts, n \in Nat, w \in Seq(StepNames), h \in StepNames : Facing(t, c, x, n, w, h)
  BY FacingFacts DEF HostEffect, Facing
<1>2. w = todo[t] /\ h = "sync_user" /\ h = Head(w) /\ w # <<>> /\ Script(w)
  BY <1>1 DEF Facing
<1>3. Has(w, "sync_user")
  <2>1. 1 \in 1 .. Len(w) /\ h = w[1]
    BY <1>2
  <2>. QED BY <1>2, <2>1 DEF Has
<1>4. Clear(Call(c).stream, c, Fills)
  BY <1>0, <1>2, <1>3 DEF Unfilled, Opens, Early
<1>5. Unrecorded(c)
  <2>1. Used(w)
    BY <1>2, <1>3 DEF Script, Follows, Early, Used
  <2>. QED BY <1>2, <2>1 DEF CompletionInv, Fresh
<1>6. NoFill(Call(c).stream, 1, c)'
  BY <1>0, <1>4 DEF NoFill, Clear, At, Fills
<1>7. Bare(c)'
  BY <1>0, <1>5 DEF Bare, Unrecorded, SameProgram
<1>8. Idle(c)'
  <2>1. Made(c)'
    BY <1>0, MadeGrows DEF InputInv
  <2>2. \A step \in Fills \cup {"alloc", "register"} : ~Has(<<"return">>, step)
    BY DEF Has, Fills
  <2>3. PICK v : v = <<"return">>
    OBVIOUS
  <2>4. Exhausted(v, Call(c).op) /\ v = todo'[c[1]]
    BY <1>0, <2>2, <2>3 DEF Exhausted
  <2>. QED BY <1>0, <2>1, <2>4 DEF Idle, Exhausted, Has, Fills
<1>. QED BY <1>0, <1>6, <1>7, <1>8 DEF Spent

(* A release is queued when nothing else is left to do with the buffer. *)
LEMMA ReleasedSpent ==
  ASSUME Types, Types', InputInv, OverInv, CompletionInv, NEW t \in Threads, HostEffect(t), Merges(t),
         Head(todo[t]) = "merge", todo'[t] = Tail(todo[t]), pending' = pending, index' = index,
         NEW c, c = Current(t), NEW s, s = Stream(t), NEW j \in Nat, j = Len(stream'[s]),
         j \in 1 .. Len(stream'[s]), stream'[s][j].kind = "free"
  PROVE  Spent(c, j)' /\ MergedOnStream(c) /\ Call(c).stream = s
<1>0. /\ program' = program /\ SameProgram /\ c \in Colls /\ c[1] = t /\ Call(c)' = Call(c) /\ s = Call(c).stream
      /\ s \in Streams
  BY HostFrame, CurrentFacts DEF Types, Call
<1>1. PICK x \in Contexts, n \in Nat, w \in Seq(StepNames), h \in StepNames : Facing(t, c, x, n, w, h)
  BY FacingFacts DEF HostEffect, Facing
<1>2. w = todo[t] /\ h = "merge" /\ h = Head(w) /\ w # <<>> /\ Script(w) /\ InOrder(w)
  BY <1>1 DEF Facing
<1>3. Has(w, "merge")
  <2>1. 1 \in 1 .. Len(w) /\ h = w[1]
    BY <1>2
  <2>. QED BY <1>2, <2>1 DEF Has
<1>4. MergedOnStream(c)
  BY <1>2, <1>3 DEF Merges
<1>5. Unrecorded(c)
  <2>1. Used(w)
    BY <1>3 DEF Used, Fills
  <2>. QED BY <1>2, <2>1 DEF CompletionInv, Fresh
<1>6. NoFill(s, j, c)'
  <2>1. Len(stream'[s]) \in Nat
    BY <1>0, QueuedPlaces, HostFrame
  <2>2. \A i \in 1 .. Len(stream'[s]) : i >= j => i = j
    BY <2>1
  <2>. QED BY <2>2 DEF NoFill, At, Fills
<1>7. Bare(c)'
  BY <1>0, <1>5 DEF Bare, Unrecorded, SameProgram
<1>8. Idle(c)'
  <2>1. Made(c)'
    BY <1>0, MadeGrows DEF InputInv
  <2>2. PICK v : v = Tail(w)
    OBVIOUS
  <2>3. ~Has(v, "alloc")
    BY <1>2, <2>2, ScriptTail
  <2>4. ASSUME NEW step \in Fills, Has(v, step) PROVE FALSE
    <3>1. Sorted(w, Filling, {1, 2}) /\ Numbered(Filling)
      BY <1>2, NumberedOrders DEF Script
    <3>2. Filling[h] # 0 /\ Filling[step] # 0 =>
            Filling[h] < Filling[step] \/ (Filling[h] = Filling[step] /\ Filling[step] \in {1, 2})
      BY <1>2, <2>2, <2>4, <3>1, SortedTail
    <3>. QED BY <1>2, <3>2, FillingValues DEF Fills
  <2>5. Exhausted(v, Call(c).op) /\ v = todo'[c[1]]
    BY <1>0, <1>2, <1>4, <2>2, <2>3, <2>4 DEF Exhausted, MergedOnStream
  <2>. QED BY <1>0, <2>1, <2>5 DEF Idle, Exhausted, Has, Fills
<1>. QED BY <1>0, <1>4, <1>6, <1>7, <1>8 DEF Spent

(* A host's step frees only what nothing uses any more. *)
LEMMA HostFreed ==
  ASSUME Types, Types', InputInv, OverInv, CompletionInv, FreedInv, NEW t \in Threads, HostNext(t), HostEffect(t)
  PROVE  FreedInv'
<1>0. /\ program' = program /\ SameProgram /\ \A d : Own(d)' = Own(d) /\ Call(d)' = Call(d)
      /\ Unfilled(t) /\ Merges(t) /\ UserStreams \subseteq Streams /\ Current(t) \in Colls
  BY HostFrame, CurrentFacts DEF Own, Call, FreedInv, Streams, Types
<1>1. ASSUME ~program.acl PROVE FreedSpent'
  <2>. SUFFICES ASSUME NEW b \in freed' PROVE \E c \in Colls : b = Own(c) /\ Spent(c, 1)'
    BY <1>0 DEF FreedSpent, SameProgram, Own
  <2>1. CASE b \in freed
    <3>1. PICK c \in Colls : b = Own(c) /\ Spent(c, 1)
      BY <1>1, <2>1 DEF FreedInv, FreedSpent
    <3>2. PICK j \in Nat : j = 1
      OBVIOUS
    <3>3. Spent(c, j)'
      BY <3>1, <3>2, SpentStays
    <3>. QED BY <3>1, <3>2, <3>3
  <2>2. CASE b \notin freed
    <3>1. PICK c \in Colls : c = Current(t)
      BY <1>0
    <3>2. /\ Head(todo[t]) = "sync_user" /\ todo'[t] = <<"return">> /\ b = Own(c)
          /\ pending' = pending /\ stream' = stream /\ todo[t] # <<>> /\ index' = index
      BY <1>1, <2>2, <3>1, FreedMoves
    <3>3. Spent(c, 1)'
      BY <1>0, <3>1, <3>2, GivenUpSpent
    <3>. QED BY <3>2, <3>3
  <2>. QED BY <2>1, <2>2
<1>2. ASSUME ~program.acl PROVE FreesSpent'
  <2>. SUFFICES ASSUME NEW s \in UserStreams, NEW j \in 1 .. Len(stream'[s]), stream'[s][j].kind = "free"
                PROVE  \E c : /\ c = stream'[s][j].coll /\ Spent(c, j)' /\ Call(c).op = "AllGather"
                              /\ stream'[s][j].buf = Own(c)
    BY <1>0, SMTT(20) DEF FreesSpent, SameProgram, Own, Call
  <2>0. s \in Streams /\ j \in Nat
    BY <1>0
  <2>1. CASE j \in 1 .. Len(stream[s])
    <3>1. stream'[s][j] = stream[s][j]
      BY <2>0, <2>1, QueuedPlaces, HostFrame
    <3>2. PICK c \in Colls : c = stream[s][j].coll
      BY <2>0, <2>1, StreamLengths DEF Types, ItemsOf, Items
    <3>3. Spent(c, j) /\ Call(c).op = "AllGather" /\ stream[s][j].buf = Own(c)
      BY <1>2, <2>1, <3>1, <3>2 DEF FreedInv, FreesSpent
    <3>4. Spent(c, j)'
      BY <2>0, <3>3, SpentStays
    <3>. QED BY <3>1, <3>2, <3>3, <3>4
  <2>2. CASE j \notin 1 .. Len(stream[s])
    <3>1. PICK c \in Colls : c = Current(t)
      BY <1>0
    <3>2. /\ Head(todo[t]) = "merge" /\ todo'[t] = Tail(todo[t]) /\ index' = index /\ pending' = pending
          /\ s = Stream(t) /\ buffer[t] = Own(c) /\ j = Len(stream'[s]) /\ stream'[s][j].coll = c
          /\ stream'[s][j].buf = buffer[t]
      BY <2>0, <2>2, <3>1, NewFree
    <3>3. Spent(c, j)' /\ MergedOnStream(c)
      BY <1>0, <2>0, <3>1, <3>2, ReleasedSpent
    <3>. QED BY <3>2, <3>3 DEF MergedOnStream
  <2>. QED BY <2>1, <2>2
<1>3. ASSUME NEW q \in Threads PROVE Unfilled(q)' /\ Merges(q)'
  BY UnfilledStays, MergesStay DEF FreedInv
<1>. QED BY <1>0, <1>1, <1>2, <1>3 DEF FreedInv, SameProgram

(* What the device gives back *)
Frees(s) ==
  \/ freed' = freed
  \/ Head(stream[s]).kind = "free" /\ freed' = freed \cup {Head(stream[s]).buf}
  \/ head(s, "callback") /\ pending[s] # <<>> /\ freed' \subseteq freed \cup {Own(Head(pending[s]).coll)}

(* What the device and its callbacks give back *)
LEMMA DeviceFrees ==
  ASSUME NEW s \in Streams, DeviceNext(s)
  PROVE  Frees(s) /\ buffer' = buffer
<1>1. CASE WriteToken(s) \/ WaitToken(s) \/ WaitEvent(s) \/ Compute(s) \/ FillBuffer(s) \/ RunPcie(s)
  BY <1>1 DEF WriteToken, WaitToken, WaitEvent, Compute, FillBuffer, RunPcie, DeviceStep, host, Frees
<1>2. CASE FreeAsync(s)
  BY <1>2 DEF FreeAsync, head, DeviceStep, host, Frees
<1>3. CASE HostCompletion(s)
  <2>1. buffer' = buffer /\ head(s, "callback")
    BY <1>3 DEF HostCompletion, host
  <2>2. CASE pending[s] = <<>>
    BY <1>3, <2>1, <2>2 DEF HostCompletion, Frees
  <2>3. CASE pending[s] # <<>>
    <3>1. freed' = IF Head(pending[s]).tmp = Own(Head(pending[s]).coll) THEN freed \cup {Head(pending[s]).tmp} ELSE freed
      BY <1>3, <2>3 DEF HostCompletion
    <3>. QED BY <2>1, <2>3, <3>1 DEF Frees
  <2>. QED BY <2>2, <2>3
<1>. QED BY <1>1, <1>2, <1>3 DEF DeviceNext

(* The records that stay were there before. *)
LEMMA RecordMoved ==
  ASSUME NEW q, NEW s, NEW d, NEW e, Passed(q, s, d, e)
  PROVE  \A l \in 1 .. Len(pending'[q]) :
           l \in Nat \ {0} /\ l + e \in 1 .. Len(pending[q]) /\ pending'[q][l] = pending[q][l + e]
<1>1. PICK m, n : m \in Nat /\ m = Len(pending'[q]) /\ n = Len(pending[q]) /\ m + e = n /\ e \in 0 .. 1
  BY DEF Passed
<1>2. \A l \in 1 .. m : pending'[q][l] = pending[q][l + e]
  BY <1>1 DEF Passed
<1>3. \A l \in 1 .. m : l \in Nat \ {0} /\ l + e \in 1 .. n
  BY <1>1
<1>. QED BY <1>1, <1>2, <1>3

(* The device brings a spent buffer no user. *)
LEMMA SpentShifts ==
  ASSUME Types, CompletionInv, NEW s \in Streams, Executes(s), Collects(s), NEW c \in Colls,
         NEW q, q = Call(c).stream, NEW d, Moved(q, s, d), NEW j \in Nat, NEW i \in Nat, i <= j + d, Spent(c, i)
  PROVE  Spent(c, j)'
<1>0. /\ Call(c)' = Call(c) /\ q \in Streams /\ UserStreams' = UserStreams /\ todo' = todo /\ index' = index
      /\ d \in 0 .. 1
  <2>1. program' = program /\ todo' = todo /\ index' = index /\ d \in 0 .. 1
    BY DEF Executes, Moved
  <2>2. q \in Streams
    BY CollFacts DEF Types, ThreadTypes
  <2>. QED BY <2>1, <2>2 DEF Call, UserStreams, Threads
<1>1. NoFill(q, j, c)'
  <2>. SUFFICES ASSUME NEW k \in 1 .. Len(stream'[q]), k >= j, stream'[q][k].coll = c, stream'[q][k].kind \in Fills
                PROVE  FALSE
    BY DEF NoFill, At, Fills
  <2>1. k + d \in 1 .. Len(stream[q]) /\ stream'[q][k] = stream[q][k + d]
    BY DEF Moved
  <2>2. k + d >= i
    BY <1>0
  <2>. QED BY <2>1, <2>2 DEF Spent, NoFill, At
<1>2. Bare(c)'
  <2>. SUFFICES ASSUME NEW r \in UserStreams, NEW k \in 1 .. Len(pending'[r]), pending'[r][k].coll = c
                PROVE  pending'[r][k].tmp = None
    BY <1>0 DEF Bare, None
  <2>1. PICK b, e \in 0 .. 1 : Passed(r, s, b, e)
    BY RecordsPass DEF CompletionInv
  <2>2. PICK l \in 1 .. Len(pending[r]) : pending'[r][k] = pending[r][l]
    <3>1. k + e \in 1 .. Len(pending[r]) /\ pending'[r][k] = pending[r][k + e]
      BY <2>1, RecordMoved
    <3>. QED BY <3>1
  <2>. QED BY <2>2 DEF Spent, Bare
<1>3. Idle(c)'
  BY <1>0 DEF Spent, Idle, Made, Calling, Exhausted, Has, Fills
<1>. QED BY <1>0, <1>1, <1>2, <1>3 DEF Spent, NoFill, At, Fills

(* The last user of the buffer of a collective without a merge on its      *)
(* stream is its callback.                                                 *)
LEMMA CollectedSpent ==
  ASSUME RecordedInv, OwnInv, NEW s \in UserStreams, head(s, "callback"), Executes(s), Collects(s),
         NEW c, c = Head(pending[s]).coll
  PROVE  Spent(c, 1)' /\ c \in Colls
<1>0. Types /\ CompletionInv /\ InputInv /\ OverInv /\ s \in Streams
  BY DEF RecordedInv, StreamsInv, Streams
<1>1. /\ pending[s] # <<>> /\ c \in Colls /\ Call(c).stream = s /\ Head(pending[s]) = pending[s][1]
      /\ Behind(s, 1, c)
  BY FirstRecord DEF Records, RecordInv
<1>2. /\ Call(c)' = Call(c) /\ UserStreams' = UserStreams /\ todo' = todo /\ index' = index /\ c[1] \in Threads
      /\ c = <<c[1], c[2]>>
  <2>1. program' = program /\ todo' = todo /\ index' = index
    BY DEF Executes
  <2>2. c[1] \in Threads /\ c = <<c[1], c[2]>>
    BY <1>0, <1>1, CollFacts DEF Types, ThreadTypes
  <2>. QED BY <2>1, <2>2 DEF Call, UserStreams, Threads
<1>3. PICK d, e \in 0 .. 1 : Passed(s, s, d, e)
  BY <1>0, RecordsPass DEF CompletionInv
<1>4. d = 1 /\ e = 1
  BY <1>3 DEF Passed, head, IsCall
<1>5. NoFill(s, 1, c)'
  <2>. SUFFICES ASSUME NEW k \in 1 .. Len(stream'[s]), stream'[s][k].coll = c, stream'[s][k].kind \in Fills
                PROVE  FALSE
    BY DEF NoFill, At, Fills
  <2>1. k + 1 \in 1 .. Len(stream[s]) /\ stream'[s][k] = stream[s][k + 1]
    BY <1>3, <1>4 DEF Passed, Moved
  <2>. QED BY <1>1, <2>1 DEF Behind, At
<1>6. 1 \in 1 .. Len(pending[s]) /\ pending[s][1].coll = c
  <2>1. Len(pending[s]) \in Nat /\ Len(pending'[s]) \in Nat /\ Len(pending'[s]) + 1 = Len(pending[s])
    BY <1>3, <1>4 DEF Passed
  <2>. QED BY <1>1, <2>1
<1>7. Bare(c)'
  <2>. SUFFICES ASSUME NEW r \in UserStreams, NEW k \in 1 .. Len(pending'[r]), pending'[r][k].coll = c
                PROVE  FALSE
    BY <1>2 DEF Bare, None
  <2>1. PICK a, b \in 0 .. 1 : Passed(r, s, a, b)
    BY <1>0, RecordsPass DEF CompletionInv
  <2>2. k + b \in 1 .. Len(pending[r]) /\ pending'[r][k] = pending[r][k + b] /\ k \in Nat \ {0}
    BY <2>1, RecordMoved
  <2>3. pending[r][k + b] \in Records(r)
    BY <1>0, <2>2 DEF Types, StreamTypes
  <2>4. r = s
    BY <1>1, <2>2, <2>3 DEF Records
  <2>5. b = 1
    BY <2>1, <2>4 DEF Passed, head, IsCall
  <2>6. PICK l \in 1 .. Len(pending[s]) : l # 1 /\ pending[s][l].coll = c
    BY <2>2, <2>4, <2>5
  <2>. QED BY <1>6, <2>6 DEF OwnInv, OneRecord
<1>8. Idle(c)'
  <2>1. Made(c)
    BY <1>0, <1>6 DEF CompletionInv, RecordsMade
  <2>2. PICK w \in Seq(StepNames) : w = todo[c[1]]
    BY <1>0, <1>2 DEF Types, ThreadTypes
  <2>3. ASSUME c[2] = index[c[1]] PROVE Exhausted(w, Call(c).op)
    <3>1. c = Current(c[1])
      BY <1>2, <2>3 DEF Current
    <3>2. ~Unrecorded(c)
      BY <1>6 DEF Unrecorded
    <3>3. ~Used(w)
      BY <1>0, <1>2, <2>2, <3>1, <3>2 DEF CompletionInv, Fresh
    <3>4. Script(w)
      BY <1>0, <1>2, <2>2 DEF OverInv, EndingInv
    <3>. QED BY <3>3, <3>4 DEF Exhausted, Used, Script, Follows, Fills
  <2>. QED BY <1>2, <2>1, <2>2, <2>3 DEF Idle, Made, Calling, Exhausted, Has, Fills
<1>. QED BY <1>1, <1>2, <1>5, <1>7, <1>8 DEF Spent, NoFill, At, Fills

(* A device's step frees only what nothing uses any more. *)
LEMMA DeviceFreed ==
  ASSUME RecordedInv, RecordedInv', OwnInv, FreedInv, NEW s \in Streams, Executes(s), Collects(s), Frees(s)
  PROVE  FreedInv'
<1>0. /\ Types /\ CompletionInv /\ program' = program /\ todo' = todo /\ index' = index /\ stream[s] # <<>>
      /\ Streams' = Streams /\ UserStreams' = UserStreams /\ Threads' = Threads /\ Colls' = Colls
      /\ \A t : Current(t)' = Current(t) /\ Stream(t)' = Stream(t)
      /\ \A d : Own(d)' = Own(d) /\ Call(d)' = Call(d)
  <2>1. program' = program /\ todo' = todo /\ index' = index /\ stream[s] # <<>>
    BY DEF Executes
  <2>2. Types /\ CompletionInv
    BY DEF RecordedInv, StreamsInv
  <2>. QED BY <2>1, <2>2 DEF Streams, UserStreams, Threads, Colls, PcieStream, Current, Stream, Own, Call
<1>1. ASSUME NEW c \in Colls, Spent(c, 1) PROVE Spent(c, 1)'
  <2>1. PICK q : q = Call(c).stream /\ q \in Streams
    BY <1>0, CollFacts DEF Types, ThreadTypes
  <2>2. PICK d \in 0 .. 1 : Moved(q, s, d)
    BY <1>0, <2>1, ExecutedPlaces DEF Types
  <2>3. PICK j \in Nat : j = 1 /\ j <= j + d
    BY <2>2
  <2>4. Spent(c, j)'
    BY <1>0, <1>1, <2>1, <2>2, <2>3, SpentShifts
  <2>. QED BY <2>3, <2>4
<1>2. ASSUME ~program.acl PROVE FreedSpent'
  <2>. SUFFICES ASSUME NEW b \in freed' PROVE \E c \in Colls : b = Own(c) /\ Spent(c, 1)'
    BY <1>0 DEF FreedSpent, Own
  <2>1. CASE b \in freed
    <3>1. PICK c \in Colls : b = Own(c) /\ Spent(c, 1)
      BY <1>2, <2>1 DEF FreedInv, FreedSpent
    <3>. QED BY <1>1, <3>1
  <2>2. CASE b \notin freed /\ Head(stream[s]).kind = "free"
    <3>1. 1 \in 1 .. Len(stream[s]) /\ stream[s][1] = Head(stream[s]) /\ Head(stream[s]) \in ItemsOf(s)
      BY <1>0, HeadItem
    <3>2. PICK c \in Colls : c = Head(stream[s]).coll /\ s = Call(c).stream
      BY <2>2, <3>1 DEF ItemsOf, Items, Place, PcieKinds
    <3>3. s \in UserStreams
      BY <1>0, <3>2, CollFacts DEF Types, ThreadTypes
    <3>4. Spent(c, 1) /\ Head(stream[s]).buf = Own(c)
      BY <1>2, <2>2, <3>1, <3>2, <3>3 DEF FreedInv, FreesSpent
    <3>5. b = Own(c)
      BY <2>2, <3>4 DEF Frees, head
    <3>. QED BY <1>1, <3>4, <3>5
  <2>3. CASE b \notin freed /\ Head(stream[s]).kind # "free"
    <3>1. head(s, "callback") /\ pending[s] # <<>> /\ b = Own(Head(pending[s]).coll)
      BY <2>3 DEF Frees
    <3>2. s \in UserStreams
      <4>1. Head(stream[s]) \in ItemsOf(s) /\ Head(stream[s]).coll \in Colls
        BY <1>0, HeadItem
      <4>2. s = Call(Head(stream[s]).coll).stream
        BY <3>1, <4>1 DEF ItemsOf, Place, PcieKinds, head
      <4>. QED BY <1>0, <4>1, <4>2, CollFacts DEF Types, ThreadTypes
    <3>3. PICK c : c = Head(pending[s]).coll
      OBVIOUS
    <3>4. Spent(c, 1)' /\ c \in Colls
      BY <3>1, <3>2, <3>3, CollectedSpent
    <3>. QED BY <3>1, <3>3, <3>4
  <2>. QED BY <2>1, <2>2, <2>3
<1>3. ASSUME ~program.acl PROVE FreesSpent'
  <2>. SUFFICES ASSUME NEW q \in UserStreams, NEW j \in 1 .. Len(stream'[q]), stream'[q][j].kind = "free"
                PROVE  \E c : /\ c = stream'[q][j].coll /\ Spent(c, j)' /\ Call(c).op = "AllGather"
                              /\ stream'[q][j].buf = Own(c)
    BY <1>0, SMTT(20) DEF FreesSpent, Own, Call
  <2>0. q \in Streams /\ j \in Nat
    BY DEF Streams
  <2>1. PICK d \in 0 .. 1 : Moved(q, s, d)
    BY <1>0, <2>0, ExecutedPlaces DEF Types
  <2>2. PICK i \in 1 .. Len(stream[q]) : i = j + d /\ stream'[q][j] = stream[q][i]
    BY <2>1 DEF Moved
  <2>3. PICK c \in Colls : c = stream[q][i].coll /\ q = Call(c).stream
    <3>1. stream[q][i] \in ItemsOf(q)
      BY <1>0, <2>0, StreamLengths DEF Types
    <3>. QED BY <2>2, <3>1 DEF ItemsOf, Items, Place, PcieKinds
  <2>4. Spent(c, i) /\ Call(c).op = "AllGather" /\ stream[q][i].buf = Own(c)
    BY <1>3, <2>2, <2>3 DEF FreedInv, FreesSpent
  <2>5. i \in Nat /\ i <= j + d
    BY <2>0, <2>1, <2>2
  <2>6. Spent(c, j)'
    BY <1>0, <2>0, <2>1, <2>3, <2>4, <2>5, SpentShifts
  <2>. QED BY <2>2, <2>3, <2>4, <2>6
<1>4. ASSUME NEW t \in Threads PROVE Unfilled(t)' /\ Merges(t)'
  <2>1. Merges(t)'
    BY <1>0 DEF FreedInv, Merges, Has, MergedOnStream
  <2>2. PICK c, q : c = Current(t) /\ q = Stream(t) /\ q \in Streams
    BY <1>0, CurrentFacts DEF Types
  <2>3. PICK d \in 0 .. 1 : Moved(q, s, d)
    BY <1>0, <2>2, ExecutedPlaces DEF Types
  <2>4. Opens(todo[t]) => Clear(q, c, Fills)
    BY <2>2 DEF FreedInv, Unfilled
  <2>5. ASSUME Clear(q, c, Fills) PROVE Clear(q, c, Fills)'
    <3>. SUFFICES ASSUME NEW k \in 1 .. Len(stream'[q]), stream'[q][k].coll = c, stream'[q][k].kind \in Fills
                  PROVE  FALSE
      BY DEF Clear, At, Fills
    <3>1. PICK i \in 1 .. Len(stream[q]) : stream'[q][k] = stream[q][i]
      BY <2>3 DEF Moved
    <3>. QED BY <2>5, <3>1 DEF Clear, At
  <2>6. Unfilled(t)'
    BY <1>0, <2>2, <2>4, <2>5 DEF Unfilled, Opens, Has, Clear, At, Early, Fills
  <2>. QED BY <2>1, <2>6
<1>. QED BY <1>0, <1>2, <1>3, <1>4 DEF FreedInv

(* Nothing was given back at first. *)
LEMMA FreedInit ==
  ASSUME Init
  PROVE  OwnInv /\ FreedInv
<1>1. /\ \A s \in Streams : stream[s] = <<>> /\ Len(stream[s]) = 0
      /\ \A s \in UserStreams : pending[s] = <<>> /\ Len(pending[s]) = 0
      /\ \A t \in Threads : todo[t] = <<"call">> /\ buffer[t] = None
      /\ freed = {} /\ UserStreams \subseteq Streams
  BY DEF Init, Streams
<1>2. \A step : Has(<<"call">>, step) => step = "call"
  BY DEF Has
<1>3. OwnInv
  BY <1>1 DEF OwnInv, OwnItems, OwnRecords, OwnBuffers, OneRecord, BufOf
<1>4. FreedSpent /\ FreesSpent
  BY <1>1 DEF FreedSpent, FreesSpent
<1>5. \A t \in Threads : Unfilled(t) /\ Merges(t)
  BY <1>1, <1>2 DEF Unfilled, Merges, Opens, Early
<1>. QED BY <1>3, <1>4, <1>5 DEF FreedInv

(* Nothing gives back a buffer but a step. *)
LEMMA FreedStutter ==
  ASSUME OwnInv, FreedInv, UNCHANGED vars
  PROVE  OwnInv' /\ FreedInv'
<1>0. UNCHANGED <<program, todo, index, stream, pending, buffer, freed>>
  BY DEF vars, host
<1>1. /\ Streams' = Streams /\ UserStreams' = UserStreams /\ Threads' = Threads /\ Colls' = Colls
      /\ \A t : Current(t)' = Current(t) /\ Stream(t)' = Stream(t) /\ Pool(t)' = Pool(t)
      /\ \A d : Own(d)' = Own(d) /\ Call(d)' = Call(d)
  BY <1>0 DEF Streams, UserStreams, Threads, Colls, PcieStream, Current, Stream, Own, Call, Pool
<1>2. \A d : BufOf(d)' = BufOf(d)
  BY <1>1 DEF BufOf, None
<1>3. OwnInv'
  BY <1>0, <1>1, <1>2 DEF OwnInv, OwnItems, OwnRecords, OwnBuffers, OneRecord, BufOf, None
<1>4. \A d, j : Spent(d, j)' <=> Spent(d, j)
  BY <1>0, <1>1 DEF Spent, NoFill, Bare, Idle, Made, Calling, Exhausted, Has, At, Fills, None
<1>5. (FreedSpent' <=> FreedSpent) /\ (FreesSpent' <=> FreesSpent)
  BY <1>0, <1>1, <1>4 DEF FreedSpent, FreesSpent
<1>6. \A t \in Threads : (Unfilled(t)' <=> Unfilled(t)) /\ (Merges(t)' <=> Merges(t))
  BY <1>0, <1>1 DEF Unfilled, Merges, Opens, Has, Clear, At, Early, Fills, MergedOnStream
<1>. QED BY <1>0, <1>1, <1>3, <1>5, <1>6 DEF FreedInv

BufferInv == TimingInv /\ OwnInv /\ FreedInv

(* The buffers are right at first. *)
LEMMA BufferInit == Init => BufferInv
BY TimingInit, FreedInit DEF BufferInv

(* Every step keeps the buffers right. *)
LEMMA BufferStay ==
  ASSUME BufferInv, [Next]_vars
  PROVE  BufferInv'
<1>0. /\ TimingInv' /\ RecordedInv /\ RecordedInv' /\ Types' /\ Types /\ InputInv /\ OverInv /\ CompletionInv
      /\ OwnInv /\ FreedInv
  BY TimingStay DEF BufferInv, TimingInv, OrderedInv, RecordedInv, StreamsInv
<1>1. ASSUME NEW t \in Threads, HostNext(t) PROVE OwnInv' /\ FreedInv'
  BY <1>0, <1>1, EffectOfHost, OwnStays, HostFreed
<1>2. ASSUME NEW s \in Streams, DeviceNext(s) PROVE OwnInv' /\ FreedInv'
  BY <1>0, <1>2, DeviceEnds, DeviceCollects, DeviceFrees, DeviceOwn, DeviceFreed
<1>3. CASE UNCHANGED vars
  BY <1>0, <1>3, FreedStutter DEF BufferInv
<1>. QED BY <1>0, <1>1, <1>2, <1>3 DEF Next, Work, BufferInv

(* Buffers of different collectives are different, and none is the shared. *)
LEMMA OwnApart ==
  ASSUME NEW c, NEW d, Own(c) \in BufOf(d)
  PROVE  c = d /\ Own(c) # None
BY DEF BufOf, Own, None, Pool

(* No buffer is given back while something queued or registered uses it:   *)
(* what is freed in stream order is freed behind its last user, what a     *)
(* callback frees has no other, and a collective that is given up when the *)
(* host cannot wait for its stream has queued none                         *)
(* (EnqueueSegmentedMergeOnStream, OnStreamSynchronized and the error path *)
(* of PcieWaitForUserInputIfNeeded).                                       *)
THEOREM BuffersStayLive == Spec => []BuffersLive
<1>1. BufferInv => BuffersLive
  <2>. SUFFICES ASSUME BufferInv, ~program.acl PROVE BuffersLive
    BY DEF BuffersLive
  <2>0. Types /\ OwnInv /\ FreedSpent
    BY DEF BufferInv, TimingInv, OrderedInv, RecordedInv, StreamsInv, FreedInv
  <2>1. ASSUME NEW s \in Streams, NEW k \in DOMAIN stream[s], stream[s][k].kind \in {"pack", "fast", "merge"},
               stream[s][k].buf \in freed
        PROVE  FALSE
    <3>1. k \in 1 .. Len(stream[s]) /\ stream[s][k] \in ItemsOf(s)
      BY <2>0, StreamLengths DEF Types, StreamTypes
    <3>2. PICK c \in Colls : stream[s][k].buf = Own(c) /\ Spent(c, 1)
      BY <2>0, <2>1 DEF FreedSpent
    <3>3. Own(c) \in BufOf(stream[s][k].coll)
      BY <2>0, <3>1, <3>2 DEF OwnInv, OwnItems
    <3>4. c = stream[s][k].coll
      BY <3>3, OwnApart
    <3>5. s = Call(c).stream
      BY <2>1, <3>1, <3>4 DEF ItemsOf, Place, PcieKinds
    <3>6. NoFill(s, 1, c)
      BY <3>2, <3>5 DEF Spent
    <3>7. k >= 1 /\ At(s, k, c, Fills)
      BY <2>1, <3>1, <3>4 DEF At, Fills
    <3>. QED BY <3>1, <3>6, <3>7 DEF NoFill
  <2>2. ASSUME NEW s \in UserStreams, NEW k \in DOMAIN pending[s], pending[s][k].tmp \in freed
        PROVE  FALSE
    <3>1. k \in 1 .. Len(pending[s])
      <4>1. pending[s] \in Seq(Records(s))
        BY <2>0 DEF Types, StreamTypes
      <4>. QED BY <2>2, <4>1
    <3>2. PICK c \in Colls : pending[s][k].tmp = Own(c) /\ Spent(c, 1)
      BY <2>0, <2>2 DEF FreedSpent
    <3>3. Own(c) \in BufOf(pending[s][k].coll)
      BY <2>0, <3>1, <3>2 DEF OwnInv, OwnRecords
    <3>4. c = pending[s][k].coll /\ Own(c) # None
      BY <3>3, OwnApart
    <3>. QED BY <3>1, <3>2, <3>4 DEF Spent, Bare
  <2>. QED BY <2>1, <2>2 DEF BuffersLive
<1>. QED BY <1>1, BufferInit, BufferStay, PTL DEF Spec

-----------------------------------------------------------------------------
(* The pre-allocated staging buffer *)

Writers == {"pack", "fast"}

(* The device has written, or will have at place i of stream s, what       *)
(* collective c stages into the buffer of communicator d; and the writes   *)
(* from there to place j are its own.                                      *)
Writes(s, i, c, d) ==
  IF i = 0 THEN holder[d] = c ELSE At(s, i, c, {"fast"}) /\ stream[s][i].buf = <<"pool", d>>
OnlyBy(s, i, j, c) ==
  \A k \in 1 .. Len(stream[s]) : i < k /\ k < j /\ stream[s][k].kind \in Writers => stream[s][k].coll = c
Filled(s, j, c, d) == \E i \in 0 .. Len(stream[s]) : i < j /\ Writes(s, i, c, d) /\ OnlyBy(s, i, j, c)

(* At place j of stream s, buffer b holds what collective c staged. *)
Staged(s, j, b, c) == \A d \in Domains : b = <<"pool", d>> => Filled(s, j, c, d)

(* A copy out of the buffer that is queued, or that a queued callback does *)
StagedItem(s, j) ==
  /\ stream[s][j].kind = "merge" => Staged(s, j, stream[s][j].buf, stream[s][j].coll)
  /\ IsCall(stream[s][j]) => LET r == pending[s][Calls(stream[s], j)] IN Staged(s, j, r.tmp, r.coll)

(* A record whose callback is still to be queued *)
StagedRecords(s) ==
  \A k \in 1 .. Len(pending[s]) : k > Calls(stream[s], Len(stream[s])) =>
    Staged(s, Len(stream[s]) + 1, pending[s][k].tmp, pending[s][k].coll)

(* A thread whose copy is still to be queued, behind the part it copies *)
Copies(w)     == ~Has(w, "fast") /\ (Has(w, "merge") \/ Has(w, "callback"))
StagedLeft(t) == Copies(todo[t]) => Staged(Stream(t), Len(stream[Stream(t)]) + 1, buffer[t], Current(t))

NoBuffer(t) == Calling(todo[t]) => buffer[t] = None
HolderType  == holder \in [Domains -> Colls \cup {Nobody}]
StagedInv ==
  /\ \A s \in UserStreams : StagedRecords(s) /\ \A j \in 1 .. Len(stream[s]) : StagedItem(s, j)
  /\ \A t \in Threads : StagedLeft(t)
ScratchInv ==
  /\ HolderType /\ \A t \in Threads : NoBuffer(t)
  /\ OneStream /\ OneThread => StagedInv

(* A thread has no buffer between its collectives. *)
LEMMA BareCalls ==
  ASSUME Types, Types', InputInv, OverInv, NEW t \in Threads, HostNext(t), HostEffect(t), NEW q \in Threads, NoBuffer(q)
  PROVE  NoBuffer(q)'
<1>1. CASE q # t
  <2>1. todo'[q] = todo[q] /\ buffer'[q] = buffer[q]
    BY <1>1, HostFrame, BufferMoves
  <2>. QED BY <2>1 DEF NoBuffer, Calling
<1>2. CASE q = t
  <2>1. PICK c \in Colls, x \in Contexts, n \in Nat, w \in Seq(StepNames), h \in StepNames : Facing(t, c, x, n, w, h)
    BY FacingFacts DEF HostEffect
  <2>2. PICK v : v = todo'[t]
    OBVIOUS
  <2>3. h = Head(w) /\ w = todo[t] /\ Leaves(t, c, w, v, h) /\ w # <<>> /\ InOrder(w) /\ (Has(w, "call") => h = "call")
    BY <2>1, <2>2, StepLeaves DEF Facing, Calling
  <2>4. v \in Seq(StepNames)
    BY <2>2 DEF HostEffect, HostShape, Types, ThreadTypes
  <2>5. ASSUME Calling(v) PROVE h \in {"call", "return"}
    <3>1. Has(v, "call")
      <4>1. 1 \in 1 .. Len(v) /\ v[1] = "call"
        BY <2>4, <2>5 DEF Calling
      <4>. QED BY <4>1 DEF Has
    <3>2. \A a : Has(Tail(w), a) => Has(w, a)
      BY <2>3, TailInOrder
    <3>. QED BY <2>3, <3>1, <3>2, ZenonT(30) DEF Leaves, Reporting
  <2>6. CASE h = "return"
    <3>1. buffer'[t] = None
      BY <2>3, <2>6, BufferMoves
    <3>. QED BY <1>2, <3>1 DEF NoBuffer, None
  <2>7. CASE h = "call"
    <3>1. Calling(w)
      BY <2>3, <2>7 DEF Calling
    <3>2. buffer'[t] = buffer[t]
      BY <2>3, <2>7, BufferMoves
    <3>. QED BY <1>2, <2>3, <3>1, <3>2 DEF NoBuffer, None
  <2>8. CASE h \notin {"call", "return"}
    BY <1>2, <2>2, <2>5, <2>8 DEF NoBuffer, Calling
  <2>. QED BY <2>6, <2>7, <2>8
<1>. QED BY <1>1, <1>2

(* A thread is left with a copy to queue after it has queued the part that *)
(* is copied, when it begins a collective, or if it was so before.         *)
LEMMA CopiesBefore ==
  ASSUME Types, Types', NEW t \in Threads, HostNext(t), HostEffect(t),
         NEW c \in Colls, NEW x \in Contexts, NEW n \in Nat, NEW w \in Seq(StepNames), NEW h \in StepNames,
         Facing(t, c, x, n, w, h), NEW v, v = todo'[t], Copies(v)
  PROVE  /\ Current(t)' = c
         /\ \/ h = "fast" /\ Adds(t, "fast") /\ buffer'[t] = buffer[t]
            \/ h = "call" /\ buffer'[t] = buffer[t]
            \/ h \notin {"fast", "call"} /\ Copies(w) /\ buffer'[t] = buffer[t]
            \/ buffer'[t] = None
<1>0. /\ w = todo[t] /\ h = Head(w) /\ w # <<>> /\ Script(w) /\ InOrder(w) /\ Moves(t, w) /\ ThreadTypes
      /\ Leaves(t, c, w, v, h)
  BY StepLeaves DEF Facing, HostEffect, HostShape, Types
<1>1. Has(v, "merge") \/ Has(v, "callback")
  BY DEF Copies
<1>2. v # <<"call">>
  BY <1>1 DEF Has
<1>3. Current(t)' = c
  BY <1>0, <1>2 DEF Leaves
<1>4. h # "alloc" /\ h # "return" => buffer'[t] = buffer[t]
  BY <1>0, BufferMoves
<1>5. h = "return" => buffer'[t] = None
  BY <1>0, BufferMoves
<1>6. CASE h = "call"
  BY <1>3, <1>4, <1>6
<1>7. CASE h = "return"
  BY <1>3, <1>5, <1>7
<1>8. CASE h = "alloc"
  <2>1. Has(w, "fast")
    <3>1. 1 \in 1 .. Len(w) /\ w[1] = h
      BY <1>0
    <3>2. Has(w, "alloc")
      BY <1>8, <3>1 DEF Has
    <3>. QED BY <1>0, <3>2 DEF Script, Follows
  <2>2. Advance(t, w) \/ CutsShort(t, w)
    BY <1>0, <1>8 DEF Moves, FallsBack, Fallback, StartsCall, GoesOn
  <2>3. CASE Advance(t, w)
    <3>1. v = Tail(w)
      BY <1>0, <2>3 DEF Advance, next, ThreadTypes
    <3>. QED BY <1>0, <1>8, <2>1, <3>1, TailInOrder DEF Copies
  <2>4. CASE CutsShort(t, w)
    <3>1. v = <<"fast">> \o Notify \o <<"return">>
      BY <1>0, <1>8, <2>4 DEF CutsShort, ThreadTypes
    <3>. QED BY <3>1, ShortStarts DEF Copies
  <2>. QED BY <2>2, <2>3, <2>4
<1>9. CASE h = "fast"
  <2>1. Advance(t, w)
    BY <1>0, <1>9 DEF Moves, FallsBack, Fallback, StartsCall, GoesOn, CutsShort
  <2>2. \E kind \in QueuedBy(h) : Adds(t, kind)
    BY <1>0, <1>9, <2>1 DEF Advance
  <2>3. Adds(t, "fast")
    BY <1>9, <2>2, QueuedByValues
  <2>. QED BY <1>3, <1>4, <1>9, <2>3
<1>10. CASE h \notin {"fast", "call", "alloc", "return"}
  <2>1. CASE Advance(t, w)
    <3>1. v = Tail(w)
      BY <1>0, <2>1 DEF Advance, next, ThreadTypes
    <3>2. /\ \A a : Has(v, a) => Has(w, a)
          /\ Has(w, "fast") => Has(v, "fast")
      BY <1>0, <1>10, <3>1, TailInOrder
    <3>. QED BY <1>3, <1>4, <1>10, <3>2 DEF Copies
  <2>2. CASE FallsBack(t, w)
    <3>1. PICK step, k : Fallback(w, step, k) /\ Instead(t, step, k)
      BY <2>2 DEF FallsBack
    <3>2. v = <<step>> \o SubSeq(w, 1 + k, Len(w)) /\ step \in {"sync_user", "event"}
      BY <1>0, <3>1 DEF Instead, ThreadTypes, Fallback
    <3>3. /\ \A a : Has(v, a) /\ a # step => Has(w, a)
          /\ \A a : Has(w, a) /\ a \notin {"input", "input_wait", "write_done", "wait_done"} => Has(v, a)
      BY <1>0, <3>1, <3>2, ScriptFallback
    <3>. QED BY <1>3, <1>4, <1>10, <3>2, <3>3 DEF Copies
  <2>3. CASE CutsShort(t, w)
    <3>1. v = <<"return">>
      BY <1>0, <1>10, <2>3 DEF CutsShort, ThreadTypes
    <3>. QED BY <1>1, <3>1 DEF Has
  <2>. QED BY <1>0, <1>10, <2>1, <2>2, <2>3 DEF Moves, StartsCall, GoesOn
<1>. QED BY <1>6, <1>7, <1>8, <1>9, <1>10

(* What a buffer holds at a place stays when more is queued behind, and    *)
(* what the thread itself queues does not overwrite it.                    *)
LEMMA FilledStays ==
  ASSUME Types, Types', NEW t \in Threads, HostEffect(t), NEW s \in UserStreams,
         NEW j \in Nat, j <= Len(stream[s]) + 1, NEW i \in Nat, j <= i, NEW c, NEW d, Filled(s, j, c, d),
         i = j \/ (c = Current(t) /\ j = Len(stream[s]) + 1)
  PROVE  Filled(s, i, c, d)'
<1>0. /\ program' = program /\ Extended(t, QueuedBy(Head(todo[t]))) /\ s \in Streams /\ holder' = holder
  BY HostFrame DEF HostEffect, Streams
<1>1. PICK m \in Nat, l \in Nat : m = Len(stream[s]) /\ l = Len(stream'[s])
  BY <1>0, QueuedPlaces
<1>2. PICK q, r : q = stream[s] /\ r = stream'[s]
  OBVIOUS
<1>3. /\ m <= l
      /\ \A k \in 1 .. m : r[k] = q[k]
      /\ \A k \in 1 .. l : k \in 1 .. m \/ (k > m /\ r[k].coll = Current(t))
  BY <1>0, <1>1, <1>2, QueuedPlaces
<1>4. PICK a \in 0 .. m : a < j /\ Writes(s, a, c, d) /\ OnlyBy(s, a, j, c)
  BY <1>1 DEF Filled
<1>5. a \in 0 .. l /\ a < i
  BY <1>3, <1>4
<1>6. Writes(s, a, c, d)'
  <2>1. CASE a = 0
    BY <1>0, <1>4, <2>1 DEF Writes
  <2>2. CASE a # 0
    <3>1. r[a] = q[a]
      BY <1>3, <1>4, <2>2
    <3>2. q[a].coll = c /\ q[a].kind \in {"fast"} /\ q[a].buf = <<"pool", d>>
      BY <1>2, <1>4, <2>2 DEF Writes, At
    <3>. QED BY <1>2, <2>2, <3>1, <3>2 DEF Writes, At
  <2>. QED BY <2>1, <2>2
<1>7. OnlyBy(s, a, i, c)'
  <2>. SUFFICES ASSUME NEW k \in 1 .. l, a < k, k < i, r[k].kind \in Writers PROVE r[k].coll = c
    BY <1>1, <1>2 DEF OnlyBy, Writers
  <2>1. CASE k \in 1 .. m /\ k < j
    BY <1>1, <1>2, <1>3, <1>4, <2>1 DEF OnlyBy
  <2>2. CASE k \in 1 .. m /\ ~(k < j)
    BY <1>1, <2>2
  <2>3. CASE k \notin 1 .. m
    <3>1. k > m /\ r[k].coll = Current(t)
      BY <1>3, <2>3
    <3>. QED BY <1>1, <3>1
  <2>. QED BY <2>1, <2>2, <2>3
<1>. QED BY <1>1, <1>5, <1>6, <1>7 DEF Filled

(* Behind the fast part of a collective the buffer holds what it staged. *)
LEMMA FilledNow ==
  ASSUME Types, Types', NEW t \in Threads, HostEffect(t), Adds(t, "fast"), NEW s, s = Stream(t), NEW c, c = Current(t),
         NEW d, buffer[t] = <<"pool", d>>, NEW m \in Nat, m = Len(stream'[s]) + 1
  PROVE  Filled(s, m, c, d)'
<1>1. /\ Len(stream[s]) \in Nat /\ Len(stream'[s]) = Len(stream[s]) + 1
      /\ stream'[s][Len(stream[s]) + 1] = item("fast", t)
  BY DEF Adds, PcieKinds
<1>2. PICK l \in Nat : l = Len(stream[s]) + 1
  BY <1>1
<1>3. l = Len(stream'[s]) /\ m = l + 1 /\ l # 0 /\ stream'[s][l] = item("fast", t)
  BY <1>1, <1>2
<1>4. stream'[s][l].kind = "fast" /\ stream'[s][l].coll = c /\ stream'[s][l].buf = <<"pool", d>>
  BY <1>3 DEF item
<1>5. Writes(s, l, c, d)'
  BY <1>3, <1>4 DEF Writes, At
<1>6. OnlyBy(s, l, m, c)'
  BY <1>3 DEF OnlyBy
<1>. QED BY <1>3, <1>5, <1>6 DEF Filled

(* The same of what a buffer holds if it is the pre-allocated one *)
LEMMA StagedStays ==
  ASSUME Types, Types', NEW t \in Threads, HostEffect(t), NEW s \in UserStreams,
         NEW j \in Nat, j <= Len(stream[s]) + 1, NEW i \in Nat, j <= i, NEW c, NEW b, Staged(s, j, b, c),
         i = j \/ (c = Current(t) /\ j = Len(stream[s]) + 1)
  PROVE  Staged(s, i, b, c)'
<1>1. Domains' = Domains
  BY HostFrame DEF Domains, Threads
<1>2. \A d \in Domains : b = <<"pool", d>> => Filled(s, i, c, d)'
  BY FilledStays DEF Staged
<1>. QED BY <1>1, <1>2 DEF Staged

(* What copies out of a buffer comes behind the fast part in every script. *)
LEMMA CopyLast ==
  ASSUME NEW w \in Seq(StepNames), w # <<>>, InOrder(w), Script(w), Head(w) \in {"merge", "register"}
  PROVE  Copies(w)
<1>1. PICK h : h = Head(w) /\ h \in {"merge", "register"}
  OBVIOUS
<1>2. Has(w, h)
  <2>1. 1 \in 1 .. Len(w) /\ w[1] = h
    BY <1>1
  <2>. QED BY <2>1 DEF Has
<1>3. ~Has(Tail(w), "fast")
  <2>1. CASE h = "register"
    <3>1. Stage["register"] = 2 /\ Stage["fast"] = 1
      BY StageValues DEF StepNames
    <3>2. Stage[Head(w)] # 1
      BY <1>1, <2>1, <3>1
    <3>3. Has(Tail(w), "fast") => Stage[Head(w)] < Stage["fast"]
      BY <3>2, ScriptTail
    <3>. QED BY <1>1, <2>1, <3>1, <3>3
  <2>2. CASE h = "merge"
    <3>1. Sorted(w, Filling, {1, 2}) /\ Numbered(Filling)
      BY NumberedOrders DEF Script
    <3>2. Filling["merge"] = 3 /\ Filling["fast"] = 2
      BY FillingValues
    <3>3. Has(Tail(w), "fast") /\ Filling[Head(w)] # 0 /\ Filling["fast"] # 0 =>
            Filling[Head(w)] < Filling["fast"] \/ (Filling[Head(w)] = Filling["fast"] /\ Filling["fast"] \in {1, 2})
      BY <3>1, SortedTail
    <3>. QED BY <1>1, <2>2, <3>2, <3>3
  <2>. QED BY <1>1, <2>1, <2>2
<1>4. ~Has(w, "fast")
  BY <1>1, <1>3, TailInOrder
<1>5. Has(w, "merge") \/ Has(w, "callback")
  BY <1>1, <1>2 DEF Script, Follows
<1>. QED BY <1>4, <1>5 DEF Copies

(* What a thread will copy is staged when it queues the copy. *)
LEMMA LeftStays ==
  ASSUME Types, Types', InputInv, OverInv, NEW t \in Threads, HostNext(t), HostEffect(t), NoBuffer(t), StagedLeft(t)
  PROVE  StagedLeft(t)'
<1>1. PICK c \in Colls, x \in Contexts, n \in Nat, w \in Seq(StepNames), h \in StepNames : Facing(t, c, x, n, w, h)
  BY FacingFacts DEF HostEffect
<1>2. PICK v : v = todo'[t]
  OBVIOUS
<1>3. (Copies(todo[t])' <=> Copies(v)) /\ program' = program /\ Domains' = Domains
  BY <1>2, HostFrame DEF Copies, Has, Domains, Threads
<1>. SUFFICES ASSUME Copies(v) PROVE Staged(Stream(t), Len(stream[Stream(t)]) + 1, buffer[t], Current(t))'
  BY <1>3 DEF StagedLeft
<1>4. /\ Current(t)' = c
      /\ \/ h = "fast" /\ Adds(t, "fast") /\ buffer'[t] = buffer[t]
         \/ h = "call" /\ buffer'[t] = buffer[t]
         \/ h \notin {"fast", "call"} /\ Copies(w) /\ buffer'[t] = buffer[t]
         \/ buffer'[t] = None
  BY <1>1, <1>2, CopiesBefore
<1>5. c = Current(t) /\ w = todo[t] /\ h = Head(w) /\ w # <<>>
  BY <1>1 DEF Facing
<1>6. PICK s : s = Stream(t) /\ s = Call(c).stream /\ s \in UserStreams /\ s \in Streams
  BY <1>5, CurrentFacts DEF Types
<1>7. Stream(t)' = s
  BY <1>3, <1>4, <1>6 DEF Stream, Call
<1>8. Len(stream[s]) \in Nat /\ Len(stream'[s]) \in Nat /\ Len(stream[s]) <= Len(stream'[s])
  BY <1>3, <1>6, HostFrame, QueuedPlaces
<1>9. PICK j \in Nat, m \in Nat : j = Len(stream[s]) + 1 /\ m = Len(stream'[s]) + 1 /\ j <= m
  BY <1>8
<1>10. PICK a, b : a = buffer[t] /\ b = buffer'[t]
  OBVIOUS
<1>11. Staged(s, m, b, c)'
  <2>1. CASE b = None
    <3>1. \A d : b # <<"pool", d>>
      BY <2>1 DEF None
    <3>. QED BY <3>1 DEF Staged
  <2>2. CASE h = "fast" /\ Adds(t, "fast") /\ b = a
    <3>1. \A d \in Domains : b = <<"pool", d>> => Filled(s, m, c, d)'
      BY <1>5, <1>6, <1>9, <1>10, <2>2, FilledNow
    <3>. QED BY <1>3, <3>1 DEF Staged
  <2>3. CASE h = "call" /\ b = a
    <3>1. b = None
      BY <1>5, <1>10, <2>3 DEF NoBuffer, Calling
    <3>. QED BY <2>1, <3>1
  <2>4. CASE Copies(w) /\ b = a
    <3>1. Staged(s, j, b, c)
      BY <1>5, <1>6, <1>9, <1>10, <2>4 DEF StagedLeft
    <3>. QED BY <1>5, <1>6, <1>9, <3>1, StagedStays
  <2>. QED BY <1>4, <1>10, <2>1, <2>2, <2>3, <2>4
<1>. QED BY <1>4, <1>7, <1>9, <1>10, <1>11 DEF Staged, Filled, Writes, OnlyBy, At, Domains, Threads, Writers

(* As many records as callbacks: none is without its callback. *)
LEMMA NoneOutstanding ==
  ASSUME NEW q, NEW m \in Nat, NEW O, O = {}, NEW l, l = Calls(q, m) + Cardinality(O)
  PROVE  \A k \in 1 .. l : ~(k > Calls(q, m))
<1>1. Cardinality(O) = 0
  BY FS_EmptySet
<1>2. PICK a \in Nat : a = Calls(q, m)
  BY CallsFacts
<1>. QED BY <1>1, <1>2

(* The records whose callbacks are still to be queued *)
LEMMA StagedRecordsStay ==
  ASSUME Types, Types', InputInv, OverInv, OneThread, NEW t \in Threads, HostNext(t), HostEffect(t), StagedLeft(t),
         NEW s \in UserStreams, RecordsInv(s), RecordsInv(s)', StagedRecords(s)
  PROVE  StagedRecords(s)'
<1>0. program' = program /\ (OneThread' <=> OneThread) /\ Threads' = Threads /\ UserStreams' = UserStreams /\ s \in Streams
  BY HostFrame DEF OneThread, Threads, UserStreams, Streams
<1>1. PICK c \in Colls, x \in Contexts, n \in Nat, w \in Seq(StepNames), h \in StepNames : Facing(t, c, x, n, w, h)
  BY FacingFacts DEF HostEffect
<1>2. c = Current(t) /\ w = todo[t] /\ h = Head(w) /\ w # <<>> /\ Script(w) /\ InOrder(w)
  BY <1>1 DEF Facing
<1>3. CASE h \notin {"register", "attach"}
  <2>1. t \notin Owing(s)'
    <3>1. h = "callback" => Owing(s)' = Owing(s) \ {t}
      BY <1>1, OwingMoves
    <3>2. h # "callback" => Owing(s)' = Owing(s) /\ t \notin Owing(s)
      BY <1>1, <1>3, OwingMoves
    <3>. QED BY <3>1, <3>2
  <2>2. Owing(s)' = {}
    BY <1>0, <2>1 DEF OneThread, Owing
  <2>3. PICK q, m, O, l : q = stream'[s] /\ m = Len(q) /\ O = Owing(s)' /\ l = Len(pending'[s])
    OBVIOUS
  <2>4. l = Calls(q, m) + Cardinality(O)
    BY <2>3 DEF RecordsInv, Counted, Calls, IsCall
  <2>5. \A k \in 1 .. l : ~(k > Calls(q, m))
    <3>1. m \in Nat
      BY <1>0, <2>3, HostFrame, QueuedPlaces
    <3>. QED BY <2>2, <2>3, <2>4, <3>1, NoneOutstanding
  <2>6. Calls(q, m) = Calls(stream[s], Len(stream[s]))'
    BY <2>3 DEF Calls, IsCall
  <2>. QED BY <2>3, <2>5, <2>6 DEF StagedRecords
<1>4. CASE h \in {"register", "attach"}
  <2>1. Len(stream'[s]) = Len(stream[s]) /\ Len(stream[s]) \in Nat
    BY <1>0, <1>2, <1>4, NothingQueued
  <2>2. Calls(stream'[s], Len(stream'[s])) = Calls(stream[s], Len(stream[s]))
    BY <1>1, <1>4, CallsHost
  <2>3. PICK j, l : j \in Nat /\ j = Len(stream[s]) + 1 /\ l = Calls(stream[s], Len(stream[s]))
    BY <2>1
  <2>4. PICK p, g : p = pending[s] /\ g = pending'[s]
    OBVIOUS
  <2>0. RecordsAre(t, s, p, g)
    BY <2>4, RecordsOf
  <2>5. /\ \A k \in 1 .. Len(p) : g[k].coll = p[k].coll /\ g[k].tmp = p[k].tmp
        /\ \A k \in 1 .. Len(g) :
              \/ k \in 1 .. Len(p)
              \/ /\ h = "register" /\ s = Stream(t) /\ g[k].coll = c
                 /\ g[k].tmp = IF buffer[t] # None /\ ~MergedOnStream(Current(t)) THEN buffer[t] ELSE None
    BY <1>2, <2>0 DEF RecordsAre
  <2>6. ASSUME NEW k \in 1 .. Len(g), k > l PROVE \A b, d : b = g[k].tmp /\ d = g[k].coll => Staged(s, j, b, d)'
    <3>1. PICK b, d : b = g[k].tmp /\ d = g[k].coll
      OBVIOUS
    <3>2. Staged(s, j, b, d)
      <4>1. CASE k \in 1 .. Len(p)
        <5>1. b = p[k].tmp /\ d = p[k].coll
          BY <2>5, <3>1, <4>1
        <5>. QED BY <2>3, <2>4, <2>6, <4>1, <5>1 DEF StagedRecords
      <4>2. CASE k \notin 1 .. Len(p)
        <5>1. h = "register" /\ s = Stream(t) /\ d = c /\ b \in {buffer[t], None}
          BY <2>5, <3>1, <4>2
        <5>2. Staged(s, j, buffer[t], d)
          BY <1>2, <2>3, <5>1, CopyLast DEF StagedLeft
        <5>3. b = None => Staged(s, j, b, d)
          BY DEF Staged, None
        <5>. QED BY <5>1, <5>2, <5>3
      <4>. QED BY <4>1, <4>2
    <3>3. Staged(s, j, b, d)'
      BY <2>3, <2>1, <3>2, StagedStays
    <3>. QED BY <3>1, <3>3
  <2>. QED BY <2>1, <2>2, <2>3, <2>4, <2>6 DEF StagedRecords
<1>. QED BY <1>3, <1>4

(* The copies that are queued, and the one that the step queues *)
LEMMA StagedItemsStay ==
  ASSUME Types, Types', InputInv, OverInv, NEW t \in Threads, HostNext(t), HostEffect(t), StagedLeft(t),
         NEW s \in UserStreams, RecordsInv(s), StagedRecords(s), \A j \in 1 .. Len(stream[s]) : StagedItem(s, j),
         NEW j \in 1 .. Len(stream'[s])
  PROVE  StagedItem(s, j)'
<1>0. program' = program /\ Extended(t, QueuedBy(Head(todo[t]))) /\ s \in Streams
  BY HostFrame DEF Streams
<1>1. PICK c \in Colls, x \in Contexts, n \in Nat, w \in Seq(StepNames), h \in StepNames : Facing(t, c, x, n, w, h)
  BY FacingFacts DEF HostEffect
<1>2. /\ c = Current(t) /\ w = todo[t] /\ h = Head(w) /\ w # <<>> /\ Script(w) /\ InOrder(w)
      /\ Stream(t) = Call(c).stream
  BY <1>1, CurrentFacts DEF Facing, Types
<1>3. PICK m \in Nat, l \in Nat : m = Len(stream[s]) /\ l = Len(stream'[s])
  BY <1>0, QueuedPlaces
<1>4. PICK q, r : q = stream[s] /\ r = stream'[s]
  OBVIOUS
<1>5. /\ m <= l
      /\ \A k \in 1 .. m : r[k] = q[k]
      /\ \A k \in 1 .. l : k \in 1 .. m \/ (k > m /\ r[k].kind \in QueuedBy(h) /\ r[k].coll = c /\ r[k].buf = buffer[t])
      /\ \A k \in 1 .. l : r[k] \in ItemsOf(s)
  BY <1>0, <1>2, <1>3, <1>4, QueuedPlaces
<1>6. PICK p, g : p = pending[s] /\ g = pending'[s]
  OBVIOUS
<1>7. /\ \A k \in 1 .. Len(p) : g[k].coll = p[k].coll /\ g[k].tmp = p[k].tmp
  <2>1. RecordsAre(t, s, p, g)
    BY <1>6, RecordsOf
  <2>. QED BY <2>1 DEF RecordsAre
<1>8. CASE j \in 1 .. m
  <2>1. r[j] = q[j] /\ StagedItem(s, j) /\ j \in Nat /\ j <= m + 1
    BY <1>3, <1>5, <1>8
  <2>2. \A b, d : Staged(s, j, b, d) => Staged(s, j, b, d)'
    BY <1>3, <2>1, StagedStays
  <2>3. q[j].kind = "merge" => Staged(s, j, q[j].buf, q[j].coll)
    BY <1>4, <2>1 DEF StagedItem
  <2>4. ASSUME IsCall(q[j])
        PROVE  \A k : k = Calls(r, j) => \A b, d : b = g[k].tmp /\ d = g[k].coll => Staged(s, j, b, d)'
    <3>1. PICK k : k = Calls(q, j) /\ k = Calls(r, j)
      <4>1. j \in 0 .. Len(stream[s])
        BY <1>3, <1>8
      <4>. QED BY <1>1, <1>4, <4>1, CallsHost
    <3>2. k \in 1 .. Len(p)
      BY <1>3, <1>4, <1>6, <1>8, <2>4, <3>1, CallPlace
    <3>3. Staged(s, j, p[k].tmp, p[k].coll)
      BY <1>4, <1>6, <2>1, <2>4, <3>1 DEF StagedItem
    <3>. QED BY <1>7, <2>2, <3>1, <3>2, <3>3
  <2>5. PICK b, d : b = q[j].buf /\ d = q[j].coll
    OBVIOUS
  <2>6. q[j].kind = "merge" => Staged(s, j, b, d)'
    BY <2>2, <2>3, <2>5
  <2>. QED BY <1>4, <1>6, <2>1, <2>4, <2>5, <2>6 DEF StagedItem, Calls, IsCall
<1>9. CASE j \notin 1 .. m
  <2>1. j > m /\ r[j].kind \in QueuedBy(h) /\ r[j].coll = c /\ r[j].buf = buffer[t] /\ r[j] \in ItemsOf(s) /\ j \in 1 .. l
    BY <1>3, <1>5, <1>9
  <2>2. PICK i \in Nat : i = m + 1 /\ i <= j
    BY <2>1
  <2>3. CASE r[j].kind = "merge"
    <3>1. h = "merge"
      BY <2>1, <2>3 DEF QueuedBy, Parts, StepNames
    <3>2. s = Stream(t)
      BY <1>2, <2>1, <2>3 DEF ItemsOf, Place, PcieKinds
    <3>3. PICK b : b = buffer[t]
      OBVIOUS
    <3>4. Staged(s, i, b, c)
      BY <1>2, <1>3, <2>2, <3>1, <3>2, <3>3, CopyLast DEF StagedLeft
    <3>5. Staged(s, j, b, c)'
      BY <1>2, <1>3, <2>2, <3>4, StagedStays
    <3>6. ~IsCall(r[j])
      BY <2>3 DEF IsCall
    <3>. QED BY <1>4, <2>1, <3>3, <3>5, <3>6 DEF StagedItem, IsCall
  <2>4. CASE r[j].kind = "callback"
    <3>1. h = "callback"
      BY <2>1, <2>4 DEF QueuedBy, Parts, StepNames
    <3>2. s = Stream(t)
      BY <1>2, <2>1, <2>4 DEF ItemsOf, Place, PcieKinds
    <3>3. l = m + 1 /\ Calls(r, m + 1) = Calls(q, m) + 1
      BY <1>1, <1>2, <1>3, <1>4, <3>1, <3>2, CallsHost, SMTT(20)
    <3>4. j = i /\ j = m + 1
      BY <2>1, <2>2, <3>3
    <3>5. t \in Owing(s)
      BY <1>1, <1>2, <3>1, <3>2, OwingMoves
    <3>6. PICK a \in Nat, e \in Nat : a = Calls(q, m) /\ Len(p) = a + e /\ e # 0
      <4>1. /\ Calls(stream[s], Len(stream[s])) \in Nat /\ Cardinality(Owing(s)) \in Nat
            /\ Len(pending[s]) = Calls(stream[s], Len(stream[s])) + Cardinality(Owing(s)) /\ IsFiniteSet(Owing(s))
        BY CallPlace DEF RecordsInv, Counted
      <4>2. Cardinality(Owing(s)) # 0
        BY <3>5, <4>1, FS_EmptySet
      <4>. QED BY <1>3, <1>4, <1>6, <4>1, <4>2
    <3>7. PICK k : k = Calls(r, j) /\ k = a + 1
      BY <3>3, <3>4, <3>6
    <3>8. k \in 1 .. Len(p) /\ k > a
      BY <3>6, <3>7
    <3>9. PICK b, d : b = p[k].tmp /\ d = p[k].coll
      OBVIOUS
    <3>10. Staged(s, j, b, d)
      BY <1>3, <1>4, <1>6, <3>4, <3>6, <3>8, <3>9 DEF StagedRecords
    <3>11. Staged(s, j, b, d)'
      BY <1>3, <2>2, <3>4, <3>10, StagedStays
    <3>12. g[k].tmp = b /\ g[k].coll = d
      BY <1>7, <3>8, <3>9
    <3>. QED BY <1>4, <1>6, <2>4, <3>7, <3>11, <3>12 DEF StagedItem, Calls, IsCall
  <2>5. CASE r[j].kind \notin {"merge", "callback"}
    BY <1>4, <2>5 DEF StagedItem, IsCall
  <2>. QED BY <2>3, <2>4, <2>5
<1>. QED BY <1>8, <1>9

(* A host's step queues copies only behind what they copy. *)
LEMMA HostScratch ==
  ASSUME Types, Types', InputInv, OverInv, CompletionInv, CompletionInv', ScratchInv,
         NEW t \in Threads, HostNext(t), HostEffect(t)
  PROVE  ScratchInv'
<1>0. /\ program' = program /\ (OneThread' <=> OneThread) /\ (OneStream' <=> OneStream) /\ Threads' = Threads
      /\ UserStreams' = UserStreams /\ Colls' = Colls /\ Domains' = Domains /\ holder' = holder
  <2>1. program' = program /\ holder' = holder
    BY HostFrame DEF HostEffect
  <2>2. Threads' = Threads /\ UserStreams' = UserStreams /\ Colls' = Colls /\ Domains' = Domains
    BY <2>1 DEF Threads, UserStreams, Colls, Domains
  <2>. QED BY <2>1, <2>2 DEF OneThread, OneStream
<1>1. HolderType'
  BY <1>0 DEF ScratchInv, HolderType
<1>2. \A q \in Threads : NoBuffer(q)'
  BY BareCalls DEF ScratchInv
<1>3. ASSUME OneStream, OneThread PROVE StagedInv'
  <2>1. StagedInv
    BY <1>3 DEF ScratchInv
  <2>2. ASSUME NEW s \in UserStreams PROVE StagedRecords(s)' /\ \A j \in 1 .. Len(stream'[s]) : StagedItem(s, j)'
    <3>1. RecordsInv(s) /\ RecordsInv(s)' /\ StagedRecords(s) /\ \A j \in 1 .. Len(stream[s]) : StagedItem(s, j)
      BY <1>0, <2>1 DEF CompletionInv, StagedInv
    <3>. QED BY <1>3, <2>1, <3>1, StagedRecordsStay, StagedItemsStay DEF StagedInv
  <2>3. ASSUME NEW q \in Threads PROVE StagedLeft(q)'
    <3>1. q = t
      BY <1>3 DEF OneThread
    <3>2. NoBuffer(t) /\ StagedLeft(t)
      BY <2>1 DEF ScratchInv, StagedInv
    <3>. QED BY <3>1, <3>2, LeftStays
  <2>. QED BY <1>0, <2>2, <2>3 DEF StagedInv
<1>. QED BY <1>0, <1>1, <1>2, <1>3 DEF ScratchInv

(* What the device does to the pre-allocated buffers *)
WritesBuffer(s, d) == Head(stream[s]).kind \in Writers /\ Head(stream[s]).buf = <<"pool", d>>
Stages(s) == \A d \in Domains : holder'[d] = IF WritesBuffer(s, d) THEN Head(stream[s]).coll ELSE holder[d]

(* Operations of the fast part write the buffer they were given. *)
LEMMA DeviceStages ==
  ASSUME Types, HolderType, NEW s \in Streams, DeviceNext(s)
  PROVE  Stages(s) /\ HolderType'
<1>0. program' = program /\ stream[s] # <<>>
  BY DEF DeviceNext, WriteToken, WaitToken, WaitEvent, Compute, FillBuffer, RunPcie, FreeAsync, HostCompletion,
         DeviceStep, head
<1>1. Domains' = Domains /\ Colls' = Colls
  BY <1>0 DEF Domains, Colls, Threads
<1>2. CASE holder' = holder /\ Head(stream[s]).kind \notin Writers
  BY <1>1, <1>2 DEF Stages, WritesBuffer, HolderType
<1>3. CASE FillBuffer(s)
  <2>1. PICK o : o = Head(stream[s])
    OBVIOUS
  <2>2. o.kind \in Writers /\ o.coll \in Colls /\ o.buf \in Buffers
    BY <1>0, <1>3, <2>1, HeadItem DEF FillBuffer, Writers, ItemsOf, Items
  <2>3. holder' = IF IsPool(o.buf) THEN [holder EXCEPT ![o.buf[2]] = o.coll] ELSE holder
    BY <1>3, <2>1 DEF FillBuffer, fill
  <2>4. CASE \E t \in Threads : o.buf = Pool(t)
    <3>1. PICK t \in Threads : o.buf = Pool(t)
      BY <2>4
    <3>2. PICK e \in Domains : e = program.domain[t]
      BY DEF Domains
    <3>3. o.buf = <<"pool", e>> /\ IsPool(o.buf) /\ o.buf[2] = e
      BY <3>1, <3>2 DEF Pool, IsPool
    <3>4. holder' = [holder EXCEPT ![e] = o.coll]
      BY <2>3, <3>3
    <3>5. \A d \in Domains : o.buf = <<"pool", d>> <=> d = e
      BY <3>3
    <3>. QED BY <1>1, <2>1, <2>2, <3>2, <3>4, <3>5 DEF Stages, WritesBuffer, HolderType
  <2>5. CASE o.buf = None \/ \E c \in Colls : o.buf = Own(c)
    <3>1. ~IsPool(o.buf) /\ \A d : o.buf # <<"pool", d>>
      BY <2>5 DEF IsPool, None, Own
    <3>. QED BY <1>1, <2>1, <2>3, <3>1 DEF Stages, WritesBuffer, HolderType
  <2>. QED BY <2>2, <2>4, <2>5 DEF Buffers
<1>4. CASE WriteToken(s) \/ WaitToken(s) \/ WaitEvent(s) \/ Compute(s) \/ RunPcie(s) \/ FreeAsync(s) \/ HostCompletion(s)
  <2>1. holder' = holder
    BY <1>4 DEF WriteToken, WaitToken, WaitEvent, Compute, RunPcie, FreeAsync, HostCompletion, device
  <2>2. Head(stream[s]).kind \notin Writers
    BY <1>4 DEF WriteToken, WaitToken, WaitEvent, Compute, RunPcie, FreeAsync, HostCompletion, head, Writers
  <2>. QED BY <1>2, <2>1, <2>2
<1>. QED BY <1>3, <1>4 DEF DeviceNext

(* A buffer holds what it held at the same operation. *)
LEMMA FilledShifts ==
  ASSUME Types, OneStream, NEW s \in Streams, Executes(s), Stages(s), NEW q \in UserStreams, NEW a, Moved(q, s, a),
         q = s => a = 1, NEW j \in Nat, j # 0, NEW i \in Nat, i = j + a, NEW c, NEW d \in Domains, Filled(q, i, c, d)
  PROVE  Filled(q, j, c, d)'
<1>0. a \in 0 .. 1 /\ stream[s] # <<>>
  BY DEF Moved, Executes
<1>1. PICK m, u, v, o : m \in Nat /\ m = Len(stream[q]) /\ u = stream[q] /\ v = stream'[q] /\ o = Head(stream[s])
  BY DEF Moved
<1>2. /\ \A k \in 1 .. Len(v) : k + a \in 1 .. m /\ v[k] = u[k + a]
      /\ \A k \in 1 .. m : k > a => k - a \in 1 .. Len(v) /\ v[k - a] = u[k]
      /\ \A k \in 1 .. m : k <= a => q = s /\ k = 1 /\ u[k] = o
  BY <1>1 DEF Moved
<1>3. PICK b \in 0 .. m : b < i /\ Writes(q, b, c, d) /\ OnlyBy(q, b, i, c)
  BY <1>1 DEF Filled
<1>4. ASSUME o.kind \in Writers PROVE s = q /\ a = 1 /\ 1 \in 1 .. m /\ u[1] = o
  <2>1. o \in ItemsOf(s) /\ 1 \in 1 .. Len(stream[s]) /\ stream[s][1] = o /\ o.coll \in Colls
    BY <1>0, <1>1, HeadItem
  <2>2. s \in UserStreams
    BY <1>4, <2>1, CollFacts DEF ItemsOf, Place, PcieKinds, Writers, Types, ThreadTypes
  <2>3. s = q
    BY <2>2 DEF OneStream
  <2>. QED BY <1>1, <2>1, <2>3
<1>5. holder'[d] = IF o.kind \in Writers /\ o.buf = <<"pool", d>> THEN o.coll ELSE holder[d]
  BY <1>1 DEF Stages, WritesBuffer
<1>6. ASSUME holder'[d] = c, b <= a PROVE Filled(q, j, c, d)'
  <2>1. Writes(q, 0, c, d)'
    BY <1>6 DEF Writes
  <2>2. ASSUME NEW k \in 1 .. Len(v), 0 < k, k < j, v[k].kind \in Writers PROVE v[k].coll = c
    <3>1. k + a \in 1 .. m /\ v[k] = u[k + a] /\ b < k + a /\ k + a < i
      BY <1>0, <1>2, <1>6, <2>2
    <3>. QED BY <1>1, <1>3, <2>2, <3>1 DEF OnlyBy
  <2>3. OnlyBy(q, 0, j, c)'
    BY <1>1, <2>2 DEF OnlyBy, Writers
  <2>4. 0 \in 0 .. Len(v) /\ 0 < j
    <3>1. Len(v) \in Nat
      <4>1. q \in Streams
        BY DEF Streams
      <4>. QED BY <1>1, <4>1 DEF Types, StreamTypes, Executes, executed
    <3>. QED BY <3>1
  <2>. QED BY <1>1, <2>1, <2>3, <2>4 DEF Filled
<1>7. CASE b = 0
  <2>1. holder[d] = c
    BY <1>3, <1>7 DEF Writes
  <2>2. holder'[d] = c
    <3>1. CASE o.kind \in Writers
      <4>1. 0 < 1 /\ 1 < i /\ 1 \in 1 .. m /\ u[1] = o
        BY <1>4, <3>1
      <4>2. o.coll = c
        BY <1>1, <1>3, <1>7, <3>1, <4>1 DEF OnlyBy
      <4>. QED BY <1>5, <2>1, <4>2
    <3>2. CASE o.kind \notin Writers
      BY <1>5, <2>1, <3>2
    <3>. QED BY <3>1, <3>2
  <2>. QED BY <1>0, <1>6, <1>7, <2>2
<1>8. CASE b # 0 /\ b <= a
  <2>1. b \in 1 .. m /\ u[b] = o
    BY <1>2, <1>8
  <2>2. o.kind = "fast" /\ o.coll = c /\ o.buf = <<"pool", d>>
    BY <1>1, <1>3, <1>8, <2>1 DEF Writes, At
  <2>3. holder'[d] = c
    BY <1>5, <2>2 DEF Writers
  <2>. QED BY <1>6, <1>8, <2>3
<1>9. CASE b # 0 /\ ~(b <= a)
  <2>1. PICK e : e = b - a /\ e \in 1 .. Len(v) /\ v[e] = u[b] /\ e < j
    <3>1. b \in 1 .. m /\ b > a /\ b - a < j
      BY <1>0, <1>3, <1>9
    <3>. QED BY <1>2, <3>1
  <2>2. u[b].kind = "fast" /\ u[b].coll = c /\ u[b].buf = <<"pool", d>>
    BY <1>1, <1>3, <1>9 DEF Writes, At
  <2>3. Writes(q, e, c, d)'
    BY <1>1, <2>1, <2>2 DEF Writes, At
  <2>4. ASSUME NEW k \in 1 .. Len(v), e < k, k < j, v[k].kind \in Writers PROVE v[k].coll = c
    <3>1. k + a \in 1 .. m /\ v[k] = u[k + a] /\ b < k + a /\ k + a < i
      BY <1>0, <1>2, <2>1, <2>4
    <3>. QED BY <1>1, <1>3, <2>4, <3>1 DEF OnlyBy
  <2>5. OnlyBy(q, e, j, c)'
    BY <1>1, <2>4 DEF OnlyBy, Writers
  <2>. QED BY <1>1, <2>1, <2>3, <2>5 DEF Filled
<1>. QED BY <1>7, <1>8, <1>9

(* What is staged on a stream stays so when an operation is executed. *)
LEMMA StagedShifts ==
  ASSUME Types, ScratchInv, OneStream, OneThread, CompletionInv, NEW s \in Streams, Executes(s), Collects(s), Stages(s),
         buffer' = buffer, NEW q \in UserStreams
  PROVE  /\ StagedRecords(q)' /\ \A j \in 1 .. Len(stream'[q]) : StagedItem(q, j)'
         /\ \A t \in Threads : Stream(t) = q => StagedLeft(t)'
<1>0. RecordsInv(q) /\ StagedRecords(q) /\ \A j \in 1 .. Len(stream[q]) : StagedItem(q, j)
  BY DEF ScratchInv, StagedInv, CompletionInv
<1>1. PICK d, e \in 0 .. 1 : Passed(q, s, d, e)
  BY <1>0, RecordsPass
<1>2. PICK n \in Nat, m \in Nat : n = Len(stream'[q]) /\ m = Len(stream[q]) /\ m = n + d
  <2>1. Len(stream'[q]) \in Nat /\ Len(stream'[q]) + d = Len(stream[q])
    BY <1>1 DEF Passed
  <2>. QED BY <1>1, <2>1
<1>3. PICK u, v, p, g : u = stream[q] /\ v = stream'[q] /\ p = pending[q] /\ g = pending'[q]
  OBVIOUS
<1>4. /\ \A k \in 1 .. n : k + d \in 1 .. m /\ v[k] = u[k + d]
      /\ \A j \in 0 .. n : Calls(u, j + d) = Calls(v, j) + e
      /\ \A k \in 1 .. Len(g) : k \in Nat \ {0} /\ k + e \in 1 .. Len(p) /\ g[k] = p[k + e]
      /\ Len(g) \in Nat /\ Len(g) + e = Len(p)
  BY <1>1, <1>2, <1>3, RecordMoved DEF Passed, Moved
<1>5. program' = program /\ todo' = todo /\ index' = index /\ Domains' = Domains /\ Threads' = Threads
  BY DEF Executes, Domains, Threads
<1>6. ASSUME NEW j \in Nat, j # 0, NEW b, NEW c, Staged(q, j + d, b, c) PROVE Staged(q, j, b, c)'
  <2>1. PICK i \in Nat : i = j + d
    BY <1>1
  <2>2. Moved(q, s, d) /\ (q = s => d = 1)
    BY <1>1 DEF Passed
  <2>3. \A f \in Domains : b = <<"pool", f>> => Filled(q, j, c, f)'
    BY <1>6, <2>1, <2>2, FilledShifts DEF Staged
  <2>. QED BY <1>5, <2>3 DEF Staged
<1>7. StagedRecords(q)'
  <2>. SUFFICES ASSUME NEW k \in 1 .. Len(g), k > Calls(v, n)
                PROVE  \A b, c : b = g[k].tmp /\ c = g[k].coll => Staged(q, n + 1, b, c)'
    BY <1>2, <1>3 DEF StagedRecords, Calls, IsCall
  <2>1. PICK b, c : b = g[k].tmp /\ c = g[k].coll
    OBVIOUS
  <2>2. PICK l : l = k + e /\ l \in 1 .. Len(p) /\ g[k] = p[l]
    BY <1>4
  <2>3. PICK a \in Nat : a = Calls(v, n)
    BY CallsFacts
  <2>4. Calls(u, m) = a + e
    BY <1>2, <1>4, <2>3
  <2>5. l > Calls(u, m)
    BY <1>1, <2>2, <2>3, <2>4
  <2>6. Staged(q, m + 1, b, c)
    BY <1>0, <1>2, <1>3, <2>1, <2>2, <2>5 DEF StagedRecords
  <2>7. PICK j \in Nat : j = n + 1 /\ j # 0 /\ j + d = m + 1
    BY <1>1, <1>2
  <2>8. Staged(q, j, b, c)'
    BY <1>6, <2>6, <2>7
  <2>. QED BY <2>1, <2>7, <2>8
<1>8. ASSUME NEW j \in 1 .. n PROVE StagedItem(q, j)'
  <2>1. PICK i : i = j + d /\ i \in 1 .. m /\ v[j] = u[i]
    BY <1>4
  <2>2. j \in Nat /\ j # 0 /\ StagedItem(q, i)
    BY <1>0, <1>2, <2>1
  <2>3. PICK b, c : b = v[j].buf /\ c = v[j].coll
    OBVIOUS
  <2>4. v[j].kind = "merge" => Staged(q, j, b, c)'
    <3>1. v[j].kind = "merge" => Staged(q, i, b, c)
      BY <1>3, <2>1, <2>2, <2>3 DEF StagedItem
    <3>. QED BY <1>6, <2>1, <2>2, <3>1
  <2>5. ASSUME IsCall(v[j])
        PROVE  \A k : k = Calls(v, j) => \A a, f : a = g[k].tmp /\ f = g[k].coll => Staged(q, j, a, f)'
    <3>1. PICK k, l : k \in Nat /\ k = Calls(v, j) /\ l = k + e /\ l = Calls(u, i)
      <4>1. j \in Nat /\ j \in 0 .. n
        BY <1>2
      <4>2. Calls(v, j) \in Nat
        BY <4>1, CallsFacts
      <4>. QED BY <1>4, <2>1, <4>1, <4>2
    <3>2. l \in 1 .. Len(p)
      BY <1>0, <1>2, <1>3, <2>1, <2>5, <3>1, CallPlace
    <3>3. 0 < k
      <4>1. Calls(v, 0) < Calls(v, j) /\ Calls(v, 0) = 0
        <5>1. 0 \in Nat /\ 0 <= j /\ 0 < j
          BY <2>2
        <5>. QED BY <2>2, <2>5, <5>1, CallsGrow, CallsFacts
      <4>. QED BY <3>1, <4>1
    <3>4. k \in 1 .. Len(g) /\ g[k] = p[l]
      <4>1. k \in 1 .. Len(g)
        BY <1>1, <1>4, <3>1, <3>2, <3>3
      <4>. QED BY <1>4, <3>1, <4>1
    <3>5. Staged(q, i, p[l].tmp, p[l].coll)
      BY <1>3, <2>1, <2>2, <2>5, <3>1 DEF StagedItem
    <3>. QED BY <1>6, <2>1, <2>2, <3>1, <3>4, <3>5
  <2>. QED BY <1>3, <2>3, <2>4, <2>5 DEF StagedItem, Calls, IsCall
<1>9. ASSUME NEW t \in Threads, Stream(t) = q PROVE StagedLeft(t)'
  <2>1. PICK b, c : b = buffer[t] /\ c = Current(t)
    OBVIOUS
  <2>2. Stream(t)' = q /\ buffer'[t] = b /\ Current(t)' = c /\ (Copies(todo[t])' <=> Copies(todo[t]))
    BY <1>5, <1>9, <2>1 DEF Stream, Call, Current, Copies, Has
  <2>3. PICK j \in Nat : j = n + 1 /\ j # 0 /\ j + d = m + 1
    BY <1>1, <1>2
  <2>4. Copies(todo[t]) => Staged(q, j + d, b, c)
    BY <1>2, <1>9, <2>1, <2>3 DEF ScratchInv, StagedInv, StagedLeft
  <2>5. Copies(todo[t]) => Staged(q, j, b, c)'
    BY <1>6, <2>3, <2>4
  <2>6. Staged(q, j, b, c)' <=> Staged(Stream(t), Len(stream[Stream(t)]) + 1, buffer[t], Current(t))'
    BY <1>2, <2>2, <2>3 DEF Staged, Filled, Writes, OnlyBy, At, Domains, Threads, Writers
  <2>. QED BY <2>2, <2>5, <2>6 DEF StagedLeft
<1>. QED BY <1>2, <1>7, <1>8, <1>9

(* A device's step leaves the queued copies what they copy. *)
LEMMA DeviceScratch ==
  ASSUME Types, CompletionInv, ScratchInv, NEW s \in Streams, Executes(s), Collects(s), Stages(s), HolderType',
         buffer' = buffer
  PROVE  ScratchInv'
<1>0. /\ program' = program /\ todo' = todo
  BY DEF Executes
<1>1. Threads' = Threads /\ UserStreams' = UserStreams
  BY <1>0 DEF Threads, UserStreams
<1>2. (OneThread' <=> OneThread) /\ (OneStream' <=> OneStream)
  BY <1>1 DEF OneThread, OneStream
<1>3. \A t \in Threads : NoBuffer(t)'
  BY <1>0 DEF ScratchInv, NoBuffer, Calling, None
<1>4. ASSUME OneStream, OneThread PROVE StagedInv'
  <2>1. \A q \in UserStreams : StagedRecords(q)' /\ \A j \in 1 .. Len(stream'[q]) : StagedItem(q, j)'
    BY <1>4, StagedShifts
  <2>2. ASSUME NEW t \in Threads PROVE StagedLeft(t)'
    <3>1. Stream(t) \in UserStreams
      BY CurrentFacts DEF Types
    <3>. QED BY <1>4, <3>1, StagedShifts
  <2>. QED BY <1>1, <2>1, <2>2 DEF StagedInv
<1>. QED BY <1>1, <1>2, <1>3, <1>4 DEF ScratchInv

(* There are no copies at first. *)
LEMMA ScratchInit ==
  ASSUME Init
  PROVE  ScratchInv
<1>1. /\ \A s \in Streams : stream[s] = <<>> /\ Len(stream[s]) = 0
      /\ \A s \in UserStreams : pending[s] = <<>> /\ Len(pending[s]) = 0
      /\ \A t \in Threads : todo[t] = <<"call">> /\ buffer[t] = None
      /\ holder = [d \in Domains |-> Nobody] /\ UserStreams \subseteq Streams
  BY DEF Init, Streams
<1>2. \A step : Has(<<"call">>, step) => step = "call"
  BY DEF Has
<1>3. HolderType /\ \A t \in Threads : NoBuffer(t)
  BY <1>1 DEF HolderType, NoBuffer
<1>4. StagedInv
  BY <1>1, <1>2 DEF StagedInv, StagedRecords, StagedLeft, Copies
<1>. QED BY <1>3, <1>4 DEF ScratchInv

(* Nothing changes the buffer but a step. *)
LEMMA ScratchStutter ==
  ASSUME ScratchInv, UNCHANGED vars
  PROVE  ScratchInv'
<1>0. UNCHANGED <<program, todo, index, stream, pending, buffer, holder>>
  BY DEF vars, host, device
<1>1. /\ Streams' = Streams /\ UserStreams' = UserStreams /\ Threads' = Threads /\ Colls' = Colls /\ Domains' = Domains
      /\ \A t : Current(t)' = Current(t) /\ Stream(t)' = Stream(t)
  BY <1>0 DEF Streams, UserStreams, Threads, Colls, PcieStream, Current, Stream, Call, Domains
<1>2. HolderType' /\ \A t \in Threads : NoBuffer(t)'
  BY <1>0, <1>1 DEF ScratchInv, HolderType, NoBuffer, Calling, Nobody, None
<1>3. \A s, j, b, c : Staged(s, j, b, c)' <=> Staged(s, j, b, c)
  <2>1. \A s, i, c, d : Writes(s, i, c, d)' <=> Writes(s, i, c, d)
    BY <1>0 DEF Writes, At
  <2>2. \A s, i, j, c : OnlyBy(s, i, j, c)' <=> OnlyBy(s, i, j, c)
    BY <1>0 DEF OnlyBy, Writers
  <2>3. \A s, j, c, d : Filled(s, j, c, d)' <=> Filled(s, j, c, d)
    BY <1>0, <2>1, <2>2 DEF Filled
  <2>. QED BY <1>1, <2>3 DEF Staged
<1>4. ASSUME StagedInv PROVE StagedInv'
  <2>1. \A s \in UserStreams : StagedRecords(s)'
    BY <1>0, <1>3, <1>4 DEF StagedInv, StagedRecords, Calls, IsCall
  <2>2. \A s \in UserStreams : \A j \in 1 .. Len(stream'[s]) : StagedItem(s, j)'
    BY <1>0, <1>3, <1>4 DEF StagedInv, StagedItem, Calls, IsCall
  <2>3. \A t \in Threads : StagedLeft(t)'
    BY <1>0, <1>1, <1>3, <1>4 DEF StagedInv, StagedLeft, Copies, Has
  <2>. QED BY <1>1, <2>1, <2>2, <2>3 DEF StagedInv
<1>. QED BY <1>1, <1>2, <1>4 DEF ScratchInv, OneStream, OneThread

OwnedInv == BufferInv /\ ScratchInv

(* Everything is its owner's at first. *)
LEMMA OwnedInit == Init => OwnedInv
BY BufferInit, ScratchInit DEF OwnedInv

(* Every step leaves everything its owner's. *)
LEMMA OwnedStay ==
  ASSUME OwnedInv, [Next]_vars
  PROVE  OwnedInv'
<1>0. BufferInv /\ BufferInv' /\ ScratchInv
  BY BufferStay DEF OwnedInv
<1>1. /\ Types' /\ Types /\ InputInv /\ OverInv /\ CompletionInv /\ CompletionInv'
  BY <1>0 DEF BufferInv, TimingInv, OrderedInv, RecordedInv, StreamsInv
<1>2. ASSUME NEW t \in Threads, HostNext(t) PROVE ScratchInv'
  BY <1>0, <1>1, <1>2, EffectOfHost, HostScratch
<1>3. ASSUME NEW s \in Streams, DeviceNext(s) PROVE ScratchInv'
  <2>1. Executes(s) /\ Collects(s) /\ buffer' = buffer
    BY <1>1, <1>3, DeviceEnds, DeviceCollects, DeviceFrees
  <2>2. Stages(s) /\ HolderType'
    BY <1>0, <1>1, <1>3, DeviceStages DEF ScratchInv
  <2>. QED BY <1>0, <1>1, <2>1, <2>2, DeviceScratch
<1>4. CASE UNCHANGED vars
  BY <1>0, <1>4, ScratchStutter DEF OwnedInv
<1>. QED BY <1>0, <1>2, <1>3, <1>4 DEF Next, Work, OwnedInv

(* A copy that is reached finds what it copies. *)
LEMMA StagedFirst ==
  ASSUME Types, NEW s, NEW c, NEW b \in Buffers, IsPool(b), Staged(s, 1, b, c)
  PROVE  holder[b[2]] = c
<1>1. PICK t \in Threads : b = Pool(t)
  BY DEF Buffers, IsPool, None, Own
<1>2. PICK d \in Domains : d = program.domain[t]
  BY DEF Domains
<1>3. b = <<"pool", d>> /\ b[2] = d
  BY <1>1, <1>2 DEF Pool
<1>4. PICK i \in 0 .. Len(stream[s]) : i < 1 /\ Writes(s, i, c, d)
  BY <1>3 DEF Staged, Filled
<1>5. i = 0
  BY <1>4
<1>. QED BY <1>3, <1>4, <1>5 DEF Writes

(* The pre-allocated staging buffer has no owner, and none of its users    *)
(* waits for another.  On one stream used by one thread a copy out of it,  *)
(* queued behind the fast part or left to the callback, still finds the    *)
(* data of its collective: later collectives write behind it               *)
(* (EnsureOrchestratedScratchPoolCapacity,                                 *)
(* EnqueueSegmentedMergeOnStream, OnStreamSynchronized).                   *)
THEOREM ScratchStaysIntact == Spec => []ScratchIntact
<1>1. OwnedInv => ScratchIntact
  <2>. SUFFICES ASSUME OwnedInv, OneStream, OneThread, NEW s \in UserStreams
                PROVE  /\ head(s, "merge") /\ IsPool(Head(stream[s]).buf) =>
                            holder[Head(stream[s]).buf[2]] = Head(stream[s]).coll
                       /\ head(s, "callback") /\ pending[s] # <<>> /\ IsPool(Head(pending[s]).tmp) =>
                            holder[Head(pending[s]).tmp[2]] = Head(pending[s]).coll
    BY DEF ScratchIntact
  <2>0. Types /\ RecordedInv /\ StagedInv /\ s \in Streams
    BY DEF OwnedInv, BufferInv, TimingInv, OrderedInv, RecordedInv, StreamsInv, ScratchInv, Streams
  <2>1. ASSUME stream[s] # <<>> PROVE /\ 1 \in 1 .. Len(stream[s]) /\ stream[s][1] = Head(stream[s])
                                      /\ StagedItem(s, 1) /\ Head(stream[s]).buf \in Buffers
    <3>1. /\ 1 \in 1 .. Len(stream[s]) /\ stream[s][1] = Head(stream[s]) /\ Head(stream[s]) \in ItemsOf(s)
      BY <2>0, <2>1, HeadItem
    <3>. QED BY <2>0, <3>1 DEF StagedInv, ItemsOf, Items
  <2>2. ASSUME head(s, "merge"), IsPool(Head(stream[s]).buf)
        PROVE  holder[Head(stream[s]).buf[2]] = Head(stream[s]).coll
    <3>1. Staged(s, 1, Head(stream[s]).buf, Head(stream[s]).coll)
      BY <2>1, <2>2 DEF head, StagedItem
    <3>. QED BY <2>0, <2>1, <2>2, <3>1, StagedFirst DEF head
  <2>3. ASSUME head(s, "callback"), IsPool(Head(pending[s]).tmp)
        PROVE  holder[Head(pending[s]).tmp[2]] = Head(pending[s]).coll
    <3>1. /\ Head(pending[s]) \in Records(s) /\ Calls(stream[s], 1) = 1 /\ Head(pending[s]) = pending[s][1]
      BY <2>0, <2>3, FirstRecord
    <3>2. Staged(s, 1, Head(pending[s]).tmp, Head(pending[s]).coll)
      BY <2>1, <2>3, <3>1 DEF head, StagedItem, IsCall
    <3>3. Head(pending[s]).tmp \in Buffers
      BY <3>1 DEF Records
    <3>. QED BY <2>0, <2>3, <3>2, <3>3, StagedFirst
  <2>. QED BY <2>2, <2>3
<1>. QED BY <1>1, OwnedInit, OwnedStay, PTL DEF Spec

(* What a collective uses is its own, for whatever the threads run and     *)
(* however they interleave: its tickets, tokens, streams and records       *)
(* (RegisterStreamPending, BeginCollectiveValueSync), the staging buffers  *)
(* it is given, its completion record and the timers on it; for initial    *)
(* shares that are shares, as GetStaticAlpha and InitialAlpha see to it.   *)
THEOREM ResourcesStayOwned ==
  ASSUME SharesGiven
  PROVE  Spec => []ResourcesOwned
<1>1. OwnedInv => TypeOK
  <2>. SUFFICES ASSUME OwnedInv PROVE TypeOK
    OBVIOUS
  <2>0. Types /\ TokensInv /\ DoneTokensInv /\ HolderType
    BY DEF OwnedInv, BufferInv, TimingInv, OrderedInv, RecordedInv, StreamsInv, InputInv, OverInv, ScratchInv
  <2>1. program \in Programs /\ \A t \in Threads : index[t] \in DOMAIN program.calls[t] /\ ticket[t] \in Nat
    BY <2>0 DEF Types, ThreadTypes
  <2>2. \A s \in Streams : \A k \in DOMAIN stream[s] : stream[s][k].kind \in Kinds
    BY <2>0, StreamLengths DEF Types, StreamTypes, ItemsOf, Items
  <2>3. \A x \in Contexts : \A k \in 0 .. RingSize - 1 :
          token[x].input[k] < sequence[x] /\ token[x].done[k] < sequence[x]
    BY <2>0 DEF TokensInv, DoneTokensInv, Slots
  <2>4. \A s \in UserStreams : \A k \in DOMAIN pending[s] : pending[s][k].coll \in Colls
    <3>. SUFFICES ASSUME NEW s \in UserStreams, NEW k \in DOMAIN pending[s] PROVE pending[s][k].coll \in Colls
      OBVIOUS
    <3>1. pending[s] \in Seq(Records(s))
      BY <2>0 DEF Types, StreamTypes
    <3>2. pending[s][k] \in Records(s)
      BY <3>1
    <3>. QED BY <3>2 DEF Records
  <2>5. \A d \in Domains : holder[d] \in Colls \cup {Nobody}
    BY <2>0 DEF HolderType
  <2>6. \A k \in DOMAIN param : param[k].alpha \in 0 .. 1000 /\ algo[k].alpha \in 0 .. 1000
    BY <2>0, SMTT(20) DEF Types, FeedbackTypes, Algos, Params, Shares
  <2>. QED BY <2>1, <2>2, <2>3, <2>4, <2>5, <2>6 DEF TypeOK
<1>2. Spec => []TypeOK
  BY <1>1, OwnedInit, OwnedStay, PTL DEF Spec
<1>3. TypeOK /\ ScratchIntact /\ BuffersLive /\ CallbackFindsWork /\ TimersAreOwn => ResourcesOwned
  BY DEF ResourcesOwned
<1>. QED BY <1>2, <1>3, ScratchStaysIntact, BuffersStayLive, CallbacksFindWork, TimersStayOwn, PTL

=============================================================================
