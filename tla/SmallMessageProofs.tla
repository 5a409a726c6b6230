------------------------- MODULE SmallMessageProofs -------------------------
(***************************************************************************)
(* Proofs about SmallMessage for any number of ranks, any calls and with   *)
(* failures and timeouts anywhere.                                         *)
(*                                                                         *)
(* The argument.  The items of a rank only grow (Callers, Items), so each  *)
(* rank answers for an item once, and who has collected the answer of a    *)
(* peer knows that the peer is past giving it (Asked).  The slot that held *)
(* the answer may meanwhile hold that of a later item, so that two ranks   *)
(* need not find the same word there; what they compute is fixed by the    *)
(* answers that were given, whether or not they are still to be read       *)
(* (Answered).                                                             *)
(***************************************************************************)
EXTENDS SmallMessage, SequenceTheorems, TLAPS

-----------------------------------------------------------------------------
(* Queues *)

(* What Append makes of a sequence. *)
LEMMA Pushed ==
  ASSUME NEW S, NEW s \in Seq(S), NEW e \in S
  PROVE  /\ Append(s, e) \in Seq(S)
         /\ Len(s) \in Nat /\ Len(Append(s, e)) = Len(s) + 1
         /\ \A i \in 1 .. Len(s) : Append(s, e)[i] = s[i] /\ s[i] \in S
         /\ Append(s, e)[Len(s) + 1] = e
OBVIOUS

(* What Tail leaves of a sequence. *)
LEMMA Popped ==
  ASSUME NEW S, NEW s \in Seq(S), s # <<>>
  PROVE  /\ Tail(s) \in Seq(S)
         /\ Len(s) \in Nat \ {0} /\ Len(Tail(s)) = Len(s) - 1
         /\ \A i \in 1 .. Len(s) - 1 : Tail(s)[i] = s[i + 1] /\ i + 1 \in 1 .. Len(s)
         /\ Head(s) = s[1] /\ Head(s) \in S
OBVIOUS

-----------------------------------------------------------------------------

ExecutorStates ==
  {"idle", "doorbell", "publish", "resolve", "stage", "staging", "sources", "sync", "barrier"}

(* The executor has decided how it exchanges its item. *)
Decided == {"stage", "staging", "sources", "sync", "barrier"}

NumItems == Len(setup.work)
TopologyDirect == CollectiveTopologyCanAllDirect(setup.peers)

Types ==
  /\ setup \in Setups
  /\ DOMAIN ipc_record = Ranks
  /\ registered \in [Ranks -> Nat] /\ admitted \in [Ranks -> Nat] /\ pushed \in [Ranks -> Nat]
  /\ rung \in [Ranks -> Nat] /\ item \in [Ranks -> Nat] /\ peer \in [Ranks -> Nat]
  /\ pc \in [Ranks -> ExecutorStates]
  /\ queue \in [Ranks -> Seq(Nat)]
  /\ all_direct \in [Ranks -> BOOLEAN]
  /\ direct_status \in [Ranks -> [0 .. QueueDepth - 1 -> Nat \X BOOLEAN]]

(* One call at a time; an item is admitted only while there is room for it. *)
Callers(r) ==
  /\ pushed[r] <= admitted[r] /\ admitted[r] <= registered[r]
  /\ registered[r] <= pushed[r] + 1 /\ registered[r] <= NumItems
  /\ InFlight(r) + (admitted[r] - pushed[r]) <= QueueDepth
  /\ rung[r] <= admitted[r]
  /\ ipc_record[r] \in {NoRecord} \cup {setup.work[k].send[r] : k \in DOMAIN setup.work}

(* A rank's items grow. *)
Items(r) ==
  /\ item[r] <= pushed[r]
  /\ pc[r] # "idle" => item[r] >= 1
  /\ \A i \in 1 .. Len(queue[r]) : item[r] < queue[r][i] /\ queue[r][i] <= pushed[r]
  /\ \A i, j \in 1 .. Len(queue[r]) : i < j => queue[r][i] < queue[r][j]

Indices(r) ==
  /\ peer[r] <= NumRanks + 1
  /\ pc[r] = "resolve" => peer[r] < NumRanks
  /\ pc[r] = "sources" => peer[r] \in 1 .. Len(Sources(r, Request(r)))

RankOK(r) == Callers(r) /\ Items(r) /\ Indices(r)

(* Rank p gives no further answer for item k. *)
Past(p, k) == item[p] > k \/ (item[p] = k /\ pc[p] \notin {"doorbell", "publish"})

(* An answer that is published or has been collected has been given.       *)
EntryAsked(p, s) == Past(p, direct_status[p][s][1])

RankAsked(r) ==
  /\ pc[r] \in {"publish", "resolve"} => TopologyDirect
  /\ pc[r] = "resolve" => \A p \in 0 .. peer[r] - 1 : Past(p, item[r])
  /\ pc[r] \in Decided /\ TopologyDirect => \A p \in Ranks : Past(p, item[r])

Asked ==
  /\ \A p \in Ranks, s \in 0 .. QueueDepth - 1 : EntryAsked(p, s)
  /\ \A r \in Ranks : RankAsked(r)

(* ans[p][k] is the answer of rank p for item k, if it has given one. *)
EntryExplained(p, s, ans) ==
  direct_status[p][s][1] # 0 => (direct_status[p][s][2] <=> ans[p][direct_status[p][s][1]])

RankExplained(r, ans) ==
  /\ pc[r] = "resolve" => (all_direct[r] <=> \A p \in 0 .. peer[r] - 1 : ans[p][item[r]])
  /\ pc[r] \in Decided => (all_direct[r] <=> TopologyDirect /\ \A p \in Ranks : ans[p][item[r]])

Explains(ans) ==
  /\ \A p \in Ranks, s \in 0 .. QueueDepth - 1 : EntryExplained(p, s, ans)
  /\ \A r \in Ranks : RankExplained(r, ans)

Answered == \E ans \in [Ranks -> [Nat -> BOOLEAN]] : Explains(ans)

IInv == Types /\ (\A r \in Ranks : RankOK(r)) /\ Asked /\ Answered

-----------------------------------------------------------------------------
(* One rank *)

(* The calls of a setup are numbered from 1, and all are of a kind that    *)
(* makeSmallMessageRequest accepts.                                        *)
LEMMA WorkFacts ==
  ASSUME setup \in Setups
  PROVE  /\ NumItems \in Nat /\ DOMAIN setup.work = 1 .. NumItems
         /\ \A k \in 1 .. NumItems : setup.work[k].kind \in {"AllGather", "AllReduce", "ReduceScatter"}
<1>1. setup.work \in Seq({setup.work[k] : k \in DOMAIN setup.work})
  BY SmallMessageAssumption
<1>2. NumItems \in Nat /\ DOMAIN setup.work = 1 .. NumItems
  BY <1>1 DEF NumItems
<1>. QED BY <1>2, SmallMessageAssumption

(* A collective takes each rank at most once: as many sources as ranks, or *)
(* all but the rank itself for an all-reduce in place.                     *)
LEMMA SourcesFacts ==
  ASSUME NEW r \in Ranks, NEW req, req.kind \in {"AllGather", "AllReduce", "ReduceScatter"}
  PROVE  Len(Sources(r, req)) \in 1 .. NumRanks
<1>1. NumRanks \in Nat /\ NumRanks >= 2
  BY SmallMessageAssumption
<1>2. \A q \in Ranks : AllBut(q) \in Seq(Int) /\ Len(AllBut(q)) = NumRanks - 1
  <2>. TAKE q \in Ranks
  <2>1. AllBut(q) \in [1 .. NumRanks - 1 -> Int] /\ NumRanks - 1 \in Nat
    BY <1>1 DEF AllBut, Ranks
  <2>. QED BY <2>1
<1>3. Everybody \in Seq(Int) /\ Len(Everybody) = NumRanks
  <2>1. Everybody \in [1 .. NumRanks -> Int]
    BY DEF Everybody
  <2>. QED BY <1>1, <2>1
<1>4. CASE req.kind = "AllGather"
  BY <1>1, <1>3, <1>4 DEF Sources
<1>5. ASSUME NEW q \in Ranks PROVE Len(<<q>> \o AllBut(q)) = NumRanks
  <2>1. <<q>> \in Seq(Int) /\ Len(<<q>>) = 1
    BY DEF Ranks
  <2>. QED BY <1>1, <1>2, <2>1
<1>6. CASE req.kind = "ReduceScatter"
  <2>1. Sources(r, req) = <<r>> \o AllBut(r)
    BY <1>6 DEF Sources
  <2>. QED BY <1>1, <1>5, <2>1
<1>7. CASE req.kind = "AllReduce"
  <2>. DEFINE first == IF r = 0 THEN 1 ELSE 0
  <2>1. first \in Ranks
    BY <1>1 DEF Ranks
  <2>2. Sources(r, req) \in {AllBut(r), <<first>> \o AllBut(first)}
    BY <1>7 DEF Sources
  <2>. HIDE DEF first
  <2>. QED BY <1>1, <1>2, <1>5, <2>1, <2>2
<1>. QED BY <1>4, <1>6, <1>7

(* The counters are numbers (submit and the executor thread count up from  *)
(* zero), and so is what a rank has in hand.                               *)
LEMMA CountsAreNumbers ==
  ASSUME Types, NEW r \in Ranks
  PROVE  /\ registered[r] \in Nat /\ admitted[r] \in Nat /\ pushed[r] \in Nat
         /\ rung[r] \in Nat /\ item[r] \in Nat /\ peer[r] \in Nat
         /\ queue[r] \in Seq(Nat) /\ Len(queue[r]) \in Nat /\ InFlight(r) \in Nat
         /\ pc[r] \in ExecutorStates /\ all_direct[r] \in BOOLEAN
<1>1. queue[r] \in Seq(Nat) /\ Len(queue[r]) \in Nat
  BY DEF Types
<1>2. InFlight(r) \in Nat
  <2>1. CASE pc[r] = "idle"
    BY <1>1, <2>1 DEF InFlight
  <2>2. CASE pc[r] # "idle"
    BY <1>1, <2>2 DEF InFlight
  <2>. QED BY <2>1, <2>2
<1>3. registered[r] \in Nat /\ admitted[r] \in Nat /\ pushed[r] \in Nat
  BY DEF Types
<1>4. rung[r] \in Nat /\ item[r] \in Nat /\ peer[r] \in Nat
  BY DEF Types
<1>. QED BY <1>1, <1>2, <1>3, <1>4 DEF Types

(* What a step of another rank leaves of a rank, and what a rank needs to  *)
(* stay as it should be: the calls and the executor of a rank are its own. *)
Kept(q) ==
  /\ registered'[q] = registered[q] /\ admitted'[q] = admitted[q] /\ pushed'[q] = pushed[q]
  /\ rung'[q] = rung[q] /\ item'[q] = item[q] /\ peer'[q] = peer[q]
  /\ pc'[q] = pc[q] /\ queue'[q] = queue[q] /\ ipc_record'[q] = ipc_record[q]
  /\ all_direct'[q] = all_direct[q]

(* What a rank has in hand stays in order when a step leaves all of it     *)
(* alone.                                                                  *)
LEMMA KeptOK ==
  ASSUME setup' = setup, NEW q \in Ranks, RankOK(q), Kept(q)
  PROVE  RankOK(q)'
<1>1. Request(q)' = Request(q) /\ InFlight(q)' = InFlight(q) /\ NumItems' = NumItems
  BY DEF Kept, Request, InFlight, NumItems
<1>. QED BY <1>1 DEF Kept, RankOK, Callers, Items, Indices

(* The thread that calls the collectives registers, admits, and queues or  *)
(* gives up one call after the other.                                      *)
LEMMA CallerStepOK ==
  ASSUME Types, NEW r \in Ranks, RankOK(r), CallerStep(r)
  PROVE  Types' /\ RankOK(r)'
<1>0. NumItems \in Nat /\ DOMAIN setup.work = 1 .. NumItems /\ QueueDepth \in Nat
  BY WorkFacts, SmallMessageAssumption DEF Types
<1>1. CASE Register(r)
  <2>1. /\ UNCHANGED <<setup, admitted, pushed, queue, pc, item, peer, rung, all_direct, direct_status>>
        /\ registered[r] = pushed[r] /\ registered[r] < NumItems
        /\ registered' = [registered EXCEPT ![r] = @ + 1]
        /\ \/ ipc_record' = ipc_record
           \/ ipc_record' = [ipc_record EXCEPT ![r] = setup.work[registered[r] + 1].send[r]]
    BY <1>1 DEF Register, shared, executor, NumItems
  <2>2. Types'
    BY <2>1 DEF Types
  <2>3. registered[r] + 1 \in DOMAIN setup.work
    BY <1>0, <2>1 DEF Types
  <2>4. ipc_record'[r] \in {ipc_record[r], setup.work[registered[r] + 1].send[r]}
    BY <2>1 DEF Types
  <2>5. ipc_record'[r] \in {NoRecord} \cup {setup.work[k].send[r] : k \in DOMAIN setup.work}
    BY <2>3, <2>4 DEF RankOK, Callers
  <2>6. InFlight(r)' = InFlight(r) /\ NumItems' = NumItems /\ Request(r)' = Request(r)
    BY <2>1 DEF InFlight, NumItems, Request
  <2>7. Callers(r)'
    <3>1. registered'[r] = registered[r] + 1 /\ admitted'[r] = admitted[r] /\ pushed'[r] = pushed[r] /\ rung'[r] = rung[r]
      BY <2>1 DEF Types
    <3>2. setup' = setup
      BY <2>1
    <3>3. /\ registered[r] = pushed[r] /\ admitted[r] = pushed[r] /\ InFlight(r) <= QueueDepth
          /\ rung[r] <= admitted[r]
      <4>1. pushed[r] <= admitted[r] /\ admitted[r] <= registered[r] /\ registered[r] = pushed[r]
        BY <2>1 DEF RankOK, Callers
      <4>2. registered[r] = pushed[r] /\ admitted[r] = pushed[r]
        BY <4>1, CountsAreNumbers
      <4>3. InFlight(r) + (admitted[r] - pushed[r]) <= QueueDepth /\ rung[r] <= admitted[r]
        BY DEF RankOK, Callers
      <4>. QED BY <4>2, <4>3, CountsAreNumbers
    <3>4. registered[r] < NumItems
      BY <2>1
    <3>5. InFlight(r)' + (admitted'[r] - pushed'[r]) <= QueueDepth
      BY <2>6, <3>1, <3>3, CountsAreNumbers
    <3>6. /\ pushed'[r] <= admitted'[r] /\ admitted'[r] <= registered'[r]
          /\ registered'[r] <= pushed'[r] + 1 /\ registered'[r] <= NumItems'
          /\ rung'[r] <= admitted'[r]
      BY <1>0, <2>6, <3>1, <3>3, <3>4, CountsAreNumbers
    <3>. QED BY <2>5, <3>2, <3>5, <3>6 DEF Callers
  <2>8. Items(r)' /\ Indices(r)'
    BY <2>1, <2>6 DEF RankOK, Items, Indices
  <2>. QED BY <2>2, <2>7, <2>8 DEF RankOK
<1>2. CASE Admit(r)
  <2>1. /\ UNCHANGED <<setup, ipc_record, registered, pushed, queue, pc, item, peer, rung, all_direct, direct_status>>
        /\ admitted[r] < registered[r] /\ InFlight(r) < QueueDepth
        /\ admitted' = [admitted EXCEPT ![r] = @ + 1]
    BY <1>2 DEF Admit, shared, executor
  <2>2. Types'
    BY <2>1 DEF Types
  <2>3. InFlight(r)' = InFlight(r) /\ NumItems' = NumItems /\ Request(r)' = Request(r)
    BY <2>1 DEF InFlight, NumItems, Request
  <2>4. InFlight(r) \in Nat
    BY DEF InFlight, Types
  <2>5. Callers(r)'
    <3>1. registered'[r] = registered[r] /\ admitted'[r] = admitted[r] + 1 /\ pushed'[r] = pushed[r] /\ rung'[r] = rung[r]
      BY <2>1 DEF Types
    <3>2. setup' = setup /\ ipc_record' = ipc_record
      BY <2>1
    <3>3. admitted[r] = pushed[r]
      BY <2>1, CountsAreNumbers DEF RankOK, Callers
    <3>. QED BY <1>0, <2>1, <2>3, <3>1, <3>2, <3>3, CountsAreNumbers, SMTT(30) DEF RankOK, Callers
  <2>6. Items(r)' /\ Indices(r)'
    BY <2>1, <2>3 DEF RankOK, Items, Indices
  <2>. QED BY <2>2, <2>5, <2>6 DEF RankOK
<1>3. CASE Refuse(r)
  <2>1. UNCHANGED <<setup, ipc_record, registered, admitted, pushed, queue, pc, item, peer, rung, all_direct,
                    direct_status>>
    BY <1>3 DEF Refuse, shared
  <2>2. Types'
    BY <2>1 DEF Types
  <2>. QED BY <2>1, <2>2, KeptOK DEF Kept
<1>4. CASE Push(r)
  <2>1. /\ UNCHANGED <<setup, ipc_record, registered, admitted, pc, item, peer, rung, all_direct, direct_status>>
        /\ pushed[r] < admitted[r]
        /\ pushed' = [pushed EXCEPT ![r] = @ + 1]
        /\ queue' = [queue EXCEPT ![r] = Append(@, admitted[r])]
    BY <1>4 DEF Push, shared
  <2>2. admitted[r] = pushed[r] + 1 /\ admitted[r] \in Nat /\ pushed[r] \in Nat
    BY <2>1 DEF RankOK, Callers, Types
  <2>3. queue[r] \in Seq(Nat) /\ queue'[r] = Append(queue[r], admitted[r]) /\ pushed'[r] = admitted[r]
    BY <2>1, <2>2 DEF Types
  <2>4. /\ queue'[r] \in Seq(Nat)
        /\ Len(queue[r]) \in Nat /\ Len(queue'[r]) = Len(queue[r]) + 1
        /\ \A i \in 1 .. Len(queue[r]) : queue'[r][i] = queue[r][i] /\ queue[r][i] \in Nat
        /\ queue'[r][Len(queue[r]) + 1] = admitted[r]
    BY <2>2, <2>3, Pushed
  <2>5. Types'
    BY <2>1, <2>4, SMTT(30) DEF Types
  <2>6. NumItems' = NumItems /\ Request(r)' = Request(r)
    BY <2>1 DEF NumItems, Request
  <2>7. InFlight(r)' = InFlight(r) + 1 /\ InFlight(r) \in Nat
    <3>1. pc' = pc /\ Len(queue'[r]) = Len(queue[r]) + 1 /\ Len(queue[r]) \in Nat
      BY <2>1, <2>4
    <3>2. CASE pc[r] = "idle"
      BY <3>1, <3>2 DEF InFlight
    <3>3. CASE pc[r] # "idle"
      BY <3>1, <3>3 DEF InFlight
    <3>. QED BY <3>2, <3>3
  <2>8. Callers(r)'
    <3>1. registered'[r] = registered[r] /\ admitted'[r] = admitted[r] /\ rung'[r] = rung[r]
      BY <2>1
    <3>2. setup' = setup /\ ipc_record' = ipc_record
      BY <2>1
    <3>3. /\ admitted[r] <= registered[r] /\ registered[r] <= pushed[r] + 1 /\ registered[r] <= NumItems
          /\ InFlight(r) + (admitted[r] - pushed[r]) <= QueueDepth /\ rung[r] <= admitted[r]
          /\ ipc_record[r] \in {NoRecord} \cup {setup.work[k].send[r] : k \in DOMAIN setup.work}
      BY DEF RankOK, Callers
    <3>4. InFlight(r)' + (admitted'[r] - pushed'[r]) <= QueueDepth
      BY <2>2, <2>3, <2>7, <3>1, <3>3, CountsAreNumbers
    <3>5. /\ pushed'[r] <= admitted'[r] /\ admitted'[r] <= registered'[r]
          /\ registered'[r] <= pushed'[r] + 1 /\ registered'[r] <= NumItems'
          /\ rung'[r] <= admitted'[r]
      BY <1>0, <2>2, <2>3, <2>6, <3>1, <3>3, CountsAreNumbers, SMTT(30)
    <3>. QED BY <3>2, <3>3, <3>4, <3>5 DEF Callers
  <2>9. Items(r)'
    <3>1. item'[r] = item[r] /\ pc'[r] = pc[r] /\ item[r] \in Nat
      BY <2>1 DEF Types
    <3>2. \A i \in 1 .. Len(queue[r]) : item[r] < queue[r][i] /\ queue[r][i] <= pushed[r]
      BY DEF RankOK, Items
    <3>3. item[r] <= pushed[r] /\ (pc[r] # "idle" => item[r] >= 1)
      BY DEF RankOK, Items
    <3>4. \A i \in 1 .. Len(queue'[r]) : item'[r] < queue'[r][i] /\ queue'[r][i] <= pushed'[r]
      BY <2>2, <2>3, <2>4, <3>1, <3>2, <3>3, SMTT(30)
    <3>5. \A i, j \in 1 .. Len(queue'[r]) : i < j => queue'[r][i] < queue'[r][j]
      <4>. SUFFICES ASSUME NEW i \in 1 .. Len(queue'[r]), NEW j \in 1 .. Len(queue'[r]), i < j
                   PROVE  queue'[r][i] < queue'[r][j]
        OBVIOUS
      <4>1. i \in 1 .. Len(queue[r])
        BY <2>4
      <4>2. CASE j = Len(queue[r]) + 1
        BY <2>2, <2>4, <3>2, <4>1, <4>2, SMTT(30)
      <4>3. CASE j # Len(queue[r]) + 1
        <5>1. j \in 1 .. Len(queue[r])
          BY <2>4, <4>3
        <5>. QED BY <2>4, <4>1, <5>1 DEF RankOK, Items
      <4>. QED BY <4>2, <4>3
    <3>. QED BY <2>2, <2>3, <3>1, <3>3, <3>4, <3>5 DEF Items
  <2>10. Indices(r)'
    BY <2>1, <2>6 DEF RankOK, Indices
  <2>. QED BY <2>5, <2>8, <2>9, <2>10 DEF RankOK
<1>. QED BY <1>1, <1>2, <1>3, <1>4 DEF CallerStep

(* The user stream rings only doorbells that submit has put on it. *)
LEMMA UserRingOK ==
  ASSUME Types, NEW r \in Ranks, RankOK(r), UserRing(r)
  PROVE  Types' /\ RankOK(r)'
<1>1. /\ UNCHANGED <<setup, ipc_record, registered, admitted, pushed, queue, pc, item, peer, all_direct,
                     direct_status>>
      /\ rung[r] < admitted[r]
      /\ rung' = [rung EXCEPT ![r] = @ + 1]
  BY DEF UserRing, shared, caller, executor
<1>2. rung'[r] = rung[r] + 1
  BY <1>1 DEF Types
<1>3. Types'
  BY <1>1 DEF Types
<1>4. InFlight(r)' = InFlight(r) /\ NumItems' = NumItems /\ Request(r)' = Request(r)
  BY <1>1 DEF InFlight, NumItems, Request
<1>5. rung'[r] <= admitted[r]
  BY <1>1, <1>2, CountsAreNumbers
<1>6. Callers(r)'
  BY <1>1, <1>4, <1>5 DEF RankOK, Callers
<1>7. Items(r)' /\ Indices(r)'
  BY <1>1, <1>4 DEF RankOK, Items, Indices
<1>. QED BY <1>3, <1>6, <1>7 DEF RankOK

(* The executor at work on an item, at one place of execute and at the     *)
(* next: nothing of the caller or the queue changes.                       *)
AtWork(r) ==
  /\ UNCHANGED <<setup, ipc_record, registered, admitted, pushed, rung, queue, item>>
  /\ pc[r] # "idle" /\ pc'[r] # "idle"

(* A step of the executor inside a work item leaves the caller and the     *)
(* queue of the rank as they are.                                          *)
LEMMA AtWorkOK ==
  ASSUME NEW r \in Ranks, RankOK(r), AtWork(r)
  PROVE  Callers(r)' /\ Items(r)' /\ Request(r)' = Request(r)
<1>1. NumItems' = NumItems /\ Request(r)' = Request(r)
  BY DEF AtWork, NumItems, Request
<1>2. InFlight(r)' = InFlight(r)
  BY DEF AtWork, InFlight
<1>3. Callers(r)'
  BY <1>1, <1>2 DEF AtWork, RankOK, Callers
<1>4. Items(r)'
  BY DEF AtWork, RankOK, Items
<1>. QED BY <1>1, <1>3, <1>4

(* threadFunc takes the oldest item of the queue. *)
LEMMA PopOK ==
  ASSUME Types, NEW r \in Ranks, RankOK(r), Pop(r)
  PROVE  Types' /\ RankOK(r)' /\ item'[r] > item[r]
<1>1. /\ UNCHANGED <<setup, ipc_record, registered, admitted, pushed, peer, rung, all_direct, direct_status>>
      /\ pc[r] = "idle" /\ queue[r] # <<>>
      /\ item' = [item EXCEPT ![r] = Head(queue[r])]
      /\ queue' = [queue EXCEPT ![r] = Tail(@)]
      /\ pc' = [pc EXCEPT ![r] = "doorbell"]
  BY DEF Pop, shared, caller, Goto
<1>2. queue[r] \in Seq(Nat) /\ item'[r] = Head(queue[r]) /\ queue'[r] = Tail(queue[r]) /\ pc'[r] = "doorbell"
  BY <1>1 DEF Types
<1>3. /\ queue'[r] \in Seq(Nat)
      /\ Len(queue[r]) \in Nat \ {0} /\ Len(queue'[r]) = Len(queue[r]) - 1
      /\ \A i \in 1 .. Len(queue[r]) - 1 : queue'[r][i] = queue[r][i + 1] /\ i + 1 \in 1 .. Len(queue[r])
      /\ item'[r] = queue[r][1] /\ item'[r] \in Nat
  <2>. DEFINE s == queue[r]
  <2>1. s \in Seq(Nat) /\ s # <<>> /\ item'[r] = Head(s) /\ queue'[r] = Tail(s)
    BY <1>1, <1>2
  <2>. HIDE DEF s
  <2>2. /\ Tail(s) \in Seq(Nat)
        /\ Len(s) \in Nat \ {0} /\ Len(Tail(s)) = Len(s) - 1
        /\ \A i \in 1 .. Len(s) - 1 : Tail(s)[i] = s[i + 1] /\ i + 1 \in 1 .. Len(s)
        /\ Head(s) = s[1] /\ Head(s) \in Nat
    BY <2>1, Popped
  <2>3. /\ queue'[r] \in Seq(Nat)
        /\ Len(s) \in Nat \ {0} /\ Len(queue'[r]) = Len(s) - 1
        /\ \A i \in 1 .. Len(s) - 1 : queue'[r][i] = s[i + 1] /\ i + 1 \in 1 .. Len(s)
        /\ item'[r] = s[1] /\ item'[r] \in Nat
    BY <2>1, <2>2
  <2>. QED BY <2>3 DEF s
<1>4. Types'
  <2>1. item' \in [Ranks -> Nat] /\ queue' \in [Ranks -> Seq(Nat)]
    BY <1>1, <1>2, <1>3 DEF Types
  <2>2. pc' \in [Ranks -> ExecutorStates]
    BY <1>1 DEF Types, ExecutorStates
  <2>. QED BY <1>1, <2>1, <2>2 DEF Types
<1>5. InFlight(r)' = InFlight(r) /\ NumItems' = NumItems
  <2>1. InFlight(r) = Len(queue[r])
    BY <1>1, <1>3 DEF InFlight
  <2>2. InFlight(r)' = Len(queue'[r]) + 1
    BY <1>2, <1>3 DEF InFlight
  <2>. QED BY <1>1, <1>3, <2>1, <2>2 DEF NumItems
<1>6. Callers(r)'
  BY <1>1, <1>5 DEF RankOK, Callers
<1>7. item'[r] > item[r] /\ item'[r] <= pushed[r]
  <2>1. 1 \in 1 .. Len(queue[r])
    BY <1>3
  <2>. QED BY <1>3, <2>1, CountsAreNumbers DEF RankOK, Items
<1>8. Items(r)'
  <2>1. item'[r] >= 1
    BY <1>3, <1>7, CountsAreNumbers
  <2>2. \A i \in 1 .. Len(queue'[r]) : item'[r] < queue'[r][i] /\ queue'[r][i] <= pushed[r]
    <3>. TAKE i \in 1 .. Len(queue'[r])
    <3>1. i + 1 \in 1 .. Len(queue[r]) /\ 1 \in 1 .. Len(queue[r]) /\ 1 < i + 1 /\ queue'[r][i] = queue[r][i + 1]
      BY <1>3
    <3>. QED BY <1>3, <3>1 DEF RankOK, Items
  <2>3. \A i, j \in 1 .. Len(queue'[r]) : i < j => queue'[r][i] < queue'[r][j]
    <3>. TAKE i, j \in 1 .. Len(queue'[r])
    <3>1. /\ i + 1 \in 1 .. Len(queue[r]) /\ queue'[r][i] = queue[r][i + 1]
          /\ j + 1 \in 1 .. Len(queue[r]) /\ queue'[r][j] = queue[r][j + 1]
          /\ i < j => i + 1 < j + 1
      BY <1>3
    <3>. QED BY <3>1 DEF RankOK, Items
  <2>4. pushed' = pushed
    BY <1>1
  <2>. QED BY <1>7, <2>1, <2>2, <2>3, <2>4 DEF Items
<1>9. Indices(r)'
  BY <1>1, <1>2 DEF RankOK, Indices
<1>. QED BY <1>4, <1>6, <1>7, <1>8, <1>9 DEF RankOK

(* finishWork returns the slot of the item, and after a failure those of   *)
(* the queued ones too.                                                    *)
LEMMA WorkEndsOK ==
  ASSUME Types, NEW r \in Ranks, RankOK(r), FinishWork(r) \/ FailWork(r)
  PROVE  Types' /\ RankOK(r)'
<1>1. /\ UNCHANGED <<setup, ipc_record, registered, admitted, pushed, item, peer, rung, all_direct, direct_status>>
      /\ pc' = [pc EXCEPT ![r] = "idle"]
      /\ pc[r] # "idle"
      /\ queue' = queue \/ queue' = [queue EXCEPT ![r] = <<>>]
  BY DEF FinishWork, FailWork, shared, caller, Goto
<1>2. pc'[r] = "idle" /\ (queue'[r] = queue[r] \/ queue'[r] = <<>>)
  BY <1>1 DEF Types
<1>3. Types'
  <2>1. pc' \in [Ranks -> ExecutorStates]
    BY <1>1 DEF Types, ExecutorStates
  <2>2. <<>> \in Seq(Nat)
    OBVIOUS
  <2>3. queue' \in [Ranks -> Seq(Nat)]
    BY <1>1, <2>2 DEF Types
  <2>. QED BY <1>1, <2>1, <2>3 DEF Types
<1>4. InFlight(r)' = Len(queue'[r])
  <2>1. Len(queue'[r]) \in Nat
    BY <1>2, CountsAreNumbers
  <2>. QED BY <1>2, <2>1 DEF InFlight
<1>5. InFlight(r)' \in Nat /\ InFlight(r)' <= InFlight(r)
  <2>1. InFlight(r) = Len(queue[r]) + 1
    BY <1>1 DEF InFlight
  <2>2. CASE queue'[r] = queue[r]
    BY <1>4, <2>1, <2>2, CountsAreNumbers
  <2>3. CASE queue'[r] = <<>>
    BY <1>4, <2>1, <2>3, CountsAreNumbers
  <2>. QED BY <1>2, <2>2, <2>3
<1>6. Callers(r)'
  <2>1. NumItems' = NumItems
    BY <1>1 DEF NumItems
  <2>2. InFlight(r)' + (admitted[r] - pushed[r]) <= QueueDepth
    <3>1. InFlight(r) + (admitted[r] - pushed[r]) <= QueueDepth
      BY DEF RankOK, Callers
    <3>. QED BY <1>5, <3>1, CountsAreNumbers, SmallMessageAssumption
  <2>. QED BY <1>1, <2>1, <2>2 DEF RankOK, Callers
<1>7. Items(r)'
  <2>1. CASE queue'[r] = queue[r]
    BY <1>1, <1>2, <2>1 DEF RankOK, Items
  <2>2. CASE queue'[r] = <<>>
    <3>1. 1 .. Len(queue'[r]) = {}
      BY <2>2
    <3>. QED BY <1>1, <1>2, <3>1 DEF RankOK, Items
  <2>. QED BY <1>2, <2>1, <2>2
<1>8. Indices(r)'
  BY <1>1, <1>2 DEF RankOK, Indices
<1>. QED BY <1>3, <1>6, <1>7, <1>8 DEF RankOK

(* The slot of an item (fastpathSlot) is one of the table's. *)
LEMMA SlotInRange ==
  ASSUME NEW k \in Nat \ {0}
  PROVE  Slot(k) \in 0 .. QueueDepth - 1
<1>1. k - 1 \in Nat /\ QueueDepth \in Nat \ {0}
  BY SmallMessageAssumption
<1>. QED BY <1>1 DEF Slot

(* execute, from the doorbell to the barrier, keeps its indices in range:  *)
(* the peers it has collected answers of and the sources it has read.      *)
WorkStep(r) ==
  \/ SeeDoorbell(r)
  \/ PublishDirect(r)
  \/ ResolveDirect(r)
  \/ Stage(r)
  \/ PublishStage(r)
  \/ ReadOwn(r)
  \/ ReadDirect(r)
  \/ ReadStaged(r)
  \/ EnterBarrier(r)

(* Each step of the executor inside a work item, from the doorbell to the  *)
(* barrier, keeps the rank in order.                                       *)
LEMMA WorkStepOK ==
  ASSUME Types, NEW r \in Ranks, RankOK(r), WorkStep(r)
  PROVE  Types' /\ RankOK(r)' /\ AtWork(r)
<1>0. NumRanks \in Nat /\ NumRanks >= 2
  BY SmallMessageAssumption
<1>1. CASE SeeDoorbell(r)
  <2>1. /\ UNCHANGED <<setup, ipc_record, registered, admitted, pushed, rung, queue, item, peer, direct_status>>
        /\ pc[r] = "doorbell"
        /\ \E where \in {"publish", "stage"} : pc' = [pc EXCEPT ![r] = where]
        /\ all_direct' = [all_direct EXCEPT ![r] = FALSE]
    BY <1>1 DEF SeeDoorbell, caller, Goto
  <2>2. Types'
    BY <2>1 DEF Types, ExecutorStates
  <2>3. pc'[r] \in {"publish", "stage"}
    BY <2>1 DEF Types
  <2>4. AtWork(r)
    BY <2>1, <2>3 DEF AtWork
  <2>5. Indices(r)'
    BY <2>1, <2>3 DEF RankOK, Indices
  <2>. QED BY <2>2, <2>4, <2>5, AtWorkOK DEF RankOK
<1>2. CASE PublishDirect(r)
  <2>1. /\ UNCHANGED <<setup, ipc_record, registered, admitted, pushed, rung, queue, item>>
        /\ pc[r] = "publish"
        /\ pc' = [pc EXCEPT ![r] = "resolve"]
        /\ peer' = [peer EXCEPT ![r] = 0]
        /\ all_direct' = [all_direct EXCEPT ![r] = TRUE]
    BY <1>2 DEF PublishDirect, caller, Goto
  <2>2. PICK answer \in BOOLEAN : direct_status' = [direct_status EXCEPT ![r][Slot(item[r])] = <<item[r], answer>>]
    BY <1>2 DEF PublishDirect, PublishDirectStatus
  <2>3. item[r] \in Nat \ {0} /\ Slot(item[r]) \in 0 .. QueueDepth - 1
    <3>1. item[r] \in Nat \ {0}
      BY <2>1, CountsAreNumbers DEF RankOK, Items
    <3>. QED BY <3>1, SlotInRange
  <2>4. direct_status' \in [Ranks -> [0 .. QueueDepth - 1 -> Nat \X BOOLEAN]]
    <3>1. <<item[r], answer>> \in Nat \X BOOLEAN
      BY <2>3
    <3>2. direct_status[r] \in [0 .. QueueDepth - 1 -> Nat \X BOOLEAN]
      BY DEF Types
    <3>3. [direct_status[r] EXCEPT ![Slot(item[r])] = <<item[r], answer>>] \in [0 .. QueueDepth - 1 -> Nat \X BOOLEAN]
      BY <2>3, <3>1, <3>2
    <3>4. direct_status' = [direct_status EXCEPT ![r] = [direct_status[r] EXCEPT ![Slot(item[r])] = <<item[r], answer>>]]
      BY <2>2
    <3>. QED BY <3>3, <3>4, Zenon DEF Types
  <2>5. Types'
    <3>1. pc' \in [Ranks -> ExecutorStates] /\ peer' \in [Ranks -> Nat] /\ all_direct' \in [Ranks -> BOOLEAN]
      BY <2>1 DEF Types, ExecutorStates
    <3>. QED BY <2>1, <2>4, <3>1 DEF Types
  <2>6. pc'[r] = "resolve" /\ peer'[r] = 0
    BY <2>1 DEF Types
  <2>7. AtWork(r)
    BY <2>1, <2>6 DEF AtWork
  <2>8. Indices(r)'
    BY <1>0, <2>6 DEF Indices
  <2>. QED BY <2>5, <2>7, <2>8, AtWorkOK DEF RankOK
<1>3. CASE ResolveDirect(r)
  <2>1. /\ UNCHANGED <<setup, ipc_record, registered, admitted, pushed, rung, queue, item, direct_status>>
        /\ pc[r] = "resolve"
        /\ pc' = [pc EXCEPT ![r] = IF peer[r] = NumRanks - 1 THEN "stage" ELSE "resolve"]
        /\ peer' = [peer EXCEPT ![r] = @ + 1]
        /\ all_direct' = [all_direct EXCEPT ![r] = @ /\ direct_status[peer[r]][Slot(item[r])][2]]
    BY <1>3 DEF ResolveDirect, shared, caller, Goto
  <2>2. peer[r] \in Nat /\ peer[r] < NumRanks
    BY <2>1, CountsAreNumbers DEF RankOK, Indices
  <2>3. peer'[r] = peer[r] + 1
    BY <2>1 DEF Types
  <2>4. pc'[r] = IF peer[r] = NumRanks - 1 THEN "stage" ELSE "resolve"
    BY <2>1 DEF Types
  <2>5. Types'
    <3>1. pc' \in [Ranks -> ExecutorStates]
      BY <2>1 DEF Types, ExecutorStates
    <3>2. peer' \in [Ranks -> Nat]
      BY <2>1 DEF Types
    <3>3. all_direct' \in [Ranks -> BOOLEAN]
      BY <2>1, Zenon DEF Types
    <3>. QED BY <2>1, <3>1, <3>2, <3>3 DEF Types
  <2>6. AtWork(r)
    BY <2>1, <2>4 DEF AtWork
  <2>7. Indices(r)'
    <3>1. CASE peer[r] = NumRanks - 1
      BY <1>0, <2>3, <2>4, <3>1 DEF Indices
    <3>2. CASE peer[r] # NumRanks - 1
      BY <1>0, <2>2, <2>3, <2>4, <3>2 DEF Indices
    <3>. QED BY <3>1, <3>2
  <2>. QED BY <2>5, <2>6, <2>7, AtWorkOK DEF RankOK
<1>4. CASE Stage(r) \/ EnterBarrier(r)
  <2>1. /\ UNCHANGED <<setup, ipc_record, registered, admitted, pushed, rung, queue, item, peer, all_direct,
                       direct_status>>
        /\ pc[r] \in {"stage", "sync"}
        /\ \E where \in {"staging", "barrier"} : pc' = [pc EXCEPT ![r] = where]
    BY <1>4 DEF Stage, EnterBarrier, shared, caller, Goto
  <2>2. Types'
    BY <2>1 DEF Types, ExecutorStates
  <2>3. pc'[r] \in {"staging", "barrier"}
    BY <2>1 DEF Types
  <2>4. AtWork(r)
    BY <2>1, <2>3 DEF AtWork
  <2>5. Indices(r)'
    BY <2>1, <2>3 DEF RankOK, Indices
  <2>. QED BY <2>2, <2>4, <2>5, AtWorkOK DEF RankOK
<1>5. CASE PublishStage(r)
  <2>1. /\ UNCHANGED <<setup, ipc_record, registered, admitted, pushed, rung, queue, item, all_direct,
                       direct_status>>
        /\ pc[r] \in {"stage", "staging"}
        /\ pc' = [pc EXCEPT ![r] = "sources"]
        /\ peer' = [peer EXCEPT ![r] = 1]
    BY <1>5 DEF PublishStage, caller, Goto
  <2>2. Types'
    BY <2>1 DEF Types, ExecutorStates
  <2>3. pc'[r] = "sources" /\ peer'[r] = 1
    BY <2>1 DEF Types
  <2>4. AtWork(r)
    BY <2>1, <2>3 DEF AtWork
  <2>5. Len(Sources(r, Request(r))) \in 1 .. NumRanks
    <3>1. item[r] \in 1 .. NumItems
      BY <2>1, WorkFacts, CountsAreNumbers DEF RankOK, Items, Callers, Types
    <3>2. Request(r).kind \in {"AllGather", "AllReduce", "ReduceScatter"}
      BY <3>1, WorkFacts DEF Types, Request
    <3>. QED BY <3>2, SourcesFacts
  <2>6. Request(r)' = Request(r) /\ Callers(r)' /\ Items(r)'
    BY <2>4, AtWorkOK
  <2>7. Indices(r)'
    <3>1. 1 \in 1 .. Len(Sources(r, Request(r)))
      BY <2>5
    <3>2. Sources(r, Request(r))' = Sources(r, Request(r))
      BY <2>6 DEF Sources, InPlace, AllBut, Everybody
    <3>. QED BY <1>0, <2>3, <3>1, <3>2 DEF Indices
  <2>. QED BY <2>2, <2>4, <2>6, <2>7 DEF RankOK
<1>6. CASE ReadOwn(r) \/ ReadDirect(r) \/ ReadStaged(r)
  <2>1. /\ UNCHANGED <<setup, ipc_record, registered, admitted, pushed, rung, queue, item, all_direct,
                       direct_status>>
        /\ pc[r] = "sources"
        /\ pc' = [pc EXCEPT ![r] = IF peer[r] = Len(Sources(r, Request(r))) THEN "sync" ELSE "sources"]
        /\ peer' = [peer EXCEPT ![r] = @ + 1]
    BY <1>6 DEF ReadOwn, ReadDirect, ReadStaged, PeerReady, ReadFrom, shared, caller, Goto
  <2>2. peer'[r] = peer[r] + 1
    BY <2>1 DEF Types
  <2>3. pc'[r] = IF peer[r] = Len(Sources(r, Request(r))) THEN "sync" ELSE "sources"
    BY <2>1 DEF Types
  <2>4. Types'
    <3>1. pc' \in [Ranks -> ExecutorStates]
      BY <2>1 DEF Types, ExecutorStates
    <3>2. peer' \in [Ranks -> Nat]
      BY <2>1 DEF Types
    <3>. QED BY <2>1, <3>1, <3>2 DEF Types
  <2>5. AtWork(r)
    BY <2>1, <2>3 DEF AtWork
  <2>6. Request(r)' = Request(r) /\ Callers(r)' /\ Items(r)'
    BY <2>5, AtWorkOK
  <2>7. Len(Sources(r, Request(r))) \in 1 .. NumRanks
    <3>1. item[r] \in 1 .. NumItems
      BY <2>1, WorkFacts, CountsAreNumbers DEF RankOK, Items, Callers, Types
    <3>2. Request(r).kind \in {"AllGather", "AllReduce", "ReduceScatter"}
      BY <3>1, WorkFacts DEF Types, Request
    <3>. QED BY <3>2, SourcesFacts
  <2>8. peer[r] \in 1 .. Len(Sources(r, Request(r)))
    BY <2>1 DEF RankOK, Indices
  <2>9. Indices(r)'
    <3>. DEFINE n == Len(Sources(r, Request(r)))
    <3>1. Sources(r, Request(r))' = Sources(r, Request(r))
      BY <2>6 DEF Sources, InPlace, AllBut, Everybody
    <3>2. n \in 1 .. NumRanks /\ peer[r] \in 1 .. n
      BY <2>7, <2>8
    <3>3. pc'[r] = IF peer[r] = n THEN "sync" ELSE "sources"
      BY <2>3
    <3>4. n' = n
      BY <3>1
    <3>5. Indices(r)' = /\ peer'[r] <= NumRanks + 1
                        /\ pc'[r] = "resolve" => peer'[r] < NumRanks
                        /\ pc'[r] = "sources" => peer'[r] \in 1 .. n'
      BY DEF Indices
    <3>. HIDE DEF n
    <3>6. CASE peer[r] = n
      BY <1>0, <2>2, <3>2, <3>3, <3>5, <3>6
    <3>7. CASE peer[r] # n
      BY <1>0, <2>2, <3>2, <3>3, <3>4, <3>5, <3>7
    <3>. QED BY <3>6, <3>7
  <2>. QED BY <2>4, <2>5, <2>6, <2>9 DEF RankOK
<1>. QED BY <1>1, <1>2, <1>3, <1>4, <1>5, <1>6 DEF WorkStep

-----------------------------------------------------------------------------
(* All ranks *)

(* What a step of rank r does to the others: nothing that is theirs.       *)
LEMMA OthersKept ==
  ASSUME Types, NEW r \in Ranks, NEW q \in Ranks, q # r,
         \/ CallerStep(r)
         \/ UserRing(r)
         \/ DeviceStep(r)
         \/ Pop(r)
         \/ WorkStep(r)
         \/ FinishWork(r)
         \/ FailWork(r)
  PROVE  Kept(q) /\ setup' = setup
<1>1. CASE CallerStep(r)
  BY <1>1 DEF CallerStep, Register, Admit, Refuse, Push, Kept, Types, shared, executor
<1>2. CASE UserRing(r) \/ DeviceStep(r)
  BY <1>2 DEF UserRing, DeviceStep, StartTransfer, EndTransfer, Kept, Types, shared, executor, caller
<1>3. CASE Pop(r)
  BY <1>3 DEF Pop, Goto, Kept, Types, caller
<1>4. CASE FinishWork(r) \/ FailWork(r)
  BY <1>4 DEF FinishWork, FailWork, Goto, Kept, Types, caller
<1>5. CASE SeeDoorbell(r) \/ PublishDirect(r)
  BY <1>5 DEF SeeDoorbell, PublishDirect, Goto, Kept, Types, caller
<1>6. CASE ResolveDirect(r) \/ Stage(r)
  BY <1>6 DEF ResolveDirect, Stage, Goto, Kept, Types, caller
<1>7. CASE PublishStage(r) \/ EnterBarrier(r)
  BY <1>7 DEF PublishStage, EnterBarrier, Goto, Kept, Types, caller
<1>8. CASE ReadOwn(r) \/ ReadDirect(r) \/ ReadStaged(r)
  <2>1. ReadOwn(r) \/ ReadDirect(r) \/ ReadStaged(r) => \E from : ReadFrom(r, from)
    BY DEF ReadOwn, ReadDirect, ReadStaged
  <2>2. PICK from : ReadFrom(r, from)
    BY <1>8, <2>1
  <2>. QED BY <2>2 DEF ReadFrom, Goto, Kept, Types, caller
<1>. QED BY <1>1, <1>2, <1>3, <1>4, <1>5, <1>6, <1>7, <1>8 DEF WorkStep

(* The device moves data; nothing of this is about data. *)
LEMMA DeviceStepOK ==
  ASSUME NEW r \in Ranks, DeviceStep(r)
  PROVE  UNCHANGED <<setup, ipc_record, registered, admitted, pushed, rung, queue, item, pc, peer, all_direct,
                     direct_status>>
BY DEF DeviceStep, StartTransfer, EndTransfer, shared, executor, caller

(* Whatever a rank's caller, stream, executor and device do keeps that     *)
(* rank in order.                                                          *)
LEMMA StepOfARank ==
  ASSUME Types, NEW r \in Ranks, RankOK(r),
         \/ CallerStep(r)
         \/ UserRing(r)
         \/ DeviceStep(r)
         \/ ExecutorStep(r)
         \/ FailWork(r)
  PROVE  Types' /\ RankOK(r)'
<1>1. CASE CallerStep(r)
  BY <1>1, CallerStepOK
<1>2. CASE UserRing(r)
  BY <1>2, UserRingOK
<1>3. CASE DeviceStep(r)
  <2>1. UNCHANGED <<setup, ipc_record, registered, admitted, pushed, rung, queue, item, pc, peer, all_direct,
                    direct_status>>
    BY <1>3, DeviceStepOK
  <2>. QED BY <2>1, KeptOK DEF Types, Kept
<1>4. CASE ExecutorStep(r)
  <2>1. Pop(r) \/ WorkStep(r) \/ FinishWork(r)
    BY <1>4 DEF ExecutorStep, WorkStep
  <2>. QED BY <2>1, PopOK, WorkStepOK, WorkEndsOK
<1>5. CASE FailWork(r)
  BY <1>5, WorkEndsOK
<1>. QED BY <1>1, <1>2, <1>3, <1>4, <1>5

(* Every step keeps the counters, queues and indices of every rank. *)
LEMMA RanksOK ==
  ASSUME Types, \A q \in Ranks : RankOK(q), [Next]_vars
  PROVE  Types' /\ \A q \in Ranks : RankOK(q)'
<1>1. CASE Next
  <2>1. PICK r \in Ranks : \/ CallerStep(r)
                           \/ UserRing(r)
                           \/ DeviceStep(r)
                           \/ ExecutorStep(r)
                           \/ FailWork(r)
    BY <1>1 DEF Next
  <2>2. Types' /\ RankOK(r)'
    BY <2>1, StepOfARank
  <2>3. \A q \in Ranks : q # r => Kept(q) /\ setup' = setup
    <3>1. ExecutorStep(r) => Pop(r) \/ WorkStep(r) \/ FinishWork(r)
      BY DEF ExecutorStep, WorkStep
    <3>. QED BY <2>1, <3>1, OthersKept
  <2>. QED BY <2>2, <2>3, KeptOK
<1>2. CASE UNCHANGED vars
  <2>1. UNCHANGED <<setup, ipc_record, registered, admitted, pushed, rung, queue, item, pc, peer, all_direct,
                    direct_status>>
    BY <1>2 DEF vars, shared, caller, executor, device
  <2>. QED BY <2>1, KeptOK DEF Types, Kept
<1>. QED BY <1>1, <1>2

-----------------------------------------------------------------------------
(* The answers *)

(* A rank goes from item to larger items, and after publishAndResolve-     *)
(* DirectMode has published its answer does not come back to it.           *)
LEMMA PastMoves ==
  ASSUME Types, NEW r \in Ranks, RankOK(r), NEW k \in Nat, Past(r, k),
         \/ Kept(r)
         \/ Pop(r)
         \/ WorkStep(r)
         \/ FinishWork(r)
         \/ FailWork(r)
  PROVE  Past(r, k)'
<1>1. CASE Kept(r)
  BY <1>1 DEF Past, Kept
<1>2. CASE Pop(r)
  <2>1. item'[r] > item[r] /\ item'[r] \in Nat /\ item[r] \in Nat
    BY <1>2, PopOK DEF Types
  <2>. QED BY <2>1 DEF Past
<1>3. CASE WorkStep(r)
  <2>1. item'[r] = item[r]
    BY <1>3, WorkStepOK DEF AtWork
  <2>2. pc[r] \notin {"doorbell", "publish"} => pc'[r] \notin {"doorbell", "publish"}
    BY <1>3 DEF WorkStep, SeeDoorbell, PublishDirect, ResolveDirect, Stage, PublishStage, ReadOwn, ReadDirect,
                ReadStaged, EnterBarrier, ReadFrom, PeerReady, Goto, Types
  <2>. QED BY <2>1, <2>2 DEF Past
<1>4. CASE FinishWork(r) \/ FailWork(r)
  <2>1. item' = item /\ pc'[r] = "idle"
    BY <1>4 DEF FinishWork, FailWork, Goto, Types
  <2>. QED BY <2>1 DEF Past
<1>. QED BY <1>1, <1>2, <1>3, <1>4

(* A rank that is past the peer query of an item stays past it: items are  *)
(* executed in the order of the queue.                                     *)
LEMMA PastStays ==
  ASSUME Types, \A q \in Ranks : RankOK(q), [Next]_vars
  PROVE  \A p \in Ranks, k \in Nat : Past(p, k) => Past(p, k)'
<1>. SUFFICES ASSUME NEW p \in Ranks, NEW k \in Nat, Past(p, k)
              PROVE  Past(p, k)'
  OBVIOUS
<1>1. CASE Next
  <2>1. PICK r \in Ranks : \/ CallerStep(r)
                           \/ UserRing(r)
                           \/ DeviceStep(r)
                           \/ ExecutorStep(r)
                           \/ FailWork(r)
    BY <1>1 DEF Next
  <2>2. ExecutorStep(r) => Pop(r) \/ WorkStep(r) \/ FinishWork(r)
    BY DEF ExecutorStep, WorkStep
  <2>3. CASE p # r
    <3>1. Kept(p)
      BY <2>1, <2>2, <2>3, OthersKept
    <3>. QED BY <3>1, PastMoves
  <2>4. CASE p = r /\ (CallerStep(r) \/ UserRing(r) \/ DeviceStep(r))
    <3>1. item' = item /\ pc' = pc
      BY <2>4, DeviceStepOK DEF CallerStep, Register, Admit, Refuse, Push, UserRing, executor
    <3>. QED BY <3>1 DEF Past
  <2>5. CASE p = r /\ (ExecutorStep(r) \/ FailWork(r))
    BY <2>2, <2>5, PastMoves
  <2>. QED BY <2>1, <2>3, <2>4, <2>5
<1>2. CASE UNCHANGED vars
  <2>1. item' = item /\ pc' = pc
    BY <1>2 DEF vars, executor
  <2>. QED BY <2>1 DEF Past
<1>. QED BY <1>1, <1>2

(* A rank whose decision, if it has made one or is collecting answers for  *)
(* one, is the one it had.                                                 *)
Settled(q) ==
  /\ pc'[q] = "publish" => TopologyDirect
  /\ pc'[q] = "resolve" =>
       pc[q] = "resolve" /\ item'[q] = item[q] /\ peer'[q] = peer[q] /\ all_direct'[q] = all_direct[q]
  /\ pc'[q] \in Decided =>
       \/ pc[q] \in Decided /\ item'[q] = item[q] /\ all_direct'[q] = all_direct[q]
       \/ ~TopologyDirect /\ ~all_direct'[q]

(* A rank whose decision a step leaves alone has it still explained by the *)
(* answers, when these agree about the items it is past.                   *)
LEMMA SettledStays ==
  ASSUME Types, setup' = setup, NEW q \in Ranks, RankOK(q), RankAsked(q), Settled(q),
         \A p \in Ranks, k \in Nat : Past(p, k) => Past(p, k)',
         NEW ans, RankExplained(q, ans),
         NEW bns, \A p \in Ranks, k \in Nat : Past(p, k) => bns[p][k] = ans[p][k]
  PROVE  RankAsked(q)' /\ RankExplained(q, bns)'
<1>0. TopologyDirect' = TopologyDirect
  BY DEF TopologyDirect
<1>k. PICK k \in Nat : k = item[q]
  BY DEF Types
<1>1. CASE pc'[q] = "publish"
  BY <1>0, <1>1 DEF Settled, RankAsked, RankExplained, Decided
<1>2. CASE pc'[q] = "resolve"
  <2>1. pc[q] = "resolve" /\ item'[q] = item[q] /\ peer'[q] = peer[q] /\ all_direct'[q] = all_direct[q]
    BY <1>2 DEF Settled
  <2>2. \A p \in 0 .. peer[q] - 1 : p \in Ranks
    BY <2>1, CountsAreNumbers, SmallMessageAssumption DEF RankOK, Indices, Ranks
  <2>3. TopologyDirect /\ \A p \in 0 .. peer[q] - 1 : Past(p, k)
    BY <1>k, <2>1 DEF RankAsked
  <2>4. \A p \in 0 .. peer[q] - 1 : Past(p, k)' /\ bns[p][k] = ans[p][k]
    BY <2>2, <2>3
  <2>5. all_direct[q] <=> \A p \in 0 .. peer[q] - 1 : ans[p][k]
    BY <1>k, <2>1 DEF RankExplained
  <2>6. k = item'[q] /\ peer'[q] = peer[q]
    BY <1>k, <2>1
  <2>7. all_direct'[q] <=> \A p \in 0 .. peer'[q] - 1 : bns[p][item'[q]]
    BY <2>1, <2>4, <2>5, <2>6, Zenon
  <2>8. \A p \in 0 .. peer'[q] - 1 : Past(p, item[q])'
    BY <2>4, <2>6 DEF Past
  <2>9. pc'[q] # "publish" /\ pc'[q] \notin Decided
    BY <1>2 DEF Decided
  <2>10. RankExplained(q, bns)'
    BY <2>7, <2>9, Zenon DEF RankExplained
  <2>11. RankAsked(q)'
    BY <1>0, <2>3, <2>8, <2>9, Zenon DEF RankAsked
  <2>. QED BY <2>10, <2>11
<1>3. CASE pc'[q] \in Decided /\ TopologyDirect
  <2>1. pc[q] \in Decided /\ item'[q] = item[q] /\ all_direct'[q] = all_direct[q]
    BY <1>3 DEF Settled
  <2>2. \A p \in Ranks : Past(p, k)
    BY <1>3, <1>k, <2>1 DEF RankAsked
  <2>3. \A p \in Ranks : Past(p, k)' /\ bns[p][k] = ans[p][k]
    BY <2>2
  <2>4. all_direct[q] <=> TopologyDirect /\ \A p \in Ranks : ans[p][k]
    BY <1>k, <2>1 DEF RankExplained
  <2>5. k = item'[q]
    BY <1>k, <2>1
  <2>6. all_direct'[q] <=> TopologyDirect' /\ \A p \in Ranks : bns[p][item'[q]]
    BY <1>0, <2>1, <2>3, <2>4, <2>5, Zenon
  <2>7. \A p \in Ranks : Past(p, item[q])'
    BY <2>3, <2>5 DEF Past
  <2>8. pc'[q] # "publish" /\ pc'[q] # "resolve"
    BY <1>3 DEF Decided
  <2>9. RankExplained(q, bns)'
    BY <2>6, <2>8, Zenon DEF RankExplained
  <2>10. RankAsked(q)'
    BY <2>7, <2>8, Zenon DEF RankAsked
  <2>. QED BY <2>9, <2>10
<1>4. CASE pc'[q] \in Decided /\ ~TopologyDirect
  <2>1. ~all_direct'[q]
    BY <1>4, Zenon DEF Settled, RankExplained
  <2>2. pc'[q] # "publish" /\ pc'[q] # "resolve"
    BY <1>4 DEF Decided
  <2>. QED BY <1>0, <1>4, <2>1, <2>2, Zenon DEF RankAsked, RankExplained
<1>5. CASE pc'[q] \notin {"publish", "resolve"} \cup Decided
  BY <1>5, Zenon DEF RankAsked, RankExplained
<1>. QED BY <1>1, <1>2, <1>3, <1>4, <1>5, Zenon

(* A word of the table that is not written says what it said. *)
LEMMA EntryStays ==
  ASSUME Types, NEW p \in Ranks, NEW s \in 0 .. QueueDepth - 1, EntryAsked(p, s),
         direct_status'[p][s] = direct_status[p][s],
         \A k \in Nat : Past(p, k) => Past(p, k)',
         NEW ans, EntryExplained(p, s, ans),
         NEW bns, \A k \in Nat : Past(p, k) => bns[p][k] = ans[p][k]
  PROVE  EntryAsked(p, s)' /\ EntryExplained(p, s, bns)'
<1>1. direct_status[p][s] \in Nat \X BOOLEAN
  <2>1. direct_status \in [Ranks -> [0 .. QueueDepth - 1 -> Nat \X BOOLEAN]]
    BY Zenon DEF Types
  <2>. QED BY <2>1
<1>2. PICK k \in Nat : k = direct_status[p][s][1]
  BY <1>1
<1>3. direct_status'[p][s][1] = k /\ direct_status'[p][s][2] = direct_status[p][s][2]
  BY <1>2
<1>4. Past(p, k)
  BY <1>2 DEF EntryAsked
<1>5. Past(p, k)' /\ bns[p][k] = ans[p][k]
  BY <1>4
<1>6. EntryAsked(p, s)'
  BY <1>3, <1>5 DEF EntryAsked, Past
<1>7. EntryExplained(p, s, bns)'
  BY <1>2, <1>3, <1>5, Zenon DEF EntryExplained
<1>. QED BY <1>6, <1>7

(* Steps that neither publish nor collect an answer *)
LEMMA OtherStepSettled ==
  ASSUME Types, NEW r \in Ranks,
         \/ CallerStep(r) \/ UserRing(r) \/ DeviceStep(r) \/ Pop(r) \/ FinishWork(r) \/ FailWork(r)
         \/ SeeDoorbell(r) \/ Stage(r) \/ PublishStage(r) \/ ReadOwn(r) \/ ReadDirect(r) \/ ReadStaged(r)
         \/ EnterBarrier(r),
         RankAsked(r)
  PROVE  direct_status' = direct_status /\ Settled(r)
<1>1. CASE CallerStep(r) \/ UserRing(r) \/ DeviceStep(r)
  <2>1. UNCHANGED <<item, pc, peer, all_direct, direct_status>>
    BY <1>1, DeviceStepOK DEF CallerStep, Register, Admit, Refuse, Push, UserRing, executor, shared
  <2>. QED BY <2>1, Zenon DEF Settled, RankAsked
<1>2. CASE Pop(r) \/ FinishWork(r) \/ FailWork(r)
  <2>1. direct_status' = direct_status /\ pc'[r] \in {"doorbell", "idle"}
    BY <1>2 DEF Pop, FinishWork, FailWork, Goto, Types, shared
  <2>. QED BY <2>1 DEF Settled, Decided
<1>3. CASE SeeDoorbell(r)
  <2>1. /\ direct_status' = direct_status
        /\ pc'[r] = IF TopologyDirect THEN "publish" ELSE "stage"
        /\ all_direct'[r] = FALSE
    BY <1>3 DEF SeeDoorbell, Goto, Types, TopologyDirect
  <2>. QED BY <2>1 DEF Settled, Decided
<1>4. CASE Stage(r) \/ PublishStage(r) \/ EnterBarrier(r)
  <2>1. /\ direct_status' = direct_status
        /\ pc[r] \in Decided /\ pc'[r] \in Decided
        /\ item'[r] = item[r] /\ all_direct'[r] = all_direct[r]
    BY <1>4 DEF Stage, PublishStage, EnterBarrier, Goto, Types, Decided, shared
  <2>. QED BY <2>1 DEF Settled, Decided
<1>5. CASE ReadOwn(r) \/ ReadDirect(r) \/ ReadStaged(r)
  <2>1. pc[r] = "sources" /\ \E from : ReadFrom(r, from)
    BY <1>5 DEF ReadOwn, ReadDirect, ReadStaged, PeerReady
  <2>2. PICK from : ReadFrom(r, from)
    BY <2>1
  <2>3. /\ direct_status' = direct_status
        /\ pc'[r] \in Decided
        /\ item'[r] = item[r] /\ all_direct'[r] = all_direct[r]
    BY <2>2 DEF ReadFrom, Goto, Types, Decided, shared
  <2>. QED BY <2>1, <2>3 DEF Settled, Decided
<1>. QED BY <1>1, <1>2, <1>3, <1>4, <1>5

(* A rank that the step leaves alone is settled. *)
LEMMA KeptSettled ==
  ASSUME Types, NEW q \in Ranks, Kept(q), RankAsked(q)
  PROVE  Settled(q)
BY Zenon DEF Settled, Kept, RankAsked

(* A step that gives no answer to a peer query leaves the answers          *)
(* explaining every decision.                                              *)
LEMMA AnswersOfOtherSteps ==
  ASSUME Types, \A q \in Ranks : RankOK(q), Asked, Answered, setup' = setup,
         direct_status' = direct_status, \A q \in Ranks : Settled(q),
         \A p \in Ranks, k \in Nat : Past(p, k) => Past(p, k)'
  PROVE  Asked' /\ Answered'
<1>1. PICK ans \in [Ranks -> [Nat -> BOOLEAN]] : Explains(ans)
  BY DEF Answered
<1>2. \A p \in Ranks, s \in 0 .. QueueDepth - 1 : EntryAsked(p, s)' /\ EntryExplained(p, s, ans)'
  BY <1>1, EntryStays DEF Asked, Explains
<1>3. \A q \in Ranks : RankAsked(q)' /\ RankExplained(q, ans)'
  BY <1>1, SettledStays DEF Asked, Explains
<1>4. Explains(ans)'
  BY <1>2, <1>3 DEF Explains
<1>. QED BY <1>2, <1>3, <1>4 DEF Asked, Answered

(* publishAndResolveDirectMode publishes the rank's one answer for the     *)
(* item; nobody has collected it, so the answers that explain what the     *)
(* ranks have decided may be completed by it.                              *)
LEMMA PublishDirectAnswers ==
  ASSUME Types, \A q \in Ranks : RankOK(q), Asked, Answered, NEW r \in Ranks, PublishDirect(r),
         \A q \in Ranks : q # r => Kept(q),
         \A p \in Ranks, k \in Nat : Past(p, k) => Past(p, k)'
  PROVE  Asked' /\ Answered'
<1>1. PICK ans \in [Ranks -> [Nat -> BOOLEAN]] : Explains(ans)
  BY DEF Answered
<1>2. PICK k \in Nat : k = item[r]
  BY DEF Types
<1>3. PICK answer \in BOOLEAN : direct_status' = [direct_status EXCEPT ![r][Slot(item[r])] = <<item[r], answer>>]
  BY DEF PublishDirect, PublishDirectStatus
<1>4. /\ pc[r] = "publish" /\ setup' = setup
      /\ pc'[r] = "resolve" /\ peer'[r] = 0 /\ all_direct'[r] = TRUE /\ item'[r] = k
  BY <1>2 DEF PublishDirect, Goto, Types
<1>5. k # 0 /\ Slot(k) \in 0 .. QueueDepth - 1
  <2>1. k \in Nat \ {0}
    BY <1>2, <1>4 DEF RankOK, Items
  <2>. QED BY <2>1, SlotInRange
<1>. DEFINE bns == [ans EXCEPT ![r] = [ans[r] EXCEPT ![k] = answer]]
<1>6. /\ bns \in [Ranks -> [Nat -> BOOLEAN]]
      /\ bns[r][k] = answer
      /\ \A j \in Nat \ {k} : bns[r][j] = ans[r][j]
      /\ \A p \in Ranks \ {r} : bns[p] = ans[p]
  <2>1. ans[r] \in [Nat -> BOOLEAN]
    OBVIOUS
  <2>. DEFINE row == [ans[r] EXCEPT ![k] = answer]
  <2>2. row \in [Nat -> BOOLEAN] /\ row[k] = answer /\ \A j \in Nat \ {k} : row[j] = ans[r][j]
    BY <2>1
  <2>. HIDE DEF row
  <2>3. [ans EXCEPT ![r] = row] \in [Ranks -> [Nat -> BOOLEAN]]
    BY <2>2
  <2>4. [ans EXCEPT ![r] = row][r] = row /\ \A p \in Ranks \ {r} : [ans EXCEPT ![r] = row][p] = ans[p]
    OBVIOUS
  <2>. QED BY <2>2, <2>3, <2>4 DEF row
<1>. HIDE DEF bns
<1>7. ~Past(r, k)
  BY <1>2, <1>4 DEF Past
<1>8. \A p \in Ranks, j \in Nat : Past(p, j) => bns[p][j] = ans[p][j]
  <2>. TAKE p \in Ranks, j \in Nat
  <2>1. CASE p = r
    BY <1>6, <1>7, <2>1, Zenon
  <2>2. CASE p # r
    BY <1>6, <2>2
  <2>. QED BY <2>1, <2>2
<1>9. /\ direct_status'[r][Slot(k)] = <<k, answer>>
      /\ \A s \in 0 .. QueueDepth - 1 : s # Slot(k) => direct_status'[r][s] = direct_status[r][s]
      /\ \A p \in Ranks \ {r} : direct_status'[p] = direct_status[p]
  <2>1. direct_status[r] \in [0 .. QueueDepth - 1 -> Nat \X BOOLEAN] /\ DOMAIN direct_status = Ranks
    BY DEF Types
  <2>2. direct_status' = [direct_status EXCEPT ![r] = [direct_status[r] EXCEPT ![Slot(k)] = <<k, answer>>]]
    BY <1>2, <1>3
  <2>. QED BY <1>5, <2>1, <2>2
<1>10. \A p \in Ranks, s \in 0 .. QueueDepth - 1 : EntryAsked(p, s)' /\ EntryExplained(p, s, bns)'
  <2>. TAKE p \in Ranks, s \in 0 .. QueueDepth - 1
  <2>1. CASE p = r /\ s = Slot(k)
    <3>1. direct_status'[p][s][1] = k /\ direct_status'[p][s][2] = answer
      BY <1>9, <2>1
    <3>2. EntryAsked(p, s)'
      BY <1>4, <2>1, <3>1 DEF EntryAsked, Past
    <3>3. EntryExplained(p, s, bns)'
      BY <1>6, <2>1, <3>1, Zenon DEF EntryExplained
    <3>. QED BY <3>2, <3>3
  <2>2. CASE ~(p = r /\ s = Slot(k))
    <3>1. direct_status'[p][s] = direct_status[p][s]
      BY <1>9, <2>2
    <3>2. EntryAsked(p, s) /\ EntryExplained(p, s, ans)
      BY <1>1 DEF Asked, Explains
    <3>. QED BY <1>8, <3>1, <3>2, EntryStays
  <2>. QED BY <2>1, <2>2
<1>11. RankAsked(r)' /\ RankExplained(r, bns)'
  <2>1. TopologyDirect' /\ pc'[r] # "publish" /\ pc'[r] \notin Decided
    BY <1>4 DEF Asked, RankAsked, TopologyDirect, Decided
  <2>2. 0 .. peer'[r] - 1 = {}
    BY <1>4
  <2>3. RankAsked(r)'
    BY <1>4, <2>1, <2>2 DEF RankAsked
  <2>4. RankExplained(r, bns)'
    BY <1>4, <2>1, <2>2 DEF RankExplained
  <2>. QED BY <2>3, <2>4
<1>12. ASSUME NEW q \in Ranks, q # r PROVE RankAsked(q)' /\ RankExplained(q, bns)'
  <2>1. RankAsked(q) /\ RankExplained(q, ans)
    BY <1>1 DEF Asked, Explains
  <2>2. Settled(q)
    BY <1>12, <2>1, KeptSettled
  <2>. QED BY <1>4, <1>8, <2>1, <2>2, SettledStays
<1>13. Explains(bns)'
  BY <1>10, <1>11, <1>12 DEF Explains
<1>. QED BY <1>6, <1>10, <1>11, <1>12, <1>13 DEF Asked, Answered

(* publishAndResolveDirectMode takes a peer's answer for this very item:   *)
(* it waits for the item's number in the word.                             *)
LEMMA ResolveDirectAnswers ==
  ASSUME Types, \A q \in Ranks : RankOK(q), Asked, Answered, NEW r \in Ranks, ResolveDirect(r),
         \A q \in Ranks : q # r => Kept(q),
         \A p \in Ranks, k \in Nat : Past(p, k) => Past(p, k)'
  PROVE  Asked' /\ Answered'
<1>0. NumRanks \in Nat /\ Ranks = 0 .. NumRanks - 1
  BY SmallMessageAssumption DEF Ranks
<1>1. PICK ans \in [Ranks -> [Nat -> BOOLEAN]] : Explains(ans)
  BY DEF Answered
<1>2. PICK k \in Nat : k = item[r]
  BY DEF Types
<1>3. PICK n \in Nat : n = peer[r]
  BY DEF Types
<1>4. /\ pc[r] = "resolve" /\ setup' = setup /\ direct_status' = direct_status
      /\ direct_status[n][Slot(k)][1] = k
      /\ item'[r] = k /\ peer'[r] = n + 1
      /\ pc'[r] = IF n = NumRanks - 1 THEN "stage" ELSE "resolve"
  BY <1>2, <1>3 DEF ResolveDirect, Goto, Types, shared
<1>5. all_direct'[r] = (all_direct[r] /\ direct_status[n][Slot(k)][2])
  BY <1>2, <1>3, Zenon DEF ResolveDirect, Types
<1>6. n \in Ranks /\ k # 0 /\ Slot(k) \in 0 .. QueueDepth - 1
  <2>1. n < NumRanks
    BY <1>3, <1>4 DEF RankOK, Indices
  <2>2. k \in Nat \ {0}
    BY <1>2, <1>4 DEF RankOK, Items
  <2>. QED BY <1>0, <2>1, <2>2, SlotInRange
<1>7. Past(n, k) /\ (direct_status[n][Slot(k)][2] <=> ans[n][k])
  <2>1. EntryAsked(n, Slot(k)) /\ EntryExplained(n, Slot(k), ans)
    BY <1>1, <1>6 DEF Asked, Explains
  <2>2. Past(n, k)
    BY <1>4, <2>1 DEF EntryAsked
  <2>3. direct_status[n][Slot(k)][2] <=> ans[n][k]
    BY <1>4, <1>6, <2>1, Zenon DEF EntryExplained
  <2>. QED BY <2>2, <2>3
<1>8. TopologyDirect /\ \A p \in 0 .. n - 1 : Past(p, k)
  BY <1>2, <1>3, <1>4 DEF Asked, RankAsked
<1>9. all_direct[r] <=> \A p \in 0 .. n - 1 : ans[p][k]
  <2>1. RankExplained(r, ans) /\ pc[r] = "resolve"
    BY <1>1, <1>4 DEF Explains
  <2>2. all_direct[r] <=> \A p \in 0 .. peer[r] - 1 : ans[p][item[r]]
    BY <2>1, Zenon DEF RankExplained
  <2>. QED BY <1>2, <1>3, <2>2, Zenon
<1>10. 0 .. n = (0 .. n - 1) \cup {n} /\ (n + 1) - 1 = n /\ 0 .. n \subseteq Ranks
  BY <1>0, <1>6
<1>11. all_direct'[r] <=> \A p \in 0 .. n : ans[p][k]
  BY <1>5, <1>7, <1>9, <1>10, Zenon
<1>12. \A p \in 0 .. n : Past(p, k)'
  BY <1>7, <1>8, <1>10
<1>13. \A p \in 0 .. n : Past(p, item[r])'
  BY <1>4, <1>12 DEF Past
<1>14. RankAsked(r)' /\ RankExplained(r, ans)'
  <2>0. TopologyDirect' /\ TopologyDirect
    BY <1>4, <1>8 DEF TopologyDirect
  <2>1. CASE n = NumRanks - 1
    <3>1. pc'[r] = "stage" /\ 0 .. n = Ranks
      BY <1>0, <1>4, <2>1
    <3>2. all_direct'[r] <=> TopologyDirect' /\ \A p \in Ranks : ans[p][item'[r]]
      BY <1>4, <1>11, <2>0, <3>1, Zenon
    <3>3. RankExplained(r, ans)'
      BY <3>1, <3>2, Zenon DEF RankExplained
    <3>4. RankAsked(r)'
      BY <1>13, <3>1 DEF RankAsked
    <3>. QED BY <3>3, <3>4
  <2>2. CASE n # NumRanks - 1
    <3>1. pc'[r] = "resolve" /\ peer'[r] - 1 = n /\ pc'[r] \notin Decided
      BY <1>4, <2>2 DEF Decided
    <3>2. all_direct'[r] <=> \A p \in 0 .. peer'[r] - 1 : ans[p][item'[r]]
      BY <1>4, <1>11, <3>1, Zenon
    <3>3. RankExplained(r, ans)'
      BY <3>1, <3>2, Zenon DEF RankExplained
    <3>4. RankAsked(r)'
      BY <1>13, <2>0, <3>1 DEF RankAsked
    <3>. QED BY <3>3, <3>4
  <2>. QED BY <2>1, <2>2
<1>15. ASSUME NEW q \in Ranks, q # r PROVE RankAsked(q)' /\ RankExplained(q, ans)'
  <2>1. RankAsked(q) /\ RankExplained(q, ans)
    BY <1>1 DEF Asked, Explains
  <2>2. Settled(q)
    BY <1>15, <2>1, KeptSettled
  <2>. QED BY <1>4, <2>1, <2>2, SettledStays
<1>16. \A p \in Ranks, s \in 0 .. QueueDepth - 1 : EntryAsked(p, s)' /\ EntryExplained(p, s, ans)'
  BY <1>1, <1>4, EntryStays DEF Asked, Explains
<1>17. Explains(ans)'
  BY <1>14, <1>15, <1>16 DEF Explains
<1>. QED BY <1>14, <1>15, <1>16, <1>17 DEF Asked, Answered

(* Every step keeps the record of who has given and who has collected      *)
(* which answer.                                                           *)
LEMMA AnswersStay ==
  ASSUME Types, \A q \in Ranks : RankOK(q), Asked, Answered, [Next]_vars
  PROVE  Asked' /\ Answered'
<1>1. \A p \in Ranks, k \in Nat : Past(p, k) => Past(p, k)'
  BY PastStays
<1>2. \A q \in Ranks : RankAsked(q)
  BY DEF Asked
<1>3. CASE Next
  <2>1. PICK r \in Ranks : \/ CallerStep(r)
                           \/ UserRing(r)
                           \/ DeviceStep(r)
                           \/ ExecutorStep(r)
                           \/ FailWork(r)
    BY <1>3 DEF Next
  <2>2. ExecutorStep(r) => Pop(r) \/ WorkStep(r) \/ FinishWork(r)
    BY DEF ExecutorStep, WorkStep
  <2>3. \A q \in Ranks : q # r => Kept(q)
    BY <2>1, <2>2, OthersKept
  <2>4. setup' = setup
    BY <2>1 DEF CallerStep, Register, Admit, Refuse, Push, UserRing, DeviceStep, StartTransfer, EndTransfer,
                ExecutorStep, Pop, SeeDoorbell, PublishDirect, ResolveDirect, Stage, PublishStage, ReadOwn,
                ReadDirect, ReadStaged, ReadFrom, EnterBarrier, FinishWork, FailWork
  <2>5. CASE PublishDirect(r)
    BY <1>1, <2>3, <2>5, PublishDirectAnswers
  <2>6. CASE ResolveDirect(r)
    BY <1>1, <2>3, <2>6, ResolveDirectAnswers
  <2>7. CASE \/ CallerStep(r) \/ UserRing(r) \/ DeviceStep(r) \/ Pop(r) \/ FinishWork(r) \/ FailWork(r)
             \/ SeeDoorbell(r) \/ Stage(r) \/ PublishStage(r) \/ ReadOwn(r) \/ ReadDirect(r) \/ ReadStaged(r)
             \/ EnterBarrier(r)
    <3>1. direct_status' = direct_status /\ Settled(r)
      BY <1>2, <2>7, OtherStepSettled
    <3>2. \A q \in Ranks : Settled(q)
      BY <1>2, <2>3, <3>1, KeptSettled
    <3>. QED BY <1>1, <2>4, <3>1, <3>2, AnswersOfOtherSteps
  <2>. QED BY <2>1, <2>5, <2>6, <2>7 DEF ExecutorStep
<1>4. CASE UNCHANGED vars
  <2>1. UNCHANGED <<setup, item, pc, peer, all_direct, direct_status>>
    BY <1>4 DEF vars, executor, shared
  <2>2. \A q \in Ranks : Settled(q)
    BY <1>2, <2>1, Zenon DEF Settled, RankAsked
  <2>. QED BY <1>1, <2>1, <2>2, AnswersOfOtherSteps
<1>. QED BY <1>3, <1>4

(* In the beginning no item has been taken and no answer given. *)
LEMMA InitOK == Init => IInv
<1>. SUFFICES ASSUME Init PROVE IInv
  OBVIOUS
<1>1. QueueDepth \in Nat \ {0} /\ NumRanks \in Nat
  BY SmallMessageAssumption
<1>2. Types
  <2>1. <<>> \in Seq(Nat)
    OBVIOUS
  <2>2. queue \in [Ranks -> Seq(Nat)]
    BY <2>1 DEF Init
  <2>3. pc \in [Ranks -> ExecutorStates] /\ all_direct \in [Ranks -> BOOLEAN]
    BY DEF Init, ExecutorStates
  <2>4. direct_status \in [Ranks -> [0 .. QueueDepth - 1 -> Nat \X BOOLEAN]]
    BY DEF Init
  <2>5. /\ setup \in Setups /\ DOMAIN ipc_record = Ranks
        /\ registered \in [Ranks -> Nat] /\ admitted \in [Ranks -> Nat] /\ pushed \in [Ranks -> Nat]
        /\ rung \in [Ranks -> Nat] /\ item \in [Ranks -> Nat] /\ peer \in [Ranks -> Nat]
    BY DEF Init
  <2>. QED BY <2>2, <2>3, <2>4, <2>5 DEF Types
<1>3. ASSUME NEW r \in Ranks PROVE RankOK(r)
  <2>1. /\ registered[r] = 0 /\ admitted[r] = 0 /\ pushed[r] = 0 /\ rung[r] = 0 /\ item[r] = 0 /\ peer[r] = 0
        /\ pc[r] = "idle" /\ queue[r] = <<>> /\ ipc_record[r] = NoRecord
    BY DEF Init
  <2>2. InFlight(r) = 0 /\ 1 .. Len(queue[r]) = {}
    BY <2>1 DEF InFlight
  <2>3. NumItems \in Nat
    BY <1>2, WorkFacts DEF Types
  <2>4. Callers(r)
    BY <1>1, <2>1, <2>2, <2>3 DEF Callers
  <2>5. Items(r)
    BY <2>1, <2>2 DEF Items
  <2>6. Indices(r)
    BY <1>1, <2>1 DEF Indices
  <2>. QED BY <2>4, <2>5, <2>6 DEF RankOK
<1>4. /\ \A p \in Ranks, s \in 0 .. QueueDepth - 1 : direct_status[p][s] = <<0, FALSE>>
      /\ \A r \in Ranks : item[r] = 0 /\ pc[r] = "idle"
  BY DEF Init
<1>7. \A p \in Ranks, s \in 0 .. QueueDepth - 1 : direct_status[p][s][1] = 0
  <2>. TAKE p \in Ranks, s \in 0 .. QueueDepth - 1
  <2>1. direct_status[p][s] = <<0, FALSE>>
    BY <1>4
  <2>. QED BY <2>1
<1>5. Asked
  <2>1. \A p \in Ranks, s \in 0 .. QueueDepth - 1 : EntryAsked(p, s)
    BY <1>4, <1>7 DEF EntryAsked, Past
  <2>2. \A r \in Ranks : RankAsked(r)
    BY <1>4 DEF RankAsked, Decided
  <2>. QED BY <2>1, <2>2 DEF Asked
<1>6. Answered
  <2>. DEFINE ans == [p \in Ranks |-> [k \in Nat |-> FALSE]]
  <2>1. ans \in [Ranks -> [Nat -> BOOLEAN]]
    OBVIOUS
  <2>. HIDE DEF ans
  <2>2. Explains(ans)
    <3>1. \A p \in Ranks, s \in 0 .. QueueDepth - 1 : EntryExplained(p, s, ans)
      BY <1>7 DEF EntryExplained
    <3>2. \A r \in Ranks : RankExplained(r, ans)
      BY <1>4 DEF RankExplained, Decided
    <3>. QED BY <3>1, <3>2 DEF Explains
  <2>. QED BY <2>1, <2>2 DEF Answered
<1>. QED BY <1>2, <1>3, <1>5, <1>6 DEF IInv

(* Ranks that have decided on the same item decided from the same answers. *)
LEMMA AgreedByAnswers == IInv => PathAgreed
<1>. SUFFICES ASSUME IInv PROVE PathAgreed
  OBVIOUS
<1>1. TypeOK
  <2>. SUFFICES ASSUME NEW r \in Ranks
                PROVE  /\ InFlight(r) + (admitted[r] - pushed[r]) <= QueueDepth
                       /\ peer[r] \in 0 .. NumRanks + 1
                       /\ pc[r] # "idle" => item[r] \in 1 .. pushed[r]
                       /\ rung[r] <= admitted[r]
                       /\ ipc_record[r] \in {NoRecord} \cup {setup.work[k].send[r] : k \in DOMAIN setup.work}
    BY DEF TypeOK
  <2>1. Types /\ Callers(r) /\ Items(r) /\ Indices(r)
    BY DEF IInv, RankOK
  <2>2. peer[r] \in 0 .. NumRanks + 1
    BY <2>1, CountsAreNumbers, SmallMessageAssumption DEF Indices
  <2>3. pc[r] # "idle" => item[r] \in 1 .. pushed[r]
    BY <2>1, CountsAreNumbers DEF Items
  <2>. QED BY <2>1, <2>2, <2>3 DEF Callers
<1>2. SamePath
  <2>. SUFFICES ASSUME NEW r \in Ranks, NEW q \in Ranks, item[r] = item[q],
                       {pc[r], pc[q]} \subseteq {"stage", "staging", "sources", "sync", "barrier"}
                PROVE  all_direct[r] = all_direct[q]
    BY DEF SamePath
  <2>1. PICK ans \in [Ranks -> [Nat -> BOOLEAN]] : Explains(ans)
    BY DEF IInv, Answered
  <2>2. pc[r] \in Decided /\ pc[q] \in Decided
    BY DEF Decided
  <2>3. /\ all_direct[r] <=> TopologyDirect /\ \A p \in Ranks : ans[p][item[r]]
        /\ all_direct[q] <=> TopologyDirect /\ \A p \in Ranks : ans[p][item[q]]
    BY <2>1, <2>2, Zenon DEF Explains, RankExplained
  <2>4. all_direct[r] <=> all_direct[q]
    BY <2>3, Zenon
  <2>5. all_direct[r] \in BOOLEAN /\ all_direct[q] \in BOOLEAN
    BY DEF IInv, Types
  <2>. QED BY <2>4, <2>5, Zenon
<1>. QED BY <1>1, <1>2 DEF PathAgreed

(* A rank of the small-message path never has more items in hand than the  *)
(* slots their marks are kept in (submit's queue_depth), and ranks that    *)
(* have decided how to exchange an item (publishAndResolveDirectMode) have *)
(* decided the same: none reads a host buffer that its peer never fills.   *)
THEOREM PathIsAgreed == Spec => []PathAgreed
<1>1. IInv /\ [Next]_vars => IInv'
  <2>. SUFFICES ASSUME IInv, [Next]_vars PROVE IInv'
    OBVIOUS
  <2>1. Types /\ (\A r \in Ranks : RankOK(r)) /\ Asked /\ Answered
    BY DEF IInv
  <2>2. Types' /\ \A q \in Ranks : RankOK(q)'
    BY <2>1, RanksOK
  <2>3. Asked' /\ Answered'
    BY <2>1, AnswersStay
  <2>. QED BY <2>2, <2>3 DEF IInv
<1>. QED BY <1>1, InitOK, AgreedByAnswers, PTL DEF Spec

=============================================================================
