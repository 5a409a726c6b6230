--------------------------- MODULE GraphRunProofs ---------------------------
(***************************************************************************)
(* Proofs about GraphRun for any number of ranks, any sequence of graphs   *)
(* and with executors that fail.                                           *)
(*                                                                         *)
(* The argument.  A rank takes up collective k only after every rank has   *)
(* entered the barrier of collective k - 1 (Rounds), so of the ranks that  *)
(* run, wait to run or clear counters no two are more than one collective  *)
(* apart, and two that use the same epoch are in the same collective.  A   *)
(* rank enters the barrier only when none of its slices is in flight: what *)
(* it has submitted of a node and not completed is what its lanes and the  *)
(* H2H engine hold (Slices).  So a counter that is not zero belongs to the *)
(* collective that uses its epoch now (Counters).                          *)
(***************************************************************************)
EXTENDS GraphRun, FiniteSetTheorems, SequenceTheorems, WellFoundedInduction, TLAPS

-----------------------------------------------------------------------------
(* Numbers *)

(* A set of naturals has a least element (Min: advanceReaderDone and the   *)
(* graph's inputs take the smallest counter).                              *)
LEMMA LeastNumber ==
  ASSUME NEW T, T \subseteq Nat, T # {}
  PROVE  Min(T) \in T /\ \A y \in T : Min(T) <= y
<1>1. PICK x \in T : \A y \in T : ~ (<<y, x>> \in OpToRel(<, Nat))
  BY WFMin, NatLessThanWellFounded, Zenon
<1>2. \A y \in T : x <= y
  <2>. TAKE y \in T
  <2>1. <<y, x>> \in Nat \X Nat
    OBVIOUS
  <2>2. ~ (y < x)
    BY <1>1, <2>1 DEF OpToRel
  <2>. QED BY <2>2
<1>. QED BY <1>2 DEF Min

-----------------------------------------------------------------------------

ExecutorStates == {"idle", "popped", "doorbell", "run", "barrier", "reset", "signal", "failed"}

(* The elements of a sequence, what it is to be one, and to have each once. *)
Elements(s) == {s[i] : i \in DOMAIN s}
IsSequence(s) == s \in Seq(Elements(s))
Distinct(s) == \A i, j \in DOMAIN s : i # j => s[i] # s[j]

(* What the variables hold that the proofs look at. *)
CounterTypes ==
  /\ Keys = KeysOf(scenarios[scenario])
  /\ write_progress \in [Keys -> [0 .. 1 -> 0 .. MaxSubchunks]]
  /\ consume_progress \in [Keys -> [0 .. 1 -> 0 .. MaxSubchunks]]
  /\ reader_done \in [Keys -> [0 .. 1 -> [0 .. MaxReaders - 1 -> Nat]]]
  /\ num_readers \in [Keys -> 0 .. MaxReaders]

RankTypes ==
  /\ entered \in [Ranks -> Nat] /\ work_seq \in [Ranks -> Nat]
  /\ rung \in [Ranks -> Nat] /\ released \in [Ranks -> Nat]
  /\ pc \in [Ranks -> ExecutorStates] /\ failed \in [Ranks -> BOOLEAN]
  /\ DOMAIN next_subchunk = Ranks /\ DOMAIN completed = Ranks
  /\ DOMAIN h2h_inflight = Ranks /\ DOMAIN lanes = Ranks
  /\ \A r \in Ranks : DOMAIN lanes[r] = Lanes

(* How far a rank is: what it has entered, and what its user stream has    *)
(* seen.                                                                   *)
RankRound(r) ==
  /\ work_seq[r] <= NumCollectives
  /\ pc[r] # "idle" => work_seq[r] >= 1
  /\ pc[r] \in {"idle", "barrier", "reset", "signal"} => entered[r] = work_seq[r]
  /\ pc[r] \in {"popped", "doorbell", "run"} => entered[r] = work_seq[r] - 1
  /\ pc[r] = "failed" => entered[r] \in {work_seq[r] - 1, work_seq[r]}
  /\ failed[r] <=> pc[r] = "failed"
  /\ failed[r] => MayFail

RankUser(r) ==
  /\ released[r] <= rung[r]
  /\ pc[r] = "idle" => released[r] = work_seq[r] /\ rung[r] \in {work_seq[r], work_seq[r] + 1}
  /\ pc[r] \in {"popped", "doorbell"} => released[r] = work_seq[r] - 1 /\ rung[r] \in {work_seq[r] - 1, work_seq[r]}
  /\ pc[r] \in {"run", "barrier", "reset", "signal"} => released[r] = work_seq[r] - 1 /\ rung[r] = work_seq[r]

(* Nobody is in a collective before all have entered the barrier of the    *)
(* one before, or past its barrier before all have entered it.             *)
Abreast(r, q) ==
  /\ entered[q] >= work_seq[r] - 1
  /\ pc[r] \in {"idle", "reset", "signal"} => entered[q] >= work_seq[r]

Rounds ==
  /\ scenario \in DOMAIN scenarios
  /\ RankTypes
  /\ \A r \in Ranks : RankRound(r) /\ RankUser(r)
  /\ \A r, q \in Ranks : Abreast(r, q)

(* The slices of a rank that are submitted and not completed *)
Flying(r) == h2h_inflight[r] \cup UNION {Elements(lanes[r][l]) : l \in Lanes}
Outstanding(r, n) == {t \in Flying(r) : t.node = n}

Submitted(r, t) ==
  t.node \in Nodes(r) /\ t.sc \in Nat /\ t.sc < next_subchunk[r][t.node]

Working(r) == pc[r] \in {"popped", "doorbell", "run"}

LanesInOrder(r) ==
  \A l \in Lanes : IsSequence(lanes[r][l]) /\ Len(lanes[r][l]) <= LaneDepth

(* A node's slices are in the H2H engine or in the node's lane, once.      *)
Placed(r, t, l) == ~ IsHostOp(Graph(r).nodes[t.node]) /\ DmaLane(Graph(r).nodes[t.node]) = l

InPlace(r) ==
  /\ \A t \in h2h_inflight[r] : IsHostOp(Graph(r).nodes[t.node])
  /\ \A l \in Lanes : Distinct(lanes[r][l]) /\ \A t \in Elements(lanes[r][l]) : Placed(r, t, l)

(* Those in flight make up for those not completed. *)
Accounted(r) ==
  /\ next_subchunk[r] \in [Nodes(r) -> 0 .. NumSubchunks(r)]
  /\ completed[r] \in [Nodes(r) -> 0 .. NumSubchunks(r)]
  /\ \A n \in Nodes(r) : /\ IsFiniteSet(Outstanding(r, n))
                         /\ completed[r][n] + Cardinality(Outstanding(r, n)) = next_subchunk[r][n]

RankSlices(r) ==
  /\ LanesInOrder(r)
  /\ ~Working(r) => Flying(r) = {}
  /\ Working(r) => InPlace(r) /\ Accounted(r) /\ \A t \in Flying(r) : Submitted(r, t)

Slices == \A r \in Ranks : RankSlices(r)

(* Rank p may have advanced the counter of a key in epoch e. *)
Uses(p, key, e) ==
  pc[p] \in {"run", "barrier", "reset", "failed"} /\ Epoch(p) = e /\ key \in Graph(p).active_progress_keys

(* A counter that is not zero is of a collective whose slices it counts.   *)
CounterOwned(key, e) ==
  write_progress[key][e] # 0 => \E p \in Ranks : Uses(p, key, e) /\ write_progress[key][e] <= NumSubchunks(p)

Counters == CounterTypes /\ \A key \in Keys, e \in 0 .. 1 : CounterOwned(key, e)

IInv == Rounds /\ Slices /\ Counters

-----------------------------------------------------------------------------
(* Rounds *)

(* What executorThreadFunc may rely on of the programs: the collectives    *)
(* are numbered from 1 to NumCollectives.                                  *)
LEMMA ProgramFacts ==
  ASSUME scenario \in DOMAIN scenarios
  PROVE  /\ programs \in Seq(AllPrograms) /\ NumCollectives \in Nat /\ MayFail \in BOOLEAN
         /\ \A seq \in 1 .. NumCollectives :
              /\ programs[seq] \in AllPrograms
              /\ programs[seq].subchunks \in 1 .. MaxSubchunks
<1>1. programs \in Seq(AllPrograms) /\ MayFail \in BOOLEAN
  BY GraphAssumption DEF programs, MayFail
<1>2. NumCollectives \in Nat /\ \A seq \in 1 .. NumCollectives : programs[seq] \in AllPrograms
  BY <1>1 DEF NumCollectives
<1>. QED BY <1>1, <1>2, GraphAssumption

(* A step of one rank that keeps that rank's rounds in order keeps         *)
(* everybody's: the others see only that it has entered more barriers.     *)
LEMMA MoveRounds ==
  ASSUME Rounds, NEW r \in Ranks, scenario' = scenario, RankTypes',
         \A q \in Ranks \ {r} : /\ entered'[q] = entered[q] /\ work_seq'[q] = work_seq[q]
                                /\ rung'[q] = rung[q] /\ released'[q] = released[q]
                                /\ pc'[q] = pc[q] /\ failed'[q] = failed[q],
         entered'[r] >= entered[r],
         RankRound(r)', RankUser(r)',
         \A q \in Ranks : Abreast(r, q)'
  PROVE  Rounds'
<1>1. programs' = programs /\ NumCollectives' = NumCollectives /\ MayFail' = MayFail
  BY DEF programs, NumCollectives, MayFail
<1>2. ASSUME NEW q \in Ranks PROVE RankRound(q)' /\ RankUser(q)'
  <2>1. CASE q = r
    BY <2>1
  <2>2. CASE q # r
    BY <1>1, <2>2 DEF Rounds, RankRound, RankUser
  <2>. QED BY <2>1, <2>2
<1>3. ASSUME NEW p \in Ranks, NEW q \in Ranks PROVE Abreast(p, q)'
  <2>1. CASE p = r
    BY <2>1
  <2>2. CASE p # r
    <3>1. entered'[q] >= entered[q] /\ entered[q] \in Nat /\ entered'[q] \in Nat /\ work_seq[p] \in Nat
      BY DEF Rounds, RankTypes
    <3>. QED BY <2>2, <3>1 DEF Rounds, Abreast
  <2>. QED BY <2>1, <2>2
<1>. QED BY <1>2, <1>3 DEF Rounds

(* No rank has taken up a collective when the executors start. *)
LEMMA RoundsInit == Init => Rounds
<1>. SUFFICES ASSUME Init PROVE Rounds
  OBVIOUS
<1>1. RankTypes
  BY DEF Init, RankTypes, ExecutorStates
<1>2. \A r \in Ranks : RankRound(r) /\ RankUser(r)
  BY ProgramFacts DEF Init, RankRound, RankUser
<1>3. \A r, q \in Ranks : Abreast(r, q)
  BY DEF Init, Abreast
<1>. QED BY <1>1, <1>2, <1>3 DEF Init, Rounds

(* The executor, the user stream and the barrier keep the ranks abreast. *)
LEMMA RoundsStep == Rounds /\ [Next]_vars => Rounds'
<1>. SUFFICES ASSUME Rounds, [Next]_vars PROVE Rounds'
  OBVIOUS
<1>0. RankTypes /\ \A q \in Ranks : RankRound(q) /\ RankUser(q)
  BY DEF Rounds
<1>p. NumCollectives \in Nat
  BY ProgramFacts DEF Rounds
<1>f. ASSUME scenario' = scenario
      PROVE  NumCollectives' = NumCollectives /\ MayFail' = MayFail
  BY <1>f DEF NumCollectives, MayFail, programs
<1>1. ASSUME NEW r \in Ranks, UserRing(r) PROVE Rounds'
  <2>1. /\ UNCHANGED <<scenario, entered, pc, work_seq, failed, progress, lanes, h2h_inflight>>
        /\ rung[r] = released[r] /\ rung[r] < NumCollectives
        /\ rung' = [rung EXCEPT ![r] = @ + 1]
        /\ released' = [released EXCEPT ![r] = IF failed[r] THEN @ + 1 ELSE @]
    BY <1>1 DEF UserRing, inflight
  <2>2. RankTypes'
    BY <1>0, <2>1 DEF RankTypes, progress
  <2>3. RankRound(r)' /\ RankUser(r)'
    BY <1>0, <1>f, <2>1 DEF RankTypes, RankRound, RankUser
  <2>4. \A q \in Ranks : Abreast(r, q)'
    BY <2>1 DEF Rounds, Abreast
  <2>. QED BY <1>0, <2>1, <2>2, <2>3, <2>4, MoveRounds DEF RankTypes
<1>2. ASSUME NEW r \in Ranks, PopZeroesReaders(r) PROVE Rounds'
  <2>1. /\ UNCHANGED <<scenario, entered, failed, rung, released, lanes, h2h_inflight>>
        /\ pc[r] = "idle" /\ work_seq[r] < NumCollectives
        /\ work_seq' = [work_seq EXCEPT ![r] = @ + 1]
        /\ pc' = [pc EXCEPT ![r] = "popped"]
        /\ DOMAIN next_subchunk' = DOMAIN next_subchunk /\ DOMAIN completed' = DOMAIN completed
    BY <1>2 DEF PopZeroesReaders, inflight, user
  <2>2. RankTypes'
    BY <1>0, <2>1 DEF RankTypes, ExecutorStates
  <2>3. RankRound(r)' /\ RankUser(r)'
    BY <1>0, <1>f, <1>p, <2>1 DEF RankTypes, RankRound, RankUser
  <2>4. \A q \in Ranks : Abreast(r, q)'
    BY <1>0, <2>1 DEF Rounds, Abreast, RankTypes
  <2>. QED BY <1>0, <2>1, <2>2, <2>3, <2>4, MoveRounds DEF RankTypes
<1>3. ASSUME NEW r \in Ranks, PopSetsReaders(r) PROVE Rounds'
  <2>1. /\ UNCHANGED <<scenario, entered, work_seq, failed, rung, released, progress, lanes, h2h_inflight>>
        /\ pc[r] = "popped"
        /\ pc' = [pc EXCEPT ![r] = "doorbell"]
    BY <1>3 DEF PopSetsReaders, inflight, user
  <2>2. RankTypes'
    BY <1>0, <2>1 DEF RankTypes, ExecutorStates, progress
  <2>3. RankRound(r)' /\ RankUser(r)'
    BY <1>0, <1>f, <2>1 DEF RankTypes, RankRound, RankUser
  <2>4. \A q \in Ranks : Abreast(r, q)'
    BY <1>0, <2>1 DEF Rounds, Abreast, RankTypes
  <2>. QED BY <1>0, <2>1, <2>2, <2>3, <2>4, MoveRounds DEF RankTypes
<1>4. ASSUME NEW r \in Ranks, SeeDoorbell(r) PROVE Rounds'
  <2>1. /\ UNCHANGED <<scenario, entered, work_seq, failed, rung, released, progress, lanes, h2h_inflight>>
        /\ pc[r] = "doorbell" /\ rung[r] = work_seq[r]
        /\ pc' = [pc EXCEPT ![r] = "run"]
    BY <1>4 DEF SeeDoorbell, inflight, user
  <2>2. RankTypes'
    BY <1>0, <2>1 DEF RankTypes, ExecutorStates, progress
  <2>3. RankRound(r)' /\ RankUser(r)'
    BY <1>0, <1>f, <2>1 DEF RankTypes, RankRound, RankUser
  <2>4. \A q \in Ranks : Abreast(r, q)'
    BY <1>0, <2>1 DEF Rounds, Abreast, RankTypes
  <2>. QED BY <1>0, <2>1, <2>2, <2>3, <2>4, MoveRounds DEF RankTypes
<1>5. ASSUME NEW r \in Ranks,
             \/ \E n \in DOMAIN next_subchunk[r] : SkipSlice(r, n) \/ SubmitSlice(r, n)
             \/ \E lane \in Lanes : CompleteDma(r, lane)
             \/ CompleteH2H(r)
             \/ EngineStep(r)
             \/ UNCHANGED vars
      PROVE  Rounds'
  <2>a. CASE \E n \in DOMAIN next_subchunk[r] : SkipSlice(r, n) \/ SubmitSlice(r, n)
    <3>1. PICK n \in DOMAIN next_subchunk[r] : SkipSlice(r, n) \/ SubmitSlice(r, n)
      BY <2>a
    <3>2. /\ UNCHANGED <<scenario, entered, pc, work_seq, failed, rung, released>>
          /\ DOMAIN next_subchunk' = DOMAIN next_subchunk /\ DOMAIN completed' = DOMAIN completed
      BY <3>1 DEF SkipSlice, SubmitSlice, user
    <3>3. DOMAIN h2h_inflight' = DOMAIN h2h_inflight
      BY <3>1 DEF SkipSlice, SubmitSlice, ToEngine, ToLane, inflight
    <3>4. DOMAIN lanes' = DOMAIN lanes /\ \A q \in Ranks : DOMAIN lanes'[q] = DOMAIN lanes[q]
      BY <1>0, <3>1 DEF SkipSlice, SubmitSlice, ToEngine, ToLane, inflight, RankTypes
    <3>5. RankTypes'
      BY <1>0, <3>2, <3>3, <3>4 DEF RankTypes
    <3>6. RankRound(r)' /\ RankUser(r)' /\ \A q \in Ranks : Abreast(r, q)'
      BY <1>0, <1>f, <3>2 DEF RankRound, RankUser, Rounds, Abreast
    <3>. QED BY <1>0, <3>2, <3>5, <3>6, MoveRounds DEF RankTypes
  <2>b. CASE (\E lane \in Lanes : CompleteDma(r, lane)) \/ CompleteH2H(r)
    <3>2. /\ UNCHANGED <<scenario, entered, pc, work_seq, failed, rung, released>>
          /\ DOMAIN next_subchunk' = DOMAIN next_subchunk /\ DOMAIN completed' = DOMAIN completed
      BY <2>b DEF CompleteDma, CompleteH2H, Complete, user
    <3>3. DOMAIN h2h_inflight' = DOMAIN h2h_inflight
      BY <2>b DEF CompleteDma, CompleteH2H
    <3>4. DOMAIN lanes' = DOMAIN lanes /\ \A q \in Ranks : DOMAIN lanes'[q] = DOMAIN lanes[q]
      BY <1>0, <2>b DEF CompleteDma, CompleteH2H, RankTypes
    <3>5. RankTypes'
      BY <1>0, <3>2, <3>3, <3>4 DEF RankTypes
    <3>6. RankRound(r)' /\ RankUser(r)' /\ \A q \in Ranks : Abreast(r, q)'
      BY <1>0, <1>f, <3>2 DEF RankRound, RankUser, Rounds, Abreast
    <3>. QED BY <1>0, <3>2, <3>5, <3>6, MoveRounds DEF RankTypes
  <2>c. CASE EngineStep(r) \/ UNCHANGED vars
    <3>2. UNCHANGED <<scenario, entered, pc, work_seq, failed, rung, released, progress, lanes, h2h_inflight>>
      BY <2>c DEF EngineStep, TakeShard, FinishShard, vars, user, inflight
    <3>5. RankTypes'
      BY <1>0, <3>2 DEF RankTypes, progress
    <3>6. RankRound(r)' /\ RankUser(r)' /\ \A q \in Ranks : Abreast(r, q)'
      BY <1>0, <1>f, <3>2 DEF RankRound, RankUser, Rounds, Abreast
    <3>. QED BY <1>0, <3>2, <3>5, <3>6, MoveRounds DEF RankTypes
  <2>. QED BY <1>5, <2>a, <2>b, <2>c
<1>6. ASSUME NEW r \in Ranks, EnterBarrier(r) PROVE Rounds'
  <2>1. /\ UNCHANGED <<scenario, work_seq, failed, rung, released, progress, lanes, h2h_inflight>>
        /\ pc[r] = "run"
        /\ entered' = [entered EXCEPT ![r] = @ + 1]
        /\ pc' = [pc EXCEPT ![r] = "barrier"]
    BY <1>6 DEF EnterBarrier, inflight, user
  <2>2. RankTypes'
    BY <1>0, <2>1 DEF RankTypes, ExecutorStates, progress
  <2>3. RankRound(r)' /\ RankUser(r)'
    BY <1>0, <1>f, <2>1 DEF RankTypes, RankRound, RankUser
  <2>4. \A q \in Ranks : Abreast(r, q)'
    BY <1>0, <2>1, <2>2 DEF Rounds, Abreast, RankTypes
  <2>. QED BY <1>0, <2>1, <2>2, <2>3, <2>4, MoveRounds DEF RankTypes
<1>7. ASSUME NEW r \in Ranks, LeaveBarrier(r) PROVE Rounds'
  <2>1. /\ UNCHANGED <<scenario, entered, work_seq, failed, rung, released, progress, lanes, h2h_inflight>>
        /\ pc[r] = "barrier"
        /\ \A q \in Ranks : entered[q] >= entered[r]
        /\ pc' = [pc EXCEPT ![r] = "reset"]
    BY <1>7 DEF LeaveBarrier, inflight, user
  <2>2. RankTypes'
    BY <1>0, <2>1 DEF RankTypes, ExecutorStates, progress
  <2>3. RankRound(r)' /\ RankUser(r)'
    BY <1>0, <1>f, <2>1 DEF RankTypes, RankRound, RankUser
  <2>4. \A q \in Ranks : Abreast(r, q)'
    BY <1>0, <2>1 DEF Rounds, Abreast, RankRound, RankTypes
  <2>. QED BY <1>0, <2>1, <2>2, <2>3, <2>4, MoveRounds DEF RankTypes
<1>8. ASSUME NEW r \in Ranks, ResetEpochKeys(r) PROVE Rounds'
  <2>1. /\ UNCHANGED <<scenario, entered, work_seq, failed, rung, released, progress, lanes, h2h_inflight>>
        /\ pc[r] = "reset"
        /\ pc' = [pc EXCEPT ![r] = "signal"]
    BY <1>8 DEF ResetEpochKeys, inflight, user
  <2>2. RankTypes'
    BY <1>0, <2>1 DEF RankTypes, ExecutorStates, progress
  <2>3. RankRound(r)' /\ RankUser(r)'
    BY <1>0, <1>f, <2>1 DEF RankTypes, RankRound, RankUser
  <2>4. \A q \in Ranks : Abreast(r, q)'
    BY <1>0, <2>1 DEF Rounds, Abreast, RankTypes
  <2>. QED BY <1>0, <2>1, <2>2, <2>3, <2>4, MoveRounds DEF RankTypes
<1>9. ASSUME NEW r \in Ranks, FinishCurrentWork(r) PROVE Rounds'
  <2>1. /\ UNCHANGED <<scenario, entered, work_seq, failed, rung, progress, lanes, h2h_inflight>>
        /\ pc[r] = "signal"
        /\ released' = [released EXCEPT ![r] = work_seq[r]]
        /\ pc' = [pc EXCEPT ![r] = "idle"]
    BY <1>9 DEF FinishCurrentWork, inflight
  <2>2. RankTypes'
    BY <1>0, <2>1 DEF RankTypes, ExecutorStates, progress
  <2>3. RankRound(r)' /\ RankUser(r)'
    BY <1>0, <1>f, <2>1 DEF RankTypes, RankRound, RankUser
  <2>4. \A q \in Ranks : Abreast(r, q)'
    BY <1>0, <2>1 DEF Rounds, Abreast, RankTypes
  <2>. QED BY <1>0, <2>1, <2>2, <2>3, <2>4, MoveRounds DEF RankTypes
<1>10. ASSUME NEW r \in Ranks, Fail(r) PROVE Rounds'
  <2>1. /\ UNCHANGED <<scenario, entered, work_seq, rung, progress>>
        /\ MayFail
        /\ pc[r] \in {"doorbell", "run", "barrier"}
        /\ failed' = [failed EXCEPT ![r] = TRUE]
        /\ released' = [released EXCEPT ![r] = rung[r]]
        /\ lanes' = [lanes EXCEPT ![r] = [l \in Lanes |-> <<>>]]
        /\ h2h_inflight' = [h2h_inflight EXCEPT ![r] = {}]
        /\ pc' = [pc EXCEPT ![r] = "failed"]
    BY <1>10 DEF Fail
  <2>2. RankTypes'
    BY <1>0, <2>1 DEF RankTypes, ExecutorStates, progress
  <2>3. RankRound(r)' /\ RankUser(r)'
    BY <1>0, <1>f, <2>1 DEF RankTypes, RankRound, RankUser
  <2>4. \A q \in Ranks : Abreast(r, q)'
    BY <1>0, <2>1 DEF Rounds, Abreast, RankTypes
  <2>5. entered'[r] >= entered[r] /\ \A q \in Ranks \ {r} : entered'[q] = entered[q] /\ pc'[q] = pc[q]
    BY <1>0, <2>1 DEF RankTypes
  <2>. QED BY <1>0, <2>1, <2>2, <2>3, <2>4, <2>5, MoveRounds DEF RankTypes
<1>. QED
  <2>1. CASE UNCHANGED vars
    BY <2>1, <1>5, GraphAssumption
  <2>2. CASE Next
    <3>1. PICK r \in Ranks : UserRing(r) \/ ExecutorStep(r) \/ EngineStep(r) \/ Fail(r)
      BY <2>2 DEF Next
    <3>. QED BY <3>1, <1>1, <1>2, <1>3, <1>4, <1>5, <1>6, <1>7, <1>8, <1>9, <1>10 DEF ExecutorStep
  <2>. QED BY <2>1, <2>2

(* The rounds stay in order throughout every run of the executors.         *)
LEMMA RoundsInvariant == Spec => []Rounds
BY RoundsInit, RoundsStep, PTL DEF Spec

(* Where nothing can fail, the executors of all ranks give the user        *)
(* streams a barrier: signalComplete releases a stream from a collective   *)
(* only after every rank's stream has rung for it.                         *)
THEOREM RefinesPromise == Spec => CollectiveIsBarrier
<1>. DEFINE ent  == IF MayFail THEN [r \in Ranks |-> 0] ELSE rung
            left == IF MayFail THEN [r \in Ranks |-> 0] ELSE released
<1>1. Init => Promise!Init
  BY DEF Init, Promise!Init
<1>2. ASSUME Rounds, [Next]_vars PROVE [Promise!Next]_(Promise!vars)
  <2>0. RankTypes /\ \A q \in Ranks : RankRound(q) /\ RankUser(q)
    BY <1>2 DEF Rounds
  <2>f. ASSUME scenario' = scenario PROVE MayFail' = MayFail
    BY <2>f DEF MayFail
  <2>s. ASSUME scenario' = scenario, MayFail \/ UNCHANGED user PROVE UNCHANGED <<ent, left>>
    BY <2>f, <2>s DEF user
  <2>1. ASSUME NEW r \in Ranks, UserRing(r) PROVE [Promise!Next]_(Promise!vars)
    <3>1. scenario' = scenario /\ MayFail' = MayFail
      BY <2>1, <2>f DEF UserRing
    <3>2. CASE MayFail
      BY <3>1, <3>2, <2>s DEF Promise!vars
    <3>3. CASE ~MayFail
      <4>1. ~failed[r]
        BY <2>0, <3>3 DEF RankRound
      <4>2. rung[r] = released[r] /\ rung' = [rung EXCEPT ![r] = @ + 1] /\ released' = released
        BY <2>0, <2>1, <4>1 DEF UserRing, RankTypes
      <4>3. Promise!Enter(r)
        BY <3>1, <3>3, <4>2 DEF Promise!Enter
      <4>. QED BY <4>3 DEF Promise!Next
    <3>. QED BY <3>2, <3>3
  <2>2. ASSUME NEW r \in Ranks, FinishCurrentWork(r) PROVE [Promise!Next]_(Promise!vars)
    <3>1. scenario' = scenario /\ MayFail' = MayFail
      BY <2>2, <2>f DEF FinishCurrentWork
    <3>2. CASE MayFail
      BY <3>1, <3>2, <2>s DEF Promise!vars
    <3>3. CASE ~MayFail
      <4>1. /\ pc[r] = "signal" /\ rung' = rung
            /\ released' = [released EXCEPT ![r] = work_seq[r]]
        BY <2>2 DEF FinishCurrentWork
      <4>2. rung[r] = work_seq[r] /\ released[r] < rung[r]
        BY <2>0, <4>1 DEF RankUser, RankTypes
      <4>3. ASSUME NEW q \in Ranks PROVE rung[q] >= rung[r]
        <5>1. entered[q] >= work_seq[r]
          BY <1>2, <4>1 DEF Rounds, Abreast
        <5>2. rung[q] >= entered[q]
          <6>1. pc[q] # "failed" /\ pc[q] \in ExecutorStates
            BY <2>0, <3>3 DEF RankRound, RankTypes
          <6>2. entered[q] \in Nat /\ work_seq[q] \in Nat /\ rung[q] \in Nat /\ released[q] \in Nat
            BY <2>0 DEF RankTypes
          <6>. QED BY <2>0, <6>1, <6>2 DEF RankRound, RankUser, ExecutorStates
        <5>. QED BY <2>0, <4>2, <5>1, <5>2 DEF RankTypes
      <4>4. Promise!Leave(r)
        BY <3>1, <3>3, <4>1, <4>2, <4>3 DEF Promise!Leave
      <4>. QED BY <4>4 DEF Promise!Next
    <3>. QED BY <3>2, <3>3
  <2>3. ASSUME NEW r \in Ranks, Fail(r) PROVE [Promise!Next]_(Promise!vars)
    <3>1. scenario' = scenario /\ MayFail
      BY <2>3 DEF Fail
    <3>. QED BY <3>1, <2>s DEF Promise!vars
  <2>4. ASSUME NEW r \in Ranks, ExecutorStep(r) \/ EngineStep(r), ~ FinishCurrentWork(r)
        PROVE  [Promise!Next]_(Promise!vars)
    <3>1. CASE \E n \in DOMAIN next_subchunk[r] : SkipSlice(r, n) \/ SubmitSlice(r, n)
      <4>1. UNCHANGED <<scenario, user>>
        BY <3>1 DEF SkipSlice, SubmitSlice
      <4>. QED BY <4>1, <2>s DEF Promise!vars
    <3>2. CASE (\E lane \in Lanes : CompleteDma(r, lane)) \/ CompleteH2H(r)
      <4>1. UNCHANGED <<scenario, user>>
        BY <3>2 DEF CompleteDma, CompleteH2H, Complete
      <4>. QED BY <4>1, <2>s DEF Promise!vars
    <3>3. CASE EngineStep(r)
      <4>1. UNCHANGED <<scenario, user>>
        BY <3>3 DEF EngineStep, TakeShard, FinishShard
      <4>. QED BY <4>1, <2>s DEF Promise!vars
    <3>4. CASE \/ PopZeroesReaders(r) \/ PopSetsReaders(r) \/ SeeDoorbell(r)
               \/ EnterBarrier(r) \/ LeaveBarrier(r) \/ ResetEpochKeys(r)
      <4>1. UNCHANGED <<scenario, user>>
        BY <3>4 DEF PopZeroesReaders, PopSetsReaders, SeeDoorbell, EnterBarrier, LeaveBarrier, ResetEpochKeys
      <4>. QED BY <4>1, <2>s DEF Promise!vars
    <3>. QED BY <2>4, <3>1, <3>2, <3>3, <3>4 DEF ExecutorStep
  <2>5. CASE UNCHANGED vars
    BY <2>5, <2>s DEF vars, Promise!vars
  <2>6. CASE Next
    <3>1. PICK r \in Ranks : UserRing(r) \/ ExecutorStep(r) \/ EngineStep(r) \/ Fail(r)
      BY <2>6 DEF Next
    <3>. QED BY <3>1, <2>1, <2>2, <2>3, <2>4
  <2>. QED BY <1>2, <2>5, <2>6
<1>. QED BY <1>1, <1>2, RoundsInvariant, PTL DEF Spec, CollectiveIsBarrier, Promise!Spec

-----------------------------------------------------------------------------
(* Slices *)

(* What Append makes of a lane's ring of events. *)
LEMMA Submission ==
  ASSUME NEW s, IsSequence(s), NEW e
  PROVE  /\ IsSequence(Append(s, e))
         /\ Elements(Append(s, e)) = Elements(s) \cup {e}
         /\ Distinct(s) /\ e \notin Elements(s) => Distinct(Append(s, e))
         /\ Len(s) \in Nat /\ Len(Append(s, e)) = Len(s) + 1
<1>. DEFINE S == Elements(s) \cup {e}
            t == Append(s, e)
<1>1. s \in Seq(S)
  BY SeqDef DEF IsSequence
<1>2. e \in S
  OBVIOUS
<1>. HIDE DEF S
<1>3. /\ t \in Seq(S)
      /\ Len(s) \in Nat /\ DOMAIN s = 1 .. Len(s)
      /\ Len(t) = Len(s) + 1 /\ DOMAIN t = 1 .. Len(s) + 1
      /\ \A i \in 1 .. Len(s) : t[i] = s[i]
      /\ t[Len(s) + 1] = e
  BY <1>1, <1>2
<1>. HIDE DEF t
<1>4. Elements(t) = Elements(s) \cup {e}
  BY <1>3 DEF Elements
<1>5. IsSequence(t)
  BY <1>3, <1>4 DEF IsSequence, S
<1>6. ASSUME Distinct(s), e \notin Elements(s) PROVE Distinct(t)
  <2>. SUFFICES ASSUME NEW i \in DOMAIN t, NEW j \in DOMAIN t, i # j PROVE t[i] # t[j]
    BY DEF Distinct
  <2>1. \A k \in 1 .. Len(s) : t[k] \in Elements(s)
    BY <1>3 DEF Elements
  <2>2. CASE i = Len(s) + 1 \/ j = Len(s) + 1
    BY <1>3, <1>6, <2>1, <2>2
  <2>3. CASE i \in 1 .. Len(s) /\ j \in 1 .. Len(s)
    BY <1>3, <1>6, <2>3 DEF Distinct
  <2>. QED BY <1>3, <2>2, <2>3
<1>. QED BY <1>3, <1>4, <1>5, <1>6 DEF t

(* What Tail leaves of it. *)
LEMMA Completion ==
  ASSUME NEW s, IsSequence(s), s # <<>>,
         Distinct(s)
  PROVE  /\ IsSequence(Tail(s)) /\ Distinct(Tail(s))
         /\ Elements(Tail(s)) = Elements(s) \ {Head(s)}
         /\ Head(s) \in Elements(s)
         /\ Len(s) \in Nat \ {0} /\ Len(Tail(s)) = Len(s) - 1
<1>. DEFINE t == Tail(s)
            S == Elements(s)
<1>1. s \in Seq(S)
  BY DEF IsSequence
<1>. HIDE DEF S
<1>2. /\ t \in Seq(S)
      /\ Len(s) \in Nat \ {0} /\ DOMAIN s = 1 .. Len(s)
      /\ Len(t) = Len(s) - 1 /\ DOMAIN t = 1 .. Len(s) - 1
      /\ \A i \in 1 .. Len(s) - 1 : t[i] = s[i + 1] /\ i + 1 \in 1 .. Len(s)
      /\ Head(s) = s[1]
  BY <1>1
<1>. HIDE DEF t
<1>3. ASSUME NEW x \in Elements(s), x # s[1] PROVE x \in Elements(t)
  <2>1. PICK i \in DOMAIN s : x = s[i]
    BY DEF Elements
  <2>2. i - 1 \in 1 .. Len(s) - 1 /\ t[i - 1] = s[(i - 1) + 1] /\ (i - 1) + 1 = i
    BY <1>2, <1>3, <2>1
  <2>. QED BY <1>2, <2>1, <2>2 DEF Elements
<1>4. ASSUME NEW x \in Elements(t) PROVE x \in Elements(s) /\ x # s[1]
  <2>1. PICK i \in DOMAIN t : x = t[i]
    BY DEF Elements
  <2>2. i + 1 \in DOMAIN s /\ 1 \in DOMAIN s /\ x = s[i + 1] /\ i + 1 # 1
    BY <1>2, <2>1
  <2>. QED BY <2>2 DEF Elements, Distinct
<1>5. Elements(t) = Elements(s) \ {s[1]}
  BY <1>3, <1>4
<1>6. IsSequence(t)
  <2>1. \A i \in 1 .. Len(t) : t[i] \in Elements(t)
    BY <1>2 DEF Elements
  <2>2. t = [i \in 1 .. Len(t) |-> t[i]]
    BY <1>2
  <2>3. Len(t) \in Nat
    BY <1>2
  <2>. QED BY <2>1, <2>2, <2>3, SeqDef DEF IsSequence
<1>7. Distinct(t)
  <2>. SUFFICES ASSUME NEW i \in DOMAIN t, NEW j \in DOMAIN t, i # j PROVE t[i] # t[j]
    BY DEF Distinct
  <2>1. i + 1 \in DOMAIN s /\ j + 1 \in DOMAIN s /\ i + 1 # j + 1 /\ t[i] = s[i + 1] /\ t[j] = s[j + 1]
    BY <1>2
  <2>. QED BY <2>1 DEF Distinct
<1>8. s[1] \in Elements(s)
  BY <1>2 DEF Elements
<1>. QED BY <1>2, <1>5, <1>6, <1>7, <1>8 DEF t

(* What a step of another rank, or of the H2H engine, leaves of a rank.    *)
Kept(q) ==
  /\ next_subchunk'[q] = next_subchunk[q] /\ completed'[q] = completed[q]
  /\ h2h_inflight'[q] = h2h_inflight[q] /\ lanes'[q] = lanes[q]
  /\ work_seq'[q] = work_seq[q]

(* The collective a rank is in depends on its work_seq alone. *)
LEMMA SameWork ==
  ASSUME scenario' = scenario, NEW q \in Ranks, work_seq'[q] = work_seq[q]
  PROVE  /\ Program(q)' = Program(q) /\ Graph(q)' = Graph(q)
         /\ Nodes(q)' = Nodes(q) /\ NumSubchunks(q)' = NumSubchunks(q)
BY DEF Program, Graph, GraphOf, Nodes, NumSubchunks, programs

(* A rank whose slices and work item stay keeps its slices in order. *)
LEMMA SameSlices ==
  ASSUME NEW q \in Ranks, RankSlices(q), scenario' = scenario, Kept(q),
         Working(q)' <=> Working(q)
  PROVE  RankSlices(q)'
<1>1. Graph(q)' = Graph(q) /\ Nodes(q)' = Nodes(q) /\ NumSubchunks(q)' = NumSubchunks(q)
  BY SameWork DEF Kept
<1>2. Flying(q)' = Flying(q)
  BY DEF Kept, Flying
<1>3. \A n : Outstanding(q, n)' = Outstanding(q, n)
  BY <1>2 DEF Outstanding
<1>4. \A t : Submitted(q, t)' = Submitted(q, t)
  BY <1>1 DEF Kept, Submitted
<1>5. LanesInOrder(q)' <=> LanesInOrder(q)
  BY DEF LanesInOrder, Kept
<1>6. InPlace(q)' <=> InPlace(q)
  BY <1>1 DEF InPlace, Placed, Kept
<1>7. Accounted(q)' <=> Accounted(q)
  BY <1>1, <1>3 DEF Accounted, Kept
<1>. QED BY <1>2, <1>4, <1>5, <1>6, <1>7, Zenon DEF RankSlices

(* A rank whose slices and work item stay cannot disturb the others. *)
LEMMA MoveSlices ==
  ASSUME Slices, NEW r \in Ranks, scenario' = scenario, RankSlices(r)',
         \A q \in Ranks \ {r} : Kept(q) /\ pc'[q] = pc[q]
  PROVE  Slices'
<1>1. ASSUME NEW q \in Ranks, q # r PROVE RankSlices(q)'
  <2>1. Working(q)' <=> Working(q)
    BY <1>1 DEF Working
  <2>. QED BY <1>1, <2>1, SameSlices DEF Slices
<1>. QED BY <1>1 DEF Slices

(* No slice is in flight when the executors start. *)
LEMMA SlicesInit == Init => Slices
<1>. SUFFICES ASSUME Init, NEW r \in Ranks PROVE RankSlices(r)
  BY DEF Slices
<1>1. \A l \in Lanes : lanes[r][l] = <<>> /\ IsSequence(lanes[r][l]) /\ Elements(lanes[r][l]) = {}
                       /\ Len(lanes[r][l]) <= LaneDepth
  BY GraphAssumption DEF Init, IsSequence, Elements
<1>2. Flying(r) = {}
  BY <1>1 DEF Init, Flying
<1>. QED BY <1>1, <1>2 DEF Init, RankSlices, LanesInOrder, Working

(* executorThreadFunc pops a work item with nothing in flight, and counts  *)
(* its slices from zero.                                                   *)
LEMMA SlicesPop ==
  ASSUME Rounds, Slices, Rounds', NEW r \in Ranks, PopZeroesReaders(r)
  PROVE  RankSlices(r)'
<1>1. /\ pc[r] = "idle" /\ pc'[r] = "popped"
      /\ lanes' = lanes /\ h2h_inflight' = h2h_inflight /\ scenario' = scenario
      /\ work_seq'[r] = work_seq[r] + 1
  BY DEF PopZeroesReaders, Rounds, RankTypes, inflight
<1>2. Flying(r) = {} /\ Flying(r)' = {}
  <2>1. Flying(r) = {}
    BY <1>1 DEF Slices, RankSlices, Working
  <2>2. Flying(r)' = Flying(r)
    BY <1>1 DEF Flying
  <2>. QED BY <2>1, <2>2
<1>3. Nodes(r)' = DOMAIN GraphOf(r, work_seq[r] + 1).nodes
  BY <1>1 DEF Nodes, Graph, GraphOf, programs
<1>4. next_subchunk'[r] = [n \in Nodes(r)' |-> 0] /\ completed'[r] = [n \in Nodes(r)' |-> 0]
  BY <1>3 DEF PopZeroesReaders, Rounds, RankTypes
<1>5. NumSubchunks(r)' \in Nat
  <2>1. work_seq'[r] \in 1 .. NumCollectives'
    BY <1>1 DEF Rounds, RankTypes, RankRound
  <2>2. programs'[work_seq'[r]].subchunks \in Nat
    <3>1. programs' = programs /\ NumCollectives' = NumCollectives
      BY <1>1 DEF programs, NumCollectives
    <3>. QED BY <2>1, <3>1, ProgramFacts, GraphAssumption, SMTT(30) DEF Rounds
  <2>. QED BY <2>2 DEF NumSubchunks, Program
<1>6. \A n : Outstanding(r, n)' = {}
  BY <1>2 DEF Outstanding
<1>7. ASSUME NEW l \in Lanes PROVE DOMAIN lanes[r][l] = {}
  <2>1. Elements(lanes[r][l]) \subseteq Flying(r)
    BY DEF Flying
  <2>. QED BY <1>2, <2>1 DEF Elements
<1>8. \A l \in Lanes : IsSequence(lanes'[r][l]) /\ Len(lanes'[r][l]) <= LaneDepth /\ DOMAIN lanes'[r][l] = {}
  BY <1>1, <1>7 DEF Slices, RankSlices, LanesInOrder
<1>9. h2h_inflight'[r] = {}
  BY <1>2 DEF Flying
<1>10. /\ next_subchunk'[r] \in [Nodes(r)' -> 0 .. NumSubchunks(r)']
       /\ completed'[r] \in [Nodes(r)' -> 0 .. NumSubchunks(r)']
       /\ \A n \in Nodes(r)' : next_subchunk'[r][n] = 0 /\ completed'[r][n] = 0
  BY <1>4, <1>5
<1>11. \A n : IsFiniteSet(Outstanding(r, n)') /\ Cardinality(Outstanding(r, n)') = 0
  BY <1>6, FS_EmptySet
<1>12. \A n \in Nodes(r)' : completed'[r][n] + Cardinality(Outstanding(r, n)') = next_subchunk'[r][n]
  BY <1>10, <1>11
<1>13. \A l \in Lanes : Elements(lanes'[r][l]) = {}
  BY <1>8 DEF Elements
<1>14. LanesInOrder(r)' /\ InPlace(r)' /\ Accounted(r)'
  BY <1>8, <1>9, <1>10, <1>11, <1>12, <1>13 DEF LanesInOrder, InPlace, Accounted, Distinct
<1>. QED BY <1>1, <1>2, <1>14 DEF RankSlices, Working

(* What is in flight of a rank that runs makes up for what it has not      *)
(* completed.                                                              *)
LEMMA InFlight ==
  ASSUME Rounds, NEW r \in Ranks, RankSlices(r), pc[r] = "run"
  PROVE  /\ DOMAIN next_subchunk[r] = Nodes(r)
         /\ NumSubchunks(r) \in 1 .. MaxSubchunks
         /\ InPlace(r) /\ \A t \in Flying(r) : Submitted(r, t)
         /\ next_subchunk[r] \in [Nodes(r) -> 0 .. NumSubchunks(r)]
         /\ completed[r] \in [Nodes(r) -> 0 .. NumSubchunks(r)]
         /\ \A n \in Nodes(r) :
              /\ next_subchunk[r][n] \in Nat /\ completed[r][n] \in Nat
              /\ IsFiniteSet(Outstanding(r, n)) /\ Cardinality(Outstanding(r, n)) \in Nat
              /\ completed[r][n] + Cardinality(Outstanding(r, n)) = next_subchunk[r][n]
              /\ completed[r][n] <= next_subchunk[r][n]
<1>1. /\ next_subchunk[r] \in [Nodes(r) -> 0 .. NumSubchunks(r)]
      /\ completed[r] \in [Nodes(r) -> 0 .. NumSubchunks(r)]
      /\ \A n \in Nodes(r) : /\ IsFiniteSet(Outstanding(r, n))
                             /\ completed[r][n] + Cardinality(Outstanding(r, n)) = next_subchunk[r][n]
  BY DEF RankSlices, Accounted, Working
<1>2. NumSubchunks(r) \in 1 .. MaxSubchunks
  <2>1. work_seq[r] \in 1 .. NumCollectives
    BY ProgramFacts DEF Rounds, RankTypes, RankRound
  <2>. QED BY <2>1, ProgramFacts DEF NumSubchunks, Program, Rounds
<1>3. \A n \in Nodes(r) : Cardinality(Outstanding(r, n)) \in Nat
  BY <1>1, FS_CardinalityType
<1>4. InPlace(r) /\ \A t \in Flying(r) : Submitted(r, t)
  BY DEF RankSlices, Working
<1>5. ASSUME NEW n \in Nodes(r)
      PROVE  /\ next_subchunk[r][n] \in Nat /\ completed[r][n] \in Nat
             /\ completed[r][n] <= next_subchunk[r][n]
  BY <1>1, <1>2, <1>3
<1>6. DOMAIN next_subchunk[r] = Nodes(r)
  BY <1>1
<1>. QED BY <1>1, <1>2, <1>3, <1>4, <1>5, <1>6

(* trySubmitNode counts a slice with nothing to move as submitted and      *)
(* completed at once.                                                      *)
LEMMA SlicesSkip ==
  ASSUME Rounds, Slices, NEW r \in Ranks, NEW n \in DOMAIN next_subchunk[r], SkipSlice(r, n)
  PROVE  RankSlices(r)'
<1>1. /\ pc[r] = "run" /\ pc'[r] = "run" /\ next_subchunk[r][n] < NumSubchunks(r)
      /\ lanes' = lanes /\ h2h_inflight' = h2h_inflight /\ scenario' = scenario
      /\ work_seq'[r] = work_seq[r]
      /\ next_subchunk' = [next_subchunk EXCEPT ![r][n] = @ + 1]
      /\ completed' = [completed EXCEPT ![r][n] = @ + 1]
  BY DEF SkipSlice, Submittable, inflight
<1>2. RankSlices(r)
  BY DEF Slices
<1>3. /\ DOMAIN next_subchunk[r] = Nodes(r) /\ n \in Nodes(r)
      /\ NumSubchunks(r) \in Nat
      /\ \A m \in Nodes(r) :
           /\ IsFiniteSet(Outstanding(r, m))
           /\ next_subchunk[r][m] \in Nat /\ completed[r][m] \in Nat
           /\ Cardinality(Outstanding(r, m)) \in Nat
           /\ completed[r][m] + Cardinality(Outstanding(r, m)) = next_subchunk[r][m]
           /\ completed[r][m] <= next_subchunk[r][m]
  BY <1>1, <1>2, InFlight
<1>4. Graph(r)' = Graph(r) /\ Nodes(r)' = Nodes(r) /\ NumSubchunks(r)' = NumSubchunks(r)
  BY <1>1, SameWork
<1>5. Flying(r)' = Flying(r) /\ \A m : Outstanding(r, m)' = Outstanding(r, m)
  BY <1>1 DEF Flying, Outstanding
<1>6. /\ next_subchunk'[r] = [next_subchunk[r] EXCEPT ![n] = @ + 1]
      /\ completed'[r] = [completed[r] EXCEPT ![n] = @ + 1]
      /\ next_subchunk[r] \in [Nodes(r) -> 0 .. NumSubchunks(r)]
      /\ completed[r] \in [Nodes(r) -> 0 .. NumSubchunks(r)]
  BY <1>1, <1>2 DEF Rounds, RankTypes, RankSlices, Accounted, Working
<1>7. /\ next_subchunk'[r] \in [Nodes(r) -> 0 .. NumSubchunks(r)]
      /\ completed'[r] \in [Nodes(r) -> 0 .. NumSubchunks(r)]
  BY <1>1, <1>3, <1>6
<1>8. ASSUME NEW m \in Nodes(r)
      PROVE  completed'[r][m] + Cardinality(Outstanding(r, m)') = next_subchunk'[r][m]
  <2>1. completed[r][m] + Cardinality(Outstanding(r, m)) = next_subchunk[r][m]
    BY <1>3
  <2>. QED BY <2>1, <1>3, <1>5, <1>6
<1>9. ASSUME NEW t \in Flying(r) PROVE Submitted(r, t)'
  <2>1. t.node \in Nodes(r) /\ t.sc \in Nat /\ t.sc < next_subchunk[r][t.node]
    BY <1>1, <1>2 DEF RankSlices, Submitted, Working
  <2>2. next_subchunk'[r][t.node] >= next_subchunk[r][t.node] /\ next_subchunk'[r][t.node] \in Nat
    BY <1>3, <1>6, <2>1
  <2>3. t.sc < next_subchunk'[r][t.node]
    BY <1>3, <2>1, <2>2
  <2>. QED BY <1>4, <2>1, <2>3 DEF Submitted
<1>10. LanesInOrder(r)' /\ InPlace(r)'
  BY <1>1, <1>2, <1>4 DEF RankSlices, Working, LanesInOrder, InPlace, Placed
<1>11. Accounted(r)'
  BY <1>3, <1>4, <1>5, <1>7, <1>8 DEF Accounted
<1>12. Working(r)'
  BY <1>1 DEF Working
<1>. QED BY <1>5, <1>9, <1>10, <1>11, <1>12 DEF RankSlices

(* A slice that trySubmitNode submits is new: its number is the node's     *)
(* next, and those in flight have smaller ones.                            *)
LEMMA SlicesSubmit ==
  ASSUME Rounds, Slices, NEW r \in Ranks, NEW n \in DOMAIN next_subchunk[r], SubmitSlice(r, n)
  PROVE  RankSlices(r)'
<1>. DEFINE node == Graph(r).nodes[n]
            sc   == next_subchunk[r][n]
            x    == [node |-> n, sc |-> sc, got |-> SourceValues(r, node, sc)]
            l0   == DmaLane(node)
<1>1. /\ pc[r] = "run" /\ pc'[r] = "run" /\ sc < NumSubchunks(r)
      /\ scenario' = scenario /\ work_seq'[r] = work_seq[r]
      /\ next_subchunk' = [next_subchunk EXCEPT ![r][n] = @ + 1]
      /\ completed' = completed
      /\ ToEngine(r, node, x) \/ ToLane(r, node, x)
  BY DEF SubmitSlice, Submittable
<1>2. RankSlices(r)
  BY DEF Slices
<1>3. /\ DOMAIN next_subchunk[r] = Nodes(r) /\ n \in Nodes(r)
      /\ NumSubchunks(r) \in Nat
      /\ InPlace(r) /\ \A t \in Flying(r) : Submitted(r, t)
      /\ next_subchunk[r] \in [Nodes(r) -> 0 .. NumSubchunks(r)]
      /\ completed[r] \in [Nodes(r) -> 0 .. NumSubchunks(r)]
      /\ \A m \in Nodes(r) :
           /\ IsFiniteSet(Outstanding(r, m))
           /\ next_subchunk[r][m] \in Nat /\ completed[r][m] \in Nat
           /\ Cardinality(Outstanding(r, m)) \in Nat
           /\ completed[r][m] + Cardinality(Outstanding(r, m)) = next_subchunk[r][m]
  BY <1>1, <1>2, InFlight
<1>4. Graph(r)' = Graph(r) /\ Nodes(r)' = Nodes(r) /\ NumSubchunks(r)' = NumSubchunks(r)
  BY <1>1, SameWork
<1>5. next_subchunk'[r] = [next_subchunk[r] EXCEPT ![n] = @ + 1]
  BY <1>1 DEF Rounds, RankTypes
<1>6. x \notin Flying(r) /\ x.node = n /\ x.sc = sc
  BY <1>3 DEF Submitted
<1>. HIDE DEF x
<1>7. Flying(r)' = Flying(r) \cup {x} /\ LanesInOrder(r)' /\ InPlace(r)'
  <2>0. DOMAIN h2h_inflight = Ranks /\ DOMAIN lanes = Ranks /\ DOMAIN lanes[r] = Lanes /\ LanesInOrder(r)
    BY <1>2 DEF Rounds, RankTypes, RankSlices
  <2>1. CASE ToEngine(r, node, x)
    <3>1. IsHostOp(node) /\ lanes' = lanes /\ h2h_inflight'[r] = h2h_inflight[r] \cup {x}
      BY <2>0, <2>1 DEF ToEngine
    <3>2. Flying(r)' = Flying(r) \cup {x}
      BY <3>1 DEF Flying
    <3>3. LanesInOrder(r)'
      BY <2>0, <3>1 DEF LanesInOrder
    <3>4. InPlace(r)'
      BY <1>3, <1>4, <1>6, <3>1 DEF InPlace, Placed
    <3>. QED BY <3>2, <3>3, <3>4
  <2>2. CASE ToLane(r, node, x)
    <3>1. /\ ~IsHostOp(node) /\ Len(lanes[r][l0]) < LaneDepth
          /\ lanes' = [lanes EXCEPT ![r][l0] = Append(@, x)] /\ h2h_inflight' = h2h_inflight
      BY <2>2 DEF ToLane
    <3>2. l0 \in Lanes
      BY DEF DmaLane, Lanes
    <3>. HIDE DEF l0
    <3>3. /\ lanes'[r][l0] = Append(lanes[r][l0], x)
          /\ \A l \in Lanes \ {l0} : lanes'[r][l] = lanes[r][l]
      BY <2>0, <3>1, <3>2
    <3>4. IsSequence(lanes[r][l0]) /\ LaneDepth \in Nat
      BY <2>0, <3>2, GraphAssumption DEF LanesInOrder
    <3>5. x \notin Elements(lanes[r][l0]) /\ Distinct(lanes[r][l0])
      BY <1>3, <1>6, <3>2 DEF Flying, InPlace
    <3>x. /\ IsSequence(lanes'[r][l0]) /\ Distinct(lanes'[r][l0])
          /\ Elements(lanes'[r][l0]) = Elements(lanes[r][l0]) \cup {x}
          /\ Len(lanes[r][l0]) \in Nat
          /\ Len(lanes'[r][l0]) = Len(lanes[r][l0]) + 1
      BY <3>3, <3>4, <3>5, Submission
    <3>6. Flying(r)' = Flying(r) \cup {x}
      BY <3>1, <3>2, <3>3, <3>x DEF Flying
    <3>7. LanesInOrder(r)'
      BY <2>0, <3>1, <3>3, <3>4, <3>x DEF LanesInOrder
    <3>8. InPlace(r)'
      <4>1. ASSUME NEW l \in Lanes
            PROVE  Distinct(lanes'[r][l]) /\ \A t \in Elements(lanes'[r][l]) : Placed(r, t, l)
        <5>1. CASE l # l0
          BY <1>3, <3>3, <5>1 DEF InPlace
        <5>2. CASE l = l0
          <6>1. Placed(r, x, l0)
            BY <1>6, <3>1 DEF Placed, l0
          <6>. QED BY <1>3, <3>x, <5>2, <6>1 DEF InPlace
        <5>. QED BY <5>1, <5>2
      <4>2. \A t \in h2h_inflight'[r] : IsHostOp(Graph(r).nodes[t.node])
        BY <1>3, <3>1 DEF InPlace
      <4>3. \A t, l : Placed(r, t, l)' = Placed(r, t, l)
        BY <1>4 DEF Placed
      <4>. QED BY <1>4, <4>1, <4>2, <4>3 DEF InPlace
    <3>. QED BY <3>6, <3>7, <3>8
  <2>. QED BY <1>1, <2>1, <2>2
<1>8. ASSUME NEW t \in Flying(r)' PROVE Submitted(r, t)'
  <2>1. t.node \in Nodes(r) /\ t.sc \in Nat /\ t.sc < next_subchunk'[r][t.node]
    <3>1. CASE t = x
      BY <1>3, <1>5, <1>6, <3>1
    <3>2. CASE t \in Flying(r)
      BY <1>3, <1>5, <3>2 DEF Submitted
    <3>. QED BY <1>7, <3>1, <3>2
  <2>. QED BY <1>4, <2>1 DEF Submitted
<1>9. Accounted(r)'
  <2>1. next_subchunk'[r] \in [Nodes(r) -> 0 .. NumSubchunks(r)]
    BY <1>1, <1>3, <1>5
  <2>2. ASSUME NEW m \in Nodes(r)
        PROVE  /\ IsFiniteSet(Outstanding(r, m)')
               /\ completed'[r][m] + Cardinality(Outstanding(r, m)') = next_subchunk'[r][m]
    <3>1. CASE m = n
      <4>1. Outstanding(r, m)' = Outstanding(r, m) \cup {x} /\ x \notin Outstanding(r, m)
        BY <1>6, <1>7, <3>1 DEF Outstanding
      <4>2. IsFiniteSet(Outstanding(r, m)') /\ Cardinality(Outstanding(r, m)') = Cardinality(Outstanding(r, m)) + 1
        BY <1>3, <4>1, FS_AddElement
      <4>3. completed'[r][m] = completed[r][m] /\ next_subchunk'[r][m] = next_subchunk[r][m] + 1
        BY <1>1, <1>3, <1>5, <3>1
      <4>. QED BY <1>3, <4>2, <4>3
    <3>2. CASE m # n
      <4>1. Outstanding(r, m)' = Outstanding(r, m)
        BY <1>6, <1>7, <3>2 DEF Outstanding
      <4>2. completed'[r][m] = completed[r][m] /\ next_subchunk'[r][m] = next_subchunk[r][m]
        BY <1>1, <1>3, <1>5, <3>2
      <4>. QED BY <1>3, <4>1, <4>2
    <3>. QED BY <3>1, <3>2
  <2>. QED BY <1>1, <1>3, <1>4, <2>1, <2>2 DEF Accounted
<1>. QED BY <1>1, <1>7, <1>8, <1>9 DEF RankSlices, Working

(* A slice that is completed was in flight, and is so no more.             *)
LEMMA SlicesCompleted ==
  ASSUME Rounds, Slices, NEW r \in Ranks, pc[r] = "run", NEW x \in Flying(r), Complete(r, x),
         Flying(r)' = Flying(r) \ {x}, LanesInOrder(r)', InPlace(r)'
  PROVE  RankSlices(r)'
<1>. DEFINE n == x.node
<1>1. /\ pc'[r] = "run" /\ scenario' = scenario /\ work_seq'[r] = work_seq[r]
      /\ next_subchunk' = next_subchunk
      /\ completed' = [completed EXCEPT ![r][n] = @ + 1]
  BY DEF Complete
<1>2. /\ n \in Nodes(r)
      /\ NumSubchunks(r) \in Nat
      /\ \A t \in Flying(r) : Submitted(r, t)
      /\ next_subchunk[r] \in [Nodes(r) -> 0 .. NumSubchunks(r)]
      /\ completed[r] \in [Nodes(r) -> 0 .. NumSubchunks(r)]
      /\ \A m \in Nodes(r) :
           /\ IsFiniteSet(Outstanding(r, m))
           /\ next_subchunk[r][m] \in Nat /\ completed[r][m] \in Nat
           /\ Cardinality(Outstanding(r, m)) \in Nat
           /\ completed[r][m] + Cardinality(Outstanding(r, m)) = next_subchunk[r][m]
  <2>1. RankSlices(r)
    BY DEF Slices
  <2>. QED BY <2>1, InFlight DEF Submitted
<1>3. Graph(r)' = Graph(r) /\ Nodes(r)' = Nodes(r) /\ NumSubchunks(r)' = NumSubchunks(r)
  BY <1>1, SameWork
<1>4. completed'[r] = [completed[r] EXCEPT ![n] = @ + 1]
  BY <1>1 DEF Rounds, RankTypes
<1>5. \A t \in Flying(r)' : Submitted(r, t)'
  BY <1>1, <1>2, <1>3 DEF Submitted
<1>6. x \in Outstanding(r, n) /\ Outstanding(r, n)' = Outstanding(r, n) \ {x}
  BY DEF Outstanding
<1>7. /\ IsFiniteSet(Outstanding(r, n)')
      /\ Cardinality(Outstanding(r, n)') = Cardinality(Outstanding(r, n)) - 1
      /\ Cardinality(Outstanding(r, n)') \in Nat
  BY <1>2, <1>6, FS_RemoveElement, FS_CardinalityType
<1>. HIDE DEF n
<1>8. completed[r][n] < next_subchunk[r][n]
  BY <1>2, <1>7
<1>9. completed'[r] \in [Nodes(r) -> 0 .. NumSubchunks(r)]
  BY <1>2, <1>4, <1>8
<1>10. ASSUME NEW m \in Nodes(r)
       PROVE  /\ IsFiniteSet(Outstanding(r, m)')
              /\ completed'[r][m] + Cardinality(Outstanding(r, m)') = next_subchunk'[r][m]
  <2>1. CASE m = n
    BY <1>1, <1>2, <1>4, <1>7, <2>1
  <2>2. CASE m # n
    <3>1. Outstanding(r, m)' = Outstanding(r, m)
      BY <2>2 DEF Outstanding, n
    <3>. QED BY <1>1, <1>2, <1>4, <2>2, <3>1
  <2>. QED BY <2>1, <2>2
<1>11. Accounted(r)'
  BY <1>1, <1>2, <1>3, <1>9, <1>10 DEF Accounted
<1>. QED BY <1>1, <1>5, <1>11 DEF RankSlices, Working

(* pollCudaLane takes the oldest slice of a lane, and no other place holds *)
(* it.                                                                     *)
LEMMA SlicesDma ==
  ASSUME Rounds, Slices, NEW r \in Ranks, NEW lane \in Lanes, CompleteDma(r, lane)
  PROVE  RankSlices(r)'
<1>. DEFINE s == lanes[r][lane]
            x == Head(s)
<1>1. /\ pc[r] = "run" /\ s # <<>>
      /\ Complete(r, x)
      /\ lanes' = [lanes EXCEPT ![r][lane] = Tail(@)]
      /\ h2h_inflight' = h2h_inflight
  BY DEF CompleteDma
<1>2. LanesInOrder(r) /\ InPlace(r)
  BY <1>1 DEF Slices, RankSlices, Working
<1>3. /\ lanes'[r][lane] = Tail(s)
      /\ \A l \in Lanes \ {lane} : lanes'[r][l] = lanes[r][l]
  BY <1>1 DEF Rounds, RankTypes
<1>4. /\ IsSequence(Tail(s)) /\ Distinct(Tail(s))
      /\ Elements(Tail(s)) = Elements(s) \ {x}
      /\ x \in Elements(s)
      /\ Len(s) \in Nat \ {0} /\ Len(Tail(s)) = Len(s) - 1
  BY <1>1, <1>2, Completion DEF LanesInOrder, InPlace
<1>5. Placed(r, x, lane)
  BY <1>2, <1>4 DEF InPlace
<1>6. x \notin h2h_inflight[r] /\ \A l \in Lanes \ {lane} : x \notin Elements(lanes[r][l])
  BY <1>2, <1>5 DEF InPlace, Placed
<1>. HIDE DEF x
<1>7. x \in Flying(r) /\ Flying(r)' = Flying(r) \ {x}
  BY <1>1, <1>3, <1>4, <1>6 DEF Flying
<1>8. LanesInOrder(r)'
  <2>. SUFFICES ASSUME NEW l \in Lanes PROVE IsSequence(lanes'[r][l]) /\ Len(lanes'[r][l]) <= LaneDepth
    BY DEF LanesInOrder
  <2>1. CASE l # lane
    BY <1>2, <1>3, <2>1 DEF LanesInOrder
  <2>2. CASE l = lane
    <3>1. LaneDepth \in Nat /\ Len(s) <= LaneDepth
      BY <1>2, GraphAssumption DEF LanesInOrder
    <3>. HIDE DEF s
    <3>2. Len(Tail(s)) <= LaneDepth
      BY <1>4, <3>1
    <3>. QED BY <1>3, <1>4, <2>2, <3>2
  <2>. QED BY <2>1, <2>2
<1>9. InPlace(r)'
  <2>1. scenario' = scenario /\ work_seq'[r] = work_seq[r]
    BY <1>1 DEF Complete
  <2>2. Graph(r)' = Graph(r)
    BY <2>1, SameWork
  <2>3. \A t, l : Placed(r, t, l)' = Placed(r, t, l)
    BY <2>2 DEF Placed
  <2>4. \A l \in Lanes : Distinct(lanes'[r][l]) /\ \A t \in Elements(lanes'[r][l]) : Placed(r, t, l)
    BY <1>2, <1>3, <1>4 DEF InPlace
  <2>. QED BY <1>1, <1>2, <2>2, <2>3, <2>4 DEF InPlace
<1>. QED BY <1>1, <1>7, <1>8, <1>9, SlicesCompleted

(* pollH2HCompletions takes a finished slice out of the H2H engine's.      *)
LEMMA SlicesH2H ==
  ASSUME Rounds, Slices, NEW r \in Ranks, CompleteH2H(r)
  PROVE  RankSlices(r)'
<1>1. PICK x \in h2h_inflight[r] : /\ Complete(r, x)
                                   /\ h2h_inflight' = [h2h_inflight EXCEPT ![r] = @ \ {x}]
  BY DEF CompleteH2H
<1>2. pc[r] = "run" /\ lanes' = lanes
  BY DEF CompleteH2H
<1>3. LanesInOrder(r) /\ InPlace(r)
  BY <1>2 DEF Slices, RankSlices, Working
<1>4. h2h_inflight'[r] = h2h_inflight[r] \ {x}
  BY <1>1 DEF Rounds, RankTypes
<1>5. \A l \in Lanes : x \notin Elements(lanes[r][l])
  BY <1>1, <1>3 DEF InPlace, Placed
<1>6. x \in Flying(r) /\ Flying(r)' = Flying(r) \ {x}
  BY <1>1, <1>2, <1>4, <1>5 DEF Flying
<1>7. LanesInOrder(r)'
  BY <1>2, <1>3 DEF LanesInOrder
<1>8. InPlace(r)'
  <2>1. scenario' = scenario /\ work_seq'[r] = work_seq[r]
    BY <1>1 DEF Complete
  <2>2. Graph(r)' = Graph(r)
    BY <2>1, SameWork
  <2>. QED BY <1>2, <1>3, <1>4, <2>2 DEF InPlace, Placed
<1>. QED BY <1>1, <1>2, <1>6, <1>7, <1>8, SlicesCompleted

(* runGraph leaves its loop with nothing in flight: a node that has        *)
(* completed all its slices has submitted no more.                         *)
LEMMA SlicesEnter ==
  ASSUME Rounds, Slices, NEW r \in Ranks, EnterBarrier(r)
  PROVE  RankSlices(r)'
<1>1. /\ pc[r] = "run" /\ pc'[r] = "barrier" /\ TerminalsComplete(r)
      /\ lanes' = lanes /\ h2h_inflight' = h2h_inflight
  BY DEF EnterBarrier, inflight, Rounds, RankTypes
<1>2. RankSlices(r)
  BY DEF Slices
<1>3. ASSUME NEW t \in Flying(r) PROVE FALSE
  <2>1. Submitted(r, t)
    BY <1>1, <1>2, InFlight
  <2>2. t.node \in Nodes(r) /\ t \in Outstanding(r, t.node)
    BY <1>3, <2>1 DEF Submitted, Outstanding
  <2>3. /\ IsFiniteSet(Outstanding(r, t.node)) /\ Cardinality(Outstanding(r, t.node)) \in Nat
        /\ next_subchunk[r][t.node] \in 0 .. NumSubchunks(r)
        /\ completed[r][t.node] \in Nat /\ NumSubchunks(r) \in Nat
        /\ completed[r][t.node] + Cardinality(Outstanding(r, t.node)) = next_subchunk[r][t.node]
    BY <1>1, <1>2, <2>2, InFlight
  <2>4. completed[r][t.node] >= NumSubchunks(r)
    BY <1>1, <2>2 DEF TerminalsComplete
  <2>5. Cardinality(Outstanding(r, t.node)) = 0
    BY <2>3, <2>4
  <2>6. Outstanding(r, t.node) = {}
    BY <2>3, <2>5, FS_EmptySet
  <2>. QED BY <2>2, <2>6
<1>4. Flying(r)' = {}
  BY <1>1, <1>3 DEF Flying
<1>5. LanesInOrder(r)'
  BY <1>1, <1>2 DEF RankSlices, LanesInOrder
<1>. QED BY <1>1, <1>4, <1>5 DEF RankSlices, Working

(* finishCurrentWork with an error drops the rings. *)
LEMMA SlicesFail ==
  ASSUME Rounds, Slices, NEW r \in Ranks, Fail(r)
  PROVE  RankSlices(r)'
<1>1. pc'[r] = "failed" /\ h2h_inflight'[r] = {} /\ \A l \in Lanes : lanes'[r][l] = <<>>
  BY DEF Fail, Rounds, RankTypes
<1>2. Flying(r)' = {}
  BY <1>1 DEF Flying, Elements
<1>3. LanesInOrder(r)'
  <2>1. IsSequence(<<>>) /\ Len(<<>>) = 0 /\ LaneDepth \in Nat
    BY GraphAssumption DEF IsSequence
  <2>. QED BY <1>1, <2>1 DEF LanesInOrder
<1>. QED BY <1>1, <1>2, <1>3 DEF RankSlices, Working

(* The executor never loses sight of a slice, and no rank of another's.    *)
LEMMA SlicesStep == Rounds /\ Slices /\ [Next]_vars => Slices'
<1>. SUFFICES ASSUME Rounds, Slices, [Next]_vars PROVE Slices'
  OBVIOUS
<1>0. Rounds' /\ RankTypes /\ RankTypes'
  BY RoundsStep DEF Rounds
<1>1. ASSUME NEW r \in Ranks,
             \/ UserRing(r) \/ PopSetsReaders(r) \/ SeeDoorbell(r) \/ LeaveBarrier(r)
             \/ ResetEpochKeys(r) \/ FinishCurrentWork(r) \/ EngineStep(r) \/ UNCHANGED vars
      PROVE  Slices'
  <2>1. UNCHANGED <<scenario, work_seq, next_subchunk, completed, lanes, h2h_inflight>>
    BY <1>1 DEF UserRing, PopSetsReaders, SeeDoorbell, LeaveBarrier, ResetEpochKeys, FinishCurrentWork,
                EngineStep, TakeShard, FinishShard, vars, inflight, progress
  <2>2. ASSUME NEW q \in Ranks PROVE Working(q)' <=> Working(q)
    <3>1. pc'[q] = pc[q] \/ (pc[q] \in {"popped", "doorbell"} /\ pc'[q] \in {"doorbell", "run"})
          \/ (pc[q] \in {"barrier", "reset", "signal"} /\ pc'[q] \in {"reset", "signal", "idle"})
      BY <1>0, <1>1 DEF UserRing, PopSetsReaders, SeeDoorbell, LeaveBarrier, ResetEpochKeys,
           FinishCurrentWork, EngineStep, TakeShard, FinishShard, vars, RankTypes
    <3>. QED BY <3>1 DEF Working
  <2>. QED BY <2>1, <2>2, SameSlices DEF Slices, Kept
<1>2. ASSUME NEW r \in Ranks, scenario' = scenario, RankSlices(r)',
             \A q \in Ranks \ {r} : Kept(q) /\ pc'[q] = pc[q]
      PROVE  Slices'
  BY <1>2, MoveSlices
<1>3. ASSUME NEW r \in Ranks, PopZeroesReaders(r) PROVE Slices'
  <2>1. scenario' = scenario /\ \A q \in Ranks \ {r} : Kept(q) /\ pc'[q] = pc[q]
    BY <1>0, <1>3 DEF PopZeroesReaders, inflight, Kept, RankTypes
  <2>. QED BY <1>0, <1>2, <1>3, <2>1, SlicesPop
<1>4. ASSUME NEW r \in Ranks, NEW n \in DOMAIN next_subchunk[r], SkipSlice(r, n) PROVE Slices'
  <2>1. scenario' = scenario /\ \A q \in Ranks \ {r} : Kept(q) /\ pc'[q] = pc[q]
    BY <1>0, <1>4 DEF SkipSlice, inflight, Kept, RankTypes
  <2>. QED BY <1>2, <1>4, <2>1, SlicesSkip
<1>5. ASSUME NEW r \in Ranks, NEW n \in DOMAIN next_subchunk[r], SubmitSlice(r, n) PROVE Slices'
  <2>1. /\ UNCHANGED <<scenario, completed, pc, work_seq>>
        /\ \A q \in Ranks \ {r} : next_subchunk'[q] = next_subchunk[q]
    BY <1>0, <1>5 DEF SubmitSlice, RankTypes
  <2>2. \A q \in Ranks \ {r} : lanes'[q] = lanes[q] /\ h2h_inflight'[q] = h2h_inflight[q]
    BY <1>0, <1>5 DEF SubmitSlice, ToEngine, ToLane, RankTypes
  <2>. QED BY <1>2, <1>5, <2>1, <2>2, SlicesSubmit DEF Kept
<1>6. ASSUME NEW r \in Ranks, (\E lane \in Lanes : CompleteDma(r, lane)) \/ CompleteH2H(r) PROVE Slices'
  <2>1. /\ UNCHANGED <<scenario, next_subchunk, pc, work_seq>>
        /\ \A q \in Ranks \ {r} : completed'[q] = completed[q]
    BY <1>0, <1>6 DEF CompleteDma, CompleteH2H, Complete, RankTypes
  <2>2. \A q \in Ranks \ {r} : lanes'[q] = lanes[q] /\ h2h_inflight'[q] = h2h_inflight[q]
    BY <1>0, <1>6 DEF CompleteDma, CompleteH2H, RankTypes
  <2>3. RankSlices(r)'
    BY <1>6, SlicesDma, SlicesH2H
  <2>. QED BY <1>2, <2>1, <2>2, <2>3 DEF Kept
<1>7. ASSUME NEW r \in Ranks, EnterBarrier(r) PROVE Slices'
  <2>1. scenario' = scenario /\ \A q \in Ranks \ {r} : Kept(q) /\ pc'[q] = pc[q]
    BY <1>0, <1>7 DEF EnterBarrier, inflight, progress, Kept, RankTypes
  <2>. QED BY <1>2, <1>7, <2>1, SlicesEnter
<1>8. ASSUME NEW r \in Ranks, Fail(r) PROVE Slices'
  <2>1. scenario' = scenario /\ \A q \in Ranks \ {r} : Kept(q) /\ pc'[q] = pc[q]
    BY <1>0, <1>8 DEF Fail, progress, Kept, RankTypes
  <2>. QED BY <1>2, <1>8, <2>1, SlicesFail
<1>. QED
  <2>1. CASE UNCHANGED vars
    BY <2>1, <1>1, GraphAssumption
  <2>2. CASE Next
    <3>1. PICK r \in Ranks : UserRing(r) \/ ExecutorStep(r) \/ EngineStep(r) \/ Fail(r)
      BY <2>2 DEF Next
    <3>. QED BY <3>1, <1>1, <1>3, <1>4, <1>5, <1>6, <1>7, <1>8 DEF ExecutorStep
  <2>. QED BY <2>1, <2>2

-----------------------------------------------------------------------------
(* Counters *)

(* compileGraph lists the keys of a graph's nodes among the active keys,   *)
(* and the communicator has counters for all of them.                      *)
LEMMA KeyFacts ==
  ASSUME scenario \in DOMAIN scenarios, Keys = KeysOf(scenarios[scenario]), NEW r \in Ranks,
         NEW seq \in 1 .. NumCollectives
  PROVE  LET g == GraphOf(r, seq)
         IN  /\ g.active_progress_keys \subseteq Keys
             /\ g.initial_ready_inputs \subseteq g.active_progress_keys
             /\ \A n \in DOMAIN g.nodes : g.nodes[n].output \in g.active_progress_keys
<1>. DEFINE s == scenarios[scenario]
            g == GraphOf(r, seq)
<1>1. seq \in DOMAIN s.programs /\ programs = s.programs
  BY ProgramFacts DEF programs, NumCollectives
<1>2. s.programs[seq] \in ProgramsOf(s)
  BY <1>1 DEF ProgramsOf
<1>3. g \in GraphsOf(s)
  BY <1>1, <1>2 DEF GraphsOf, GraphOf
<1>4. g.active_progress_keys \subseteq KeysOf(s)
  BY <1>3 DEF KeysOf
<1>5. ListsItsKeys(g)
  BY <1>3, GraphAssumption
<1>. QED BY <1>4, <1>5 DEF ListsItsKeys

(* What a rank that is in a collective may rely on. *)
LEMMA WorkFacts ==
  ASSUME Rounds, CounterTypes, NEW r \in Ranks, pc[r] # "idle"
  PROVE  /\ work_seq[r] \in 1 .. NumCollectives
         /\ Epoch(r) \in 0 .. 1
         /\ NumSubchunks(r) \in 1 .. MaxSubchunks
         /\ Graph(r).active_progress_keys \subseteq Keys
         /\ Graph(r).initial_ready_inputs \subseteq Graph(r).active_progress_keys
         /\ \A n \in Nodes(r) : Graph(r).nodes[n].output \in Graph(r).active_progress_keys
<1>1. work_seq[r] \in 1 .. NumCollectives
  BY ProgramFacts DEF Rounds, RankTypes, RankRound
<1>2. Epoch(r) \in 0 .. 1
  <2>1. work_seq[r] \in Nat
    BY DEF Rounds, RankTypes
  <2>2. work_seq[r] % 2 \in 0 .. 2 - 1
    BY <2>1
  <2>. QED BY <2>2 DEF Epoch, EpochOf
<1>3. NumSubchunks(r) \in 1 .. MaxSubchunks
  BY <1>1, ProgramFacts DEF NumSubchunks, Program, Rounds
<1>. QED BY <1>1, <1>2, <1>3, KeyFacts DEF Graph, Nodes, Rounds, CounterTypes

(* Two ranks that use the same epoch are in the same collective.           *)
LEMMA SameCollective ==
  ASSUME Rounds, NEW r \in Ranks, NEW p \in Ranks,
         pc[r] \in {"doorbell", "run"}, pc[p] \in {"run", "barrier", "reset", "failed"},
         Epoch(p) = Epoch(r)
  PROVE  work_seq[p] = work_seq[r] /\ pc[p] # "reset"
<1>1. /\ work_seq[r] \in Nat /\ work_seq[p] \in Nat /\ entered[r] \in Nat /\ entered[p] \in Nat
      /\ work_seq[r] >= 1 /\ work_seq[p] >= 1
      /\ entered[r] = work_seq[r] - 1
      /\ entered[p] \in {work_seq[p] - 1, work_seq[p]}
      /\ pc[p] = "reset" => entered[r] >= work_seq[p]
      /\ entered[p] >= work_seq[r] - 1
      /\ entered[r] >= work_seq[p] - 1
  BY DEF Rounds, RankTypes, RankRound, Abreast
<1>2. work_seq[p] <= work_seq[r] /\ work_seq[r] <= work_seq[p] + 1
  BY <1>1
<1>3. work_seq[r] # work_seq[p] + 1
  <2>. SUFFICES ASSUME work_seq[r] = work_seq[p] + 1 PROVE FALSE
    OBVIOUS
  <2>2. work_seq[r] % 2 # work_seq[p] % 2
    BY <1>1
  <2>. QED BY <2>2 DEF Epoch, EpochOf
<1>4. work_seq[p] = work_seq[r]
  BY <1>1, <1>2, <1>3
<1>. QED BY <1>1, <1>4

(* A rank stops using its epoch's counters only by clearing them.          *)
LEMMA OwnersStay ==
  ASSUME Rounds, [Next]_vars, NEW p \in Ranks, NEW key, NEW e, Uses(p, key, e)
  PROVE  \/ Uses(p, key, e)' /\ NumSubchunks(p)' = NumSubchunks(p)
         \/ ResetEpochKeys(p)
<1>0. RankTypes
  BY DEF Rounds
<1>. DEFINE Owning == {"run", "barrier", "reset", "failed"}
<1>1. ASSUME scenario' = scenario, work_seq'[p] = work_seq[p], pc'[p] \in Owning
      PROVE  Uses(p, key, e)' /\ NumSubchunks(p)' = NumSubchunks(p)
  <2>1. Graph(p)' = Graph(p) /\ NumSubchunks(p)' = NumSubchunks(p)
    BY <1>1, SameWork
  <2>2. Epoch(p)' = Epoch(p)
    BY <1>1 DEF Epoch, EpochOf
  <2>. QED BY <1>1, <2>1, <2>2 DEF Uses
<1>2. pc[p] \in Owning
  BY DEF Uses
<1>3. ASSUME NEW r \in Ranks, PopZeroesReaders(r)
      PROVE  scenario' = scenario /\ work_seq'[p] = work_seq[p] /\ pc'[p] \in Owning
  BY <1>0, <1>2, <1>3 DEF PopZeroesReaders, RankTypes
<1>4. ASSUME NEW r \in Ranks, \/ PopSetsReaders(r) \/ SeeDoorbell(r) \/ FinishCurrentWork(r)
                              \/ EnterBarrier(r) \/ LeaveBarrier(r) \/ Fail(r)
      PROVE  scenario' = scenario /\ work_seq'[p] = work_seq[p] /\ pc'[p] \in Owning
  BY <1>0, <1>2, <1>4 DEF PopSetsReaders, SeeDoorbell, FinishCurrentWork, EnterBarrier, LeaveBarrier, Fail,
                          RankTypes
<1>5. ASSUME NEW r \in Ranks, ResetEpochKeys(r), r # p
      PROVE  scenario' = scenario /\ work_seq'[p] = work_seq[p] /\ pc'[p] \in Owning
  BY <1>0, <1>2, <1>5 DEF ResetEpochKeys, RankTypes
<1>6. ASSUME NEW r \in Ranks, (\E lane \in Lanes : CompleteDma(r, lane)) \/ CompleteH2H(r)
      PROVE  scenario' = scenario /\ work_seq'[p] = work_seq[p] /\ pc'[p] \in Owning
  BY <1>2, <1>6 DEF CompleteDma, CompleteH2H, Complete
<1>7. ASSUME NEW r \in Ranks, \E n \in DOMAIN next_subchunk[r] : SkipSlice(r, n) \/ SubmitSlice(r, n)
      PROVE  scenario' = scenario /\ work_seq'[p] = work_seq[p] /\ pc'[p] \in Owning
  BY <1>2, <1>7 DEF SkipSlice, SubmitSlice
<1>8. ASSUME NEW r \in Ranks, UserRing(r) \/ EngineStep(r) \/ UNCHANGED vars
      PROVE  scenario' = scenario /\ work_seq'[p] = work_seq[p] /\ pc'[p] \in Owning
  BY <1>2, <1>8 DEF UserRing, EngineStep, TakeShard, FinishShard, vars
<1>. QED
  <2>1. CASE UNCHANGED vars
    BY <2>1, <1>1, <1>8
  <2>2. CASE Next
    <3>1. PICK r \in Ranks : UserRing(r) \/ ExecutorStep(r) \/ EngineStep(r) \/ Fail(r)
      BY <2>2 DEF Next
    <3>. QED BY <3>1, <1>1, <1>3, <1>4, <1>5, <1>6, <1>7, <1>8 DEF ExecutorStep
  <2>. QED BY <2>1, <2>2

(* What a step may do to the counter of a key in epoch e: keep it, advance *)
(* it for a collective that uses it, or clear it.                          *)
Advances(key, e) ==
  \E r \in Ranks : /\ Uses(r, key, e)'
                   /\ write_progress'[key][e] <= NumSubchunks(r)'
                   /\ write_progress'[key][e] >= write_progress[key][e]

Moves(key, e) ==
  /\ write_progress'[key][e] = write_progress[key][e] \/ Advances(key, e)
  /\ consume_progress'[key][e] >= consume_progress[key][e]

Clears(key, e) ==
  /\ \E r \in Ranks : ResetEpochKeys(r) /\ e = Epoch(r) /\ key \in Graph(r).active_progress_keys
  /\ write_progress'[key][e] = 0

(* The larger of two numbers (advanceWriteProgress: a counter never falls  *)
(* behind). *)
LEMMA MaxFacts ==
  ASSUME NEW a \in Nat, NEW b \in Nat
  PROVE  AtomicMax(a, b) \in {a, b} /\ AtomicMax(a, b) >= a
BY DEF AtomicMax

(* publishNodeProgress and publishInputReaders advance the counters of the *)
(* rank's collective, to its number of slices at most.                     *)
LEMMA PublishMoves ==
  ASSUME Rounds, CounterTypes, NEW r \in Ranks, pc[r] = "run", NEW n \in Nodes(r),
         NEW sc \in Nat, sc < NumSubchunks(r),
         PublishNode(Graph(r).nodes[n], sc, Epoch(r)), PublishReaders(Graph(r).nodes[n], sc, Epoch(r)),
         scenario' = scenario, num_readers' = num_readers, pc' = pc, work_seq' = work_seq
  PROVE  CounterTypes' /\ \A key \in Keys, e \in 0 .. 1 : Moves(key, e)
<1>. DEFINE node == Graph(r).nodes[n]
            ep   == Epoch(r)
            readers == {node.inputs[j] : j \in {i \in DOMAIN node.inputs : node.inputs[i].reads}}
            done    == [key \in Keys |-> [e \in 0 .. 1 |-> [id \in DOMAIN reader_done[key][e] |->
                          IF e = ep /\ \E in \in readers : in.key = key /\ in.reader_id = id
                          THEN AtomicMax(reader_done[key][e][id], sc + 1)
                          ELSE reader_done[key][e][id]]]]
            T(key) == {sc + 1} \cup {done[key][ep][id] : id \in 0 .. num_readers[key] - 1}
<1>1. /\ ep \in 0 .. 1
      /\ NumSubchunks(r) \in 1 .. MaxSubchunks
      /\ node.output \in Graph(r).active_progress_keys
      /\ Graph(r).active_progress_keys \subseteq Keys
  BY WorkFacts
<1>m. MaxReaders \in Nat /\ MaxSubchunks \in Nat
  BY GraphAssumption
<1>2. /\ write_progress \in [Keys -> [0 .. 1 -> 0 .. MaxSubchunks]]
      /\ consume_progress \in [Keys -> [0 .. 1 -> 0 .. MaxSubchunks]]
      /\ reader_done \in [Keys -> [0 .. 1 -> [0 .. MaxReaders - 1 -> Nat]]]
      /\ num_readers \in [Keys -> 0 .. MaxReaders]
      /\ Keys' = Keys /\ Keys' = KeysOf(scenarios[scenario])'
  BY DEF CounterTypes, Keys
<1>3. /\ write_progress' = [write_progress EXCEPT ![node.output][ep] = AtomicMax(@, sc + 1)]
      /\ reader_done' = done
      /\ consume_progress' = [key \in Keys |->
            IF \E in \in readers : in.key = key
            THEN [consume_progress[key] EXCEPT ![ep] = AtomicMax(@, Min(T(key)))]
            ELSE consume_progress[key]]
  BY DEF PublishNode, PublishReaders
<1>. HIDE DEF node, ep, readers
<1>4. sc + 1 \in 0 .. MaxSubchunks
  BY <1>1, <1>m
<1>5. done \in [Keys -> [0 .. 1 -> [0 .. MaxReaders - 1 -> Nat]]]
  <2>1. ASSUME NEW key \in Keys, NEW e \in 0 .. 1, NEW id \in 0 .. MaxReaders - 1
        PROVE  AtomicMax(reader_done[key][e][id], sc + 1) \in Nat /\ reader_done[key][e][id] \in Nat
    <3>1. reader_done[key][e][id] \in Nat
      <4>1. reader_done[key] \in [0 .. 1 -> [0 .. MaxReaders - 1 -> Nat]]
        BY <1>2
      <4>2. reader_done[key][e] \in [0 .. MaxReaders - 1 -> Nat]
        BY <4>1
      <4>. QED BY <4>2
    <3>. QED BY <3>1 DEF AtomicMax
  <2>2. \A key \in Keys, e \in 0 .. 1 : DOMAIN reader_done[key][e] = 0 .. MaxReaders - 1
    BY <1>2
  <2>. QED BY <2>1, <2>2
<1>. HIDE DEF done
<1>6. ASSUME NEW key \in Keys PROVE Min(T(key)) \in Nat /\ Min(T(key)) <= sc + 1
  <2>1. num_readers[key] \in 0 .. MaxReaders
    BY <1>2
  <2>2. \A id \in 0 .. num_readers[key] - 1 : id \in 0 .. MaxReaders - 1
    BY <2>1, <1>m
  <2>3. \A id \in 0 .. num_readers[key] - 1 : done[key][ep][id] \in Nat
    <3>1. done[key] \in [0 .. 1 -> [0 .. MaxReaders - 1 -> Nat]]
      BY <1>5
    <3>2. done[key][ep] \in [0 .. MaxReaders - 1 -> Nat]
      BY <1>1, <3>1
    <3>. QED BY <2>2, <3>2
  <2>4. T(key) \subseteq Nat /\ sc + 1 \in T(key)
    BY <2>3
  <2>. QED BY <2>4, LeastNumber
<1>. HIDE DEF T
<1>7. ASSUME NEW key \in Keys, NEW e \in 0 .. 1
      PROVE  /\ consume_progress'[key][e] \in 0 .. MaxSubchunks
             /\ consume_progress'[key][e] >= consume_progress[key][e]
             /\ consume_progress'[key] \in [0 .. 1 -> 0 .. MaxSubchunks]
  <2>1. ASSUME NEW f \in 0 .. 1
        PROVE  /\ consume_progress[key][f] \in 0 .. MaxSubchunks
               /\ AtomicMax(consume_progress[key][f], Min(T(key))) \in 0 .. MaxSubchunks
               /\ AtomicMax(consume_progress[key][f], Min(T(key))) >= consume_progress[key][f]
    <3>1. consume_progress[key][f] \in 0 .. MaxSubchunks
      BY <1>2
    <3>2. Min(T(key)) \in 0 .. MaxSubchunks
      BY <1>4, <1>6, <1>m
    <3>. QED BY <3>1, <3>2, <1>m, MaxFacts
  <2>2. consume_progress[key] \in [0 .. 1 -> 0 .. MaxSubchunks]
    BY <1>2
  <2>3. consume_progress'[key] \in {consume_progress[key],
           [consume_progress[key] EXCEPT ![ep] = AtomicMax(@, Min(T(key)))]}
    BY <1>3
  <2>4. consume_progress'[key] \in [0 .. 1 -> 0 .. MaxSubchunks]
    BY <1>1, <2>1, <2>2, <2>3
  <2>5. consume_progress'[key][e] >= consume_progress[key][e]
    BY <1>1, <1>m, <2>1, <2>2, <2>3
  <2>. QED BY <2>4, <2>5
<1>8. consume_progress' \in [Keys -> [0 .. 1 -> 0 .. MaxSubchunks]]
  <2>1. consume_progress' = [key \in Keys |-> consume_progress'[key]]
    BY <1>3
  <2>. QED BY <1>7, <2>1
<1>9. /\ node.output \in Keys
      /\ write_progress[node.output][ep] \in 0 .. MaxSubchunks
      /\ AtomicMax(write_progress[node.output][ep], sc + 1) \in {write_progress[node.output][ep], sc + 1}
      /\ AtomicMax(write_progress[node.output][ep], sc + 1) >= write_progress[node.output][ep]
      /\ AtomicMax(write_progress[node.output][ep], sc + 1) \in 0 .. MaxSubchunks
  <2>1. node.output \in Keys /\ write_progress[node.output][ep] \in 0 .. MaxSubchunks
    BY <1>1, <1>2
  <2>2. write_progress[node.output][ep] \in Nat
    BY <2>1, <1>m
  <2>. QED BY <2>1, <2>2, <1>4, <1>m, MaxFacts
<1>10. write_progress' \in [Keys -> [0 .. 1 -> 0 .. MaxSubchunks]]
  BY <1>1, <1>2, <1>3, <1>9
<1>11. CounterTypes'
  BY <1>2, <1>3, <1>5, <1>8, <1>10 DEF CounterTypes
<1>12. ASSUME NEW key \in Keys, NEW e \in 0 .. 1, write_progress'[key][e] # write_progress[key][e]
       PROVE  Advances(key, e)
  <2>1. key = node.output /\ e = ep
    BY <1>1, <1>2, <1>3, <1>9, <1>12
  <2>2. write_progress'[key][e] = AtomicMax(write_progress[node.output][ep], sc + 1)
    BY <1>1, <1>2, <1>3, <1>9, <2>1
  <2>3. write_progress'[key][e] = sc + 1 /\ write_progress'[key][e] >= write_progress[key][e]
    BY <1>9, <1>12, <2>1, <2>2
  <2>4. Graph(r)' = Graph(r) /\ NumSubchunks(r)' = NumSubchunks(r)
    BY SameWork
  <2>5. Uses(r, key, e)'
    BY <1>1, <2>1, <2>4 DEF Uses, Epoch, EpochOf, ep
  <2>6. write_progress'[key][e] <= NumSubchunks(r)'
    BY <1>1, <2>3, <2>4
  <2>. QED BY <2>3, <2>5, <2>6 DEF Advances
<1>. QED BY <1>7, <1>11, <1>12 DEF Moves

(* A step that leaves the counters alone. *)
LEMMA CountersKept ==
  ASSUME CounterTypes, scenario' = scenario, counters' = counters,
         num_readers' \in [Keys -> 0 .. MaxReaders]
  PROVE  CounterTypes' /\ \A key \in Keys, e \in 0 .. 1 : Moves(key, e)
<1>1. /\ write_progress' = write_progress /\ consume_progress' = consume_progress
      /\ reader_done' = reader_done /\ Keys' = Keys
  BY DEF counters, Keys
<1>2. CounterTypes'
  BY <1>1 DEF CounterTypes
<1>3. ASSUME NEW key \in Keys, NEW e \in 0 .. 1
      PROVE  consume_progress'[key][e] >= consume_progress[key][e]
  <2>1. consume_progress[key] \in [0 .. 1 -> 0 .. MaxSubchunks]
    BY DEF CounterTypes
  <2>2. consume_progress[key][e] \in Int
    BY <2>1, GraphAssumption
  <2>. QED BY <1>1, <2>2
<1>. QED BY <1>1, <1>2, <1>3 DEF Moves

(* waitForUserReadyAndPublishInputs publishes all slices of the inputs: no *)
(* counter of them is beyond that, since whoever advanced it is in the     *)
(* same collective.                                                        *)
LEMMA DoorbellMoves ==
  ASSUME Rounds, Counters, NEW r \in Ranks, SeeDoorbell(r)
  PROVE  CounterTypes' /\ \A key \in Keys, e \in 0 .. 1 : Moves(key, e)
<1>1. /\ pc[r] = "doorbell" /\ pc'[r] = "run"
      /\ write_progress' = [key \in Keys |->
            IF key \in Graph(r).initial_ready_inputs
            THEN [write_progress[key] EXCEPT ![Epoch(r)] = NumSubchunks(r)]
            ELSE write_progress[key]]
      /\ UNCHANGED <<scenario, consume_progress, reader_done, num_readers, work_seq>>
  BY DEF SeeDoorbell, Rounds, RankTypes
<1>2. /\ Epoch(r) \in 0 .. 1
      /\ NumSubchunks(r) \in 1 .. MaxSubchunks
      /\ Graph(r).active_progress_keys \subseteq Keys
      /\ Graph(r).initial_ready_inputs \subseteq Graph(r).active_progress_keys
  BY <1>1, WorkFacts DEF Counters
<1>3. /\ write_progress \in [Keys -> [0 .. 1 -> 0 .. MaxSubchunks]]
      /\ consume_progress \in [Keys -> [0 .. 1 -> 0 .. MaxSubchunks]]
      /\ MaxSubchunks \in Nat /\ Keys' = Keys /\ CounterTypes
  BY <1>1, GraphAssumption DEF Counters, CounterTypes, Keys
<1>4. ASSUME NEW key \in Keys PROVE write_progress'[key] \in [0 .. 1 -> 0 .. MaxSubchunks]
  <2>1. write_progress[key] \in [0 .. 1 -> 0 .. MaxSubchunks] /\ NumSubchunks(r) \in 0 .. MaxSubchunks
    BY <1>2, <1>3
  <2>2. write_progress'[key] \in {write_progress[key], [write_progress[key] EXCEPT ![Epoch(r)] = NumSubchunks(r)]}
    BY <1>1
  <2>. QED BY <2>1, <2>2
<1>5. write_progress' \in [Keys -> [0 .. 1 -> 0 .. MaxSubchunks]]
  <2>1. write_progress' = [key \in Keys |-> write_progress'[key]]
    BY <1>1
  <2>. QED BY <1>4, <2>1
<1>6. CounterTypes'
  BY <1>1, <1>3, <1>5 DEF CounterTypes
<1>7. ASSUME NEW key \in Keys, NEW e \in 0 .. 1, write_progress'[key][e] # write_progress[key][e]
      PROVE  Advances(key, e)
  <2>0. write_progress[key] \in [0 .. 1 -> 0 .. MaxSubchunks]
    BY <1>3
  <2>1. key \in Graph(r).initial_ready_inputs /\ e = Epoch(r) /\ write_progress'[key][e] = NumSubchunks(r)
    BY <1>1, <1>2, <1>7, <2>0
  <2>2. Graph(r)' = Graph(r) /\ NumSubchunks(r)' = NumSubchunks(r) /\ Epoch(r)' = Epoch(r)
    BY <1>1, SameWork DEF Epoch
  <2>3. Uses(r, key, e)'
    BY <1>1, <1>2, <2>1, <2>2 DEF Uses
  <2>4. write_progress[key][e] <= NumSubchunks(r)
    <3>1. CASE write_progress[key][e] = 0
      BY <1>2, <3>1
    <3>2. CASE write_progress[key][e] # 0
      <4>1. PICK p \in Ranks : Uses(p, key, e) /\ write_progress[key][e] <= NumSubchunks(p)
        BY <3>2 DEF Counters, CounterOwned
      <4>2. work_seq[p] = work_seq[r]
        BY <1>1, <2>1, <4>1, SameCollective DEF Uses
      <4>. QED BY <4>1, <4>2 DEF NumSubchunks, Program
    <3>. QED BY <3>1, <3>2
  <2>5. write_progress'[key][e] \in Int /\ write_progress[key][e] \in Int
    BY <1>2, <1>3, <2>0, <2>1
  <2>6. write_progress'[key][e] <= NumSubchunks(r)' /\ write_progress'[key][e] >= write_progress[key][e]
    BY <2>1, <2>2, <2>4, <2>5
  <2>. QED BY <2>3, <2>6 DEF Advances
<1>8. ASSUME NEW key \in Keys, NEW e \in 0 .. 1
      PROVE  consume_progress'[key][e] >= consume_progress[key][e]
  <2>1. consume_progress[key] \in [0 .. 1 -> 0 .. MaxSubchunks]
    BY <1>3
  <2>2. consume_progress[key][e] \in Int
    BY <1>3, <2>1
  <2>. QED BY <1>1, <2>2
<1>. QED BY <1>6, <1>7, <1>8 DEF Moves

(* resetEpochKeys clears the counters of one rank's keys in its epoch, and *)
(* nothing else.                                                           *)
LEMMA ResetMoves ==
  ASSUME Rounds, Counters, NEW r \in Ranks, ResetEpochKeys(r)
  PROVE  CounterTypes' /\ \A key \in Keys, e \in 0 .. 1 : Moves(key, e) \/ Clears(key, e)
<1>. DEFINE keys == Graph(r).active_progress_keys
            zero == [id \in 0 .. MaxReaders - 1 |-> 0]
<1>1. /\ pc[r] = "reset"
      /\ write_progress' = [key \in Keys |->
            IF key \in keys THEN [write_progress[key] EXCEPT ![Epoch(r)] = 0] ELSE write_progress[key]]
      /\ consume_progress' = [key \in Keys |->
            IF key \in keys THEN [consume_progress[key] EXCEPT ![Epoch(r)] = 0] ELSE consume_progress[key]]
      /\ reader_done' = [key \in Keys |->
            IF key \in keys THEN [reader_done[key] EXCEPT ![Epoch(r)] = zero] ELSE reader_done[key]]
      /\ UNCHANGED <<scenario, num_readers>>
  BY DEF ResetEpochKeys
<1>2. Epoch(r) \in 0 .. 1 /\ MaxSubchunks \in Nat
  BY <1>1, WorkFacts, GraphAssumption DEF Counters
<1>3. ASSUME NEW key \in Keys
      PROVE  /\ write_progress[key] \in [0 .. 1 -> 0 .. MaxSubchunks]
             /\ consume_progress[key] \in [0 .. 1 -> 0 .. MaxSubchunks]
             /\ reader_done[key] \in [0 .. 1 -> [0 .. MaxReaders - 1 -> Nat]]
  BY DEF Counters, CounterTypes
<1>4. /\ zero \in [0 .. MaxReaders - 1 -> Nat]
      /\ 0 \in 0 .. MaxSubchunks
  BY <1>2
<1>. HIDE DEF zero, keys
<1>5. /\ write_progress' \in [Keys -> [0 .. 1 -> 0 .. MaxSubchunks]]
      /\ consume_progress' \in [Keys -> [0 .. 1 -> 0 .. MaxSubchunks]]
  BY <1>1, <1>2, <1>3, <1>4
<1>6. reader_done' \in [Keys -> [0 .. 1 -> [0 .. MaxReaders - 1 -> Nat]]]
  BY <1>1, <1>2, <1>3, <1>4
<1>7. CounterTypes'
  BY <1>1, <1>5, <1>6 DEF Counters, CounterTypes, Keys
<1>8. ASSUME NEW key \in Keys, NEW e \in 0 .. 1 PROVE Moves(key, e) \/ Clears(key, e)
  <2>1. CASE key \in keys /\ e = Epoch(r)
    <3>1. write_progress'[key][e] = 0
      BY <1>1, <1>3, <2>1
    <3>. QED BY <2>1, <3>1 DEF Clears, keys
  <2>2. CASE ~ (key \in keys /\ e = Epoch(r))
    <3>1. write_progress'[key][e] = write_progress[key][e] /\ consume_progress'[key][e] = consume_progress[key][e]
      BY <1>1, <1>2, <1>3, <2>2
    <3>2. consume_progress[key][e] \in Int
      BY <1>2, <1>3
    <3>. QED BY <3>1, <3>2 DEF Moves
  <2>. QED BY <2>1, <2>2
<1>. QED BY <1>7, <1>8

(* What the communicator runs does not change. *)
LEMMA SameScenario == [Next]_vars => scenario' = scenario
<1>1. ASSUME NEW r \in Ranks, ExecutorStep(r) PROVE scenario' = scenario
  <2>1. ASSUME NEW n, SkipSlice(r, n) \/ SubmitSlice(r, n) PROVE scenario' = scenario
    BY <2>1 DEF SkipSlice, SubmitSlice
  <2>2. CASE (\E lane \in Lanes : CompleteDma(r, lane)) \/ CompleteH2H(r)
    BY <2>2 DEF CompleteDma, CompleteH2H, Complete
  <2>3. CASE PopZeroesReaders(r) \/ PopSetsReaders(r) \/ SeeDoorbell(r)
    BY <2>3 DEF PopZeroesReaders, PopSetsReaders, SeeDoorbell
  <2>4. CASE EnterBarrier(r) \/ LeaveBarrier(r) \/ ResetEpochKeys(r) \/ FinishCurrentWork(r)
    BY <2>4 DEF EnterBarrier, LeaveBarrier, ResetEpochKeys, FinishCurrentWork
  <2>. QED BY <1>1, <2>1, <2>2, <2>3, <2>4 DEF ExecutorStep
<1>2. ASSUME NEW r \in Ranks, UserRing(r) \/ EngineStep(r) \/ Fail(r) PROVE scenario' = scenario
  BY <1>2 DEF UserRing, EngineStep, TakeShard, FinishShard, Fail
<1>3. UNCHANGED vars => scenario' = scenario
  BY DEF vars
<1>. QED BY <1>1, <1>2, <1>3 DEF Next

(* Every step types the counters, and advances or clears them. *)
LEMMA CounterMoves ==
  ASSUME Rounds, Slices, Counters, [Next]_vars
  PROVE  /\ CounterTypes' /\ Keys' = Keys
         /\ \A key \in Keys, e \in 0 .. 1 : Moves(key, e) \/ Clears(key, e)
<1>. DEFINE Goal == CounterTypes' /\ \A key \in Keys, e \in 0 .. 1 : Moves(key, e) \/ Clears(key, e)
<1>0. CounterTypes /\ num_readers \in [Keys -> 0 .. MaxReaders] /\ MaxReaders \in Nat
  BY GraphAssumption DEF Counters, CounterTypes
<1>k. scenario' = scenario /\ num_readers' \in [Keys -> 0 .. MaxReaders] /\ counters' = counters => Goal
  BY <1>0, CountersKept
<1>1. ASSUME NEW r \in Ranks, \/ UserRing(r) \/ FinishCurrentWork(r) \/ EnterBarrier(r) \/ LeaveBarrier(r)
                              \/ Fail(r) \/ EngineStep(r) \/ UNCHANGED vars
      PROVE  Goal
  <2>1. UNCHANGED <<scenario, num_readers, counters>>
    BY <1>1 DEF UserRing, FinishCurrentWork, EnterBarrier, LeaveBarrier, Fail, EngineStep, TakeShard,
                FinishShard, vars
  <2>. QED BY <1>0, <1>k, <2>1
<1>2. ASSUME NEW r \in Ranks, PopZeroesReaders(r) PROVE Goal
  <2>1. num_readers' \in [Keys -> 0 .. MaxReaders]
    BY <1>0, <1>2 DEF PopZeroesReaders
  <2>. QED BY <1>2, <1>k, <2>1 DEF PopZeroesReaders
<1>3. ASSUME NEW r \in Ranks, PopSetsReaders(r) PROVE Goal
  <2>1. ASSUME NEW key \in Keys PROVE num_readers'[key] \in 0 .. MaxReaders
    <3>1. num_readers'[key] = num_readers[key] \/ num_readers'[key] \in 1 .. MaxReaders
      BY <1>3, <2>1 DEF PopSetsReaders
    <3>. QED BY <1>0, <3>1
  <2>2. num_readers' = [key \in Keys |-> num_readers'[key]]
    BY <1>3 DEF PopSetsReaders
  <2>3. num_readers' \in [Keys -> 0 .. MaxReaders]
    BY <2>1, <2>2
  <2>. QED BY <1>3, <1>k, <2>3 DEF PopSetsReaders
<1>4. ASSUME NEW r \in Ranks, SeeDoorbell(r) PROVE Goal
  BY <1>4, DoorbellMoves
<1>5. ASSUME NEW r \in Ranks, ResetEpochKeys(r) PROVE Goal
  BY <1>5, ResetMoves
<1>6. ASSUME NEW r \in Ranks, NEW n \in DOMAIN next_subchunk[r], SubmitSlice(r, n) PROVE Goal
  <2>1. UNCHANGED <<scenario, num_readers, counters>>
    BY <1>6 DEF SubmitSlice
  <2>. QED BY <1>0, <1>k, <2>1
<1>7. ASSUME NEW r \in Ranks, NEW n \in DOMAIN next_subchunk[r], SkipSlice(r, n) PROVE Goal
  <2>1. /\ pc[r] = "run" /\ next_subchunk[r][n] < NumSubchunks(r)
        /\ PublishNode(Graph(r).nodes[n], next_subchunk[r][n], Epoch(r))
        /\ PublishReaders(Graph(r).nodes[n], next_subchunk[r][n], Epoch(r))
        /\ UNCHANGED <<scenario, num_readers, pc, work_seq>>
    BY <1>7 DEF SkipSlice, Submittable
  <2>2. n \in Nodes(r) /\ next_subchunk[r][n] \in Nat
    BY <1>7, <2>1, InFlight DEF Slices
  <2>. QED BY <1>0, <2>1, <2>2, PublishMoves
<1>8. ASSUME NEW r \in Ranks, NEW x \in Flying(r), pc[r] = "run", Complete(r, x) PROVE Goal
  <2>1. /\ PublishNode(Graph(r).nodes[x.node], x.sc, Epoch(r))
        /\ PublishReaders(Graph(r).nodes[x.node], x.sc, Epoch(r))
        /\ UNCHANGED <<scenario, num_readers, pc, work_seq>>
    BY <1>8 DEF Complete
  <2>2. /\ x.node \in Nodes(r) /\ x.sc \in Nat /\ x.sc < next_subchunk[r][x.node]
        /\ next_subchunk[r] \in [Nodes(r) -> 0 .. NumSubchunks(r)] /\ NumSubchunks(r) \in Nat
    BY <1>8, InFlight DEF Slices, Submitted
  <2>3. x.sc < NumSubchunks(r)
    BY <2>2
  <2>. QED BY <1>0, <1>8, <2>1, <2>2, <2>3, PublishMoves
<1>9. ASSUME NEW r \in Ranks, NEW lane \in Lanes, CompleteDma(r, lane) PROVE Goal
  <2>1. pc[r] = "run" /\ lanes[r][lane] # <<>> /\ Complete(r, Head(lanes[r][lane]))
    BY <1>9 DEF CompleteDma
  <2>2. IsSequence(lanes[r][lane]) /\ Distinct(lanes[r][lane])
    BY <2>1 DEF Slices, RankSlices, Working, InPlace, LanesInOrder
  <2>3. Head(lanes[r][lane]) \in Flying(r)
    BY <2>1, <2>2, Completion DEF Flying
  <2>. QED BY <1>8, <2>1, <2>3
<1>10. ASSUME NEW r \in Ranks, CompleteH2H(r) PROVE Goal
  BY <1>8, <1>10 DEF CompleteH2H, Flying
<1>11. Goal
  <2>1. CASE UNCHANGED vars
    BY <2>1, <1>1, GraphAssumption
  <2>2. CASE Next
    <3>1. PICK r \in Ranks : UserRing(r) \/ ExecutorStep(r) \/ EngineStep(r) \/ Fail(r)
      BY <2>2 DEF Next
    <3>. QED BY <3>1, <1>1, <1>2, <1>3, <1>4, <1>5, <1>6, <1>7, <1>9, <1>10 DEF ExecutorStep
  <2>. QED BY <2>1, <2>2
<1>12. Keys' = Keys
  <2>1. scenario' = scenario
    BY SameScenario
  <2>. QED BY <1>0, <1>11, <2>1 DEF CounterTypes
<1>. QED BY <1>11, <1>12

(* The counters are zero when the executors start. *)
LEMMA CountersInit == Init => Counters
<1>. SUFFICES ASSUME Init PROVE Counters
  OBVIOUS
<1>1. Keys = KeysOf(scenarios[scenario]) /\ MaxSubchunks \in Nat /\ MaxReaders \in Nat
  BY GraphAssumption DEF Init, Keys
<1>2. CounterTypes
  BY <1>1 DEF Init, CounterTypes
<1>3. \A key \in Keys, e \in 0 .. 1 : write_progress[key][e] = 0
  BY <1>1 DEF Init
<1>. QED BY <1>2, <1>3 DEF Counters, CounterOwned

(* Whose collective a counter belongs to stays so until it is cleared.     *)
LEMMA CountersStep == Rounds /\ Slices /\ Counters /\ [Next]_vars => Counters'
<1>. SUFFICES ASSUME Rounds, Slices, Counters, [Next]_vars PROVE Counters'
  OBVIOUS
<1>1. /\ CounterTypes' /\ Keys' = Keys
      /\ \A key \in Keys, e \in 0 .. 1 : Moves(key, e) \/ Clears(key, e)
  BY CounterMoves
<1>2. ASSUME NEW key \in Keys, NEW e \in 0 .. 1 PROVE CounterOwned(key, e)'
  <2>. SUFFICES ASSUME write_progress'[key][e] # 0
                PROVE  \E p \in Ranks : Uses(p, key, e)' /\ write_progress'[key][e] <= NumSubchunks(p)'
    BY DEF CounterOwned
  <2>1. Moves(key, e)
    BY <1>1 DEF Clears
  <2>2. CASE Advances(key, e)
    BY <2>2 DEF Advances
  <2>3. CASE write_progress'[key][e] = write_progress[key][e]
    <3>1. PICK p \in Ranks : Uses(p, key, e) /\ write_progress[key][e] <= NumSubchunks(p)
      BY <2>3 DEF Counters, CounterOwned
    <3>2. CASE ResetEpochKeys(p)
      <4>1. write_progress'[key][e] = 0
        <5>1. write_progress'[key] = [write_progress[key] EXCEPT ![Epoch(p)] = 0]
          BY <3>1, <3>2 DEF ResetEpochKeys, Uses
        <5>2. write_progress[key] \in [0 .. 1 -> 0 .. MaxSubchunks]
          BY DEF Counters, CounterTypes
        <5>. QED BY <3>1, <5>1, <5>2 DEF Uses
      <4>. QED BY <4>1
    <3>3. CASE ~ ResetEpochKeys(p)
      <4>1. Uses(p, key, e)' /\ NumSubchunks(p)' = NumSubchunks(p)
        BY <3>1, <3>3, OwnersStay
      <4>. QED BY <2>3, <3>1, <4>1
    <3>. QED BY <3>2, <3>3
  <2>. QED BY <2>1, <2>2, <2>3 DEF Moves
<1>. QED BY <1>1, <1>2 DEF Counters

(* The executors keep to their rounds, lose no slice, and advance only     *)
(* counters of their own collective.                                       *)
LEMMA ExecutorInvariant == Spec => []IInv
<1>1. Init => IInv
  BY RoundsInit, SlicesInit, CountersInit DEF IInv
<1>2. IInv /\ [Next]_vars => IInv'
  BY RoundsStep, SlicesStep, CountersStep DEF IInv
<1>. QED BY <1>1, <1>2, PTL DEF Spec

(* No counter of ChunkState passes the number of slices, the reader counts *)
(* are compiled ones, a rank that runs has submitted and completed at most *)
(* its slices, and no lane exceeds its ring.                               *)
THEOREM TypeCorrect == Spec => []TypeOK
<1>1. IInv => TypeOK
  <2>. SUFFICES ASSUME IInv PROVE TypeOK
    OBVIOUS
  <2>1. Rounds /\ Slices /\ Counters /\ RankTypes /\ CounterTypes /\ NumCollectives \in Nat
    BY ProgramFacts DEF IInv, Rounds, Counters
  <2>2. ASSUME NEW r \in Ranks
        PROVE  /\ work_seq[r] \in 0 .. NumCollectives
               /\ pc[r] = "run" => /\ next_subchunk[r] \in [Nodes(r) -> 0 .. NumSubchunks(r)]
                                   /\ completed[r] \in [Nodes(r) -> 0 .. NumSubchunks(r)]
               /\ released[r] <= rung[r]
               /\ \A l \in Lanes : Len(lanes[r][l]) <= LaneDepth
    <3>1. work_seq[r] \in 0 .. NumCollectives /\ released[r] <= rung[r]
      BY <2>1 DEF Rounds, RankTypes, RankRound, RankUser
    <3>2. pc[r] = "run" => /\ next_subchunk[r] \in [Nodes(r) -> 0 .. NumSubchunks(r)]
                           /\ completed[r] \in [Nodes(r) -> 0 .. NumSubchunks(r)]
      BY <2>1, InFlight DEF Slices
    <3>3. \A l \in Lanes : Len(lanes[r][l]) <= LaneDepth
      BY <2>1 DEF Slices, RankSlices, LanesInOrder
    <3>. QED BY <3>1, <3>2, <3>3
  <2>. QED BY <2>1, <2>2 DEF TypeOK, CounterTypes, RankTypes, ExecutorStates
<1>. QED BY <1>1, ExecutorInvariant, PTL

(* While an executor runs its graph, nobody moves a counter of its epoch   *)
(* backwards: a slow rank's resetEpochKeys of an earlier collective cannot *)
(* hit a collective that uses the same counters, and the doorbell's store  *)
(* of the inputs' progress cannot undo what has been published.            *)
THEOREM NoReset == Spec => NoResetUnderway
<1>1. ASSUME IInv, [Next]_vars
      PROVE  \A r \in Ranks : pc[r] = "run" =>
               \A key \in Keys : /\ write_progress'[key][Epoch(r)] >= write_progress[key][Epoch(r)]
                                 /\ consume_progress'[key][Epoch(r)] >= consume_progress[key][Epoch(r)]
  <2>. SUFFICES ASSUME NEW r \in Ranks, pc[r] = "run", NEW key \in Keys
                PROVE  /\ write_progress'[key][Epoch(r)] >= write_progress[key][Epoch(r)]
                       /\ consume_progress'[key][Epoch(r)] >= consume_progress[key][Epoch(r)]
    OBVIOUS
  <2>0. Rounds /\ Slices /\ Counters /\ CounterTypes
    BY <1>1 DEF IInv, Counters
  <2>1. Epoch(r) \in 0 .. 1
    BY <2>0, WorkFacts
  <2>2. ~ Clears(key, Epoch(r))
    <3>. SUFFICES ASSUME NEW q \in Ranks, ResetEpochKeys(q), Epoch(r) = Epoch(q) PROVE FALSE
      BY DEF Clears
    <3>1. pc[q] = "reset"
      BY DEF ResetEpochKeys
    <3>. QED BY <2>0, <3>1, SameCollective
  <2>3. Moves(key, Epoch(r))
    BY <1>1, <2>0, <2>1, <2>2, CounterMoves
  <2>4. write_progress[key] \in [0 .. 1 -> 0 .. MaxSubchunks] /\ MaxSubchunks \in Nat
    BY <2>0, GraphAssumption DEF CounterTypes
  <2>5. write_progress[key][Epoch(r)] \in Int
    BY <2>1, <2>4
  <2>. QED BY <2>3, <2>5 DEF Moves, Advances
<1>. QED BY <1>1, ExecutorInvariant, PTL DEF Spec, NoResetUnderway

=============================================================================
