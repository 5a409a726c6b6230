------------------------ MODULE SharedBarrierProofs ------------------------
(***************************************************************************)
(* The generation barrier keeps its promise for any finite set of ranks    *)
(* and any number of rounds, timeouts included.                            *)
(***************************************************************************)
EXTENDS SharedBarrier, FiniteSetTheorems, TLAPS

(* The ranks that have arrived in the round that is being collected. *)
Arrived == {p \in Parties : arrivals[p] = barrier_generation + 1}

Closing(p) == pc[p] \in {"reset", "bump"}

(* Nobody is more than one round away from the generation; who is outside  *)
(* has not arrived in the current round; who waits remembers the           *)
(* generation before its arrival.                                          *)
RoundsAligned ==
  \A p \in Parties :
    /\ arrivals[p] \in {barrier_generation, barrier_generation + 1}
    /\ pc[p] \in {"out", "loaded"} => arrivals[p] = barrier_generation
    /\ pc[p] = "loaded" => my_gen[p] = barrier_generation
    /\ pc[p] \in {"wait", "reset", "bump", "timed_out"} => arrivals[p] = my_gen[p] + 1

(* Whoever closes the round does so with everybody arrived, and alone. *)
ClosingAlone ==
  \A p \in Parties : Closing(p) =>
    /\ Arrived = Parties
    /\ \A q \in Parties : Closing(q) => q = p

(* The counter is the number of arrivals, until it is cleared. *)
CountIsArrived ==
  /\ (\A p \in Parties : pc[p] # "bump") => barrier_count = Cardinality(Arrived)
  /\ \A p \in Parties : pc[p] = "bump" => barrier_count = 0

(* A full round is being closed: some rank is between its last arrival and *)
(* the store of the generation.                                            *)
FullIsClosing == Arrived = Parties => \E p \in Parties : Closing(p)

BarrierInv ==
  /\ Types
  /\ RoundsAligned
  /\ ClosingAlone
  /\ CountIsArrived
  /\ FullIsClosing

(* A set of ranks is finite, and all of Parties when it has as many        *)
(* members: barrier()'s arrived == expected.                               *)
LEMMA RankSets ==
  ASSUME NEW S, S \subseteq Parties
  PROVE  /\ IsFiniteSet(S)
         /\ Cardinality(S) \in Nat
         /\ expected \in Nat
         /\ Cardinality(S) <= expected
         /\ Cardinality(S) = expected <=> S = Parties
BY BarrierAssumption, FS_Subset, FS_CardinalityType DEF expected

(* The invariant holds before the first barrier call. *)
LEMMA BarrierInit == Init => BarrierInv
<1>. SUFFICES ASSUME Init PROVE BarrierInv
  OBVIOUS
<1>1. Types /\ RoundsAligned /\ ClosingAlone
  BY DEF Init, Types, RoundsAligned, ClosingAlone, Closing
<1>2. Arrived = {}
  BY DEF Init, Arrived
<1>3. CountIsArrived
  BY <1>2, FS_EmptySet DEF Init, CountIsArrived
<1>4. FullIsClosing
  BY <1>2, BarrierAssumption DEF FullIsClosing
<1>. QED BY <1>1, <1>3, <1>4 DEF BarrierInv

(* Every load, fetch_add and store of barrier() preserves it. *)
LEMMA BarrierStep == BarrierInv /\ [Next]_vars => BarrierInv'
<1>. SUFFICES ASSUME BarrierInv, [Next]_vars PROVE BarrierInv'
  OBVIOUS
<1>0. Types /\ RoundsAligned /\ ClosingAlone /\ CountIsArrived /\ FullIsClosing
  BY DEF BarrierInv
<1>a. Arrived \subseteq Parties
  BY DEF Arrived
<1>b. ASSUME NEW p \in Parties, Closing(p)
      PROVE  /\ my_gen[p] = barrier_generation
             /\ \A q \in Parties : arrivals[q] = barrier_generation + 1
             /\ \A q \in Parties : q # p => pc[q] \in {"wait", "timed_out"}
  <2>1. \A q \in Parties : arrivals[q] = barrier_generation + 1
    BY <1>0, <1>b DEF ClosingAlone, Arrived
  <2>2. my_gen[p] = barrier_generation
    BY <1>0, <1>b, <2>1 DEF RoundsAligned, Closing, Types
  <2>3. ASSUME NEW q \in Parties, q # p PROVE pc[q] \in {"wait", "timed_out"}
    <3>1. ~Closing(q)
      BY <1>0, <1>b, <2>3 DEF ClosingAlone
    <3>2. pc[q] \notin {"out", "loaded"}
      BY <1>0, <2>1 DEF RoundsAligned, Types
    <3>. QED BY <1>0, <3>1, <3>2 DEF Closing, Types
  <2>. QED BY <2>1, <2>2, <2>3
<1>1. ASSUME NEW p \in Parties, LoadGeneration(p) PROVE BarrierInv'
  <2>1. Arrived' = Arrived
    BY <1>1 DEF LoadGeneration, Arrived
  <2>2. \A q \in Parties : Closing(q)' = Closing(q) /\ (pc'[q] = "bump" <=> pc[q] = "bump")
    BY <1>0, <1>1 DEF LoadGeneration, Closing, Types
  <2>3. Types' /\ RoundsAligned'
    BY <1>0, <1>1 DEF LoadGeneration, Types, RoundsAligned
  <2>4. ClosingAlone' /\ FullIsClosing'
    BY <1>0, <2>1, <2>2 DEF ClosingAlone, FullIsClosing
  <2>5. CountIsArrived'
    BY <1>0, <1>1, <2>1, <2>2 DEF CountIsArrived, LoadGeneration
  <2>. QED BY <2>3, <2>4, <2>5 DEF BarrierInv
<1>2. ASSUME NEW p \in Parties, Arrive(p) PROVE BarrierInv'
  <2>1. p \notin Arrived /\ arrivals[p] = barrier_generation /\ my_gen[p] = barrier_generation
    BY <1>0, <1>2 DEF Arrive, Arrived, RoundsAligned, Types
  <2>2. Arrived' = Arrived \cup {p}
    BY <1>0, <1>2, <2>1 DEF Arrive, Arrived, Types
  <2>3. Cardinality(Arrived') = Cardinality(Arrived) + 1
    BY <1>a, <2>1, <2>2, RankSets, FS_AddElement
  <2>4. \A q \in Parties : ~Closing(q) /\ pc[q] # "bump"
    BY <1>0, <2>1 DEF ClosingAlone, Closing
  <2>5. barrier_count = Cardinality(Arrived) /\ barrier_count' = barrier_count + 1
    BY <1>0, <1>2, <2>4 DEF CountIsArrived, Arrive
  <2>6. Types' /\ RoundsAligned'
    BY <1>0, <1>2, <2>1 DEF Arrive, Types, RoundsAligned
  <2>7. \A q \in Parties : q # p => pc'[q] = pc[q]
    BY <1>0, <1>2 DEF Arrive, Types
  <2>8. pc'[p] = IF barrier_count + 1 = expected THEN "reset" ELSE "wait"
    BY <1>0, <1>2 DEF Arrive, Types
  <2>9. CountIsArrived'
    BY <2>3, <2>4, <2>5, <2>7, <2>8 DEF CountIsArrived
  <2>10. Arrived' \subseteq Parties
    BY <1>a, <2>2
  <2>11. pc'[p] = "reset" <=> Arrived' = Parties
    BY <2>3, <2>5, <2>8, <2>10, RankSets
  <2>12. \A q \in Parties : Closing(q)' <=> (q = p /\ pc'[p] = "reset")
    BY <2>4, <2>7, <2>8 DEF Closing
  <2>13. ClosingAlone' /\ FullIsClosing'
    BY <2>11, <2>12 DEF ClosingAlone, FullIsClosing
  <2>. QED BY <2>6, <2>9, <2>13 DEF BarrierInv
<1>3. ASSUME NEW p \in Parties, ResetCount(p) PROVE BarrierInv'
  <2>1. Closing(p)
    BY <1>3 DEF ResetCount, Closing
  <2>2. Arrived' = Arrived
    BY <1>3 DEF ResetCount, Arrived
  <2>3. pc'[p] = "bump" /\ \A q \in Parties : q # p => pc'[q] = pc[q]
    BY <1>0, <1>3 DEF ResetCount, Types
  <2>4. \A q \in Parties : Closing(q)' = Closing(q)
    BY <2>1, <2>3 DEF Closing
  <2>5. Types' /\ RoundsAligned'
    BY <1>0, <1>3 DEF ResetCount, Types, RoundsAligned
  <2>6. ClosingAlone' /\ FullIsClosing'
    BY <1>0, <2>2, <2>4 DEF ClosingAlone, FullIsClosing
  <2>7. CountIsArrived'
    BY <1>3, <2>3 DEF CountIsArrived, ResetCount
  <2>. QED BY <2>5, <2>6, <2>7 DEF BarrierInv
<1>4. ASSUME NEW p \in Parties, BumpGeneration(p) PROVE BarrierInv'
  <2>1. Closing(p) /\ pc[p] = "bump"
    BY <1>4 DEF BumpGeneration, Closing
  <2>2. barrier_generation' = barrier_generation + 1 /\ arrivals' = arrivals
    BY <1>b, <1>4, <2>1 DEF BumpGeneration
  <2>3. \A q \in Parties : arrivals'[q] = barrier_generation'
    BY <1>b, <2>1, <2>2
  <2>4. Arrived' = {}
    BY <1>0, <2>2, <2>3 DEF Arrived, Types
  <2>5. pc'[p] = "out" /\ \A q \in Parties : q # p => pc'[q] \in {"wait", "timed_out"}
    BY <1>0, <1>b, <1>4, <2>1 DEF BumpGeneration, Types
  <2>6. Types'
    BY <1>0, <1>4 DEF BumpGeneration, Types
  <2>7. RoundsAligned'
    BY <1>0, <1>b, <1>4, <2>1, <2>2, <2>3, <2>5 DEF BumpGeneration, RoundsAligned, Types
  <2>8. ClosingAlone' /\ FullIsClosing'
    BY <2>4, <2>5, BarrierAssumption DEF ClosingAlone, FullIsClosing, Closing
  <2>9. barrier_count' = 0 /\ \A q \in Parties : pc'[q] # "bump"
    BY <1>0, <1>4, <2>1, <2>5 DEF CountIsArrived, BumpGeneration
  <2>10. CountIsArrived'
    BY <2>4, <2>9, FS_EmptySet DEF CountIsArrived
  <2>. QED BY <2>6, <2>7, <2>8, <2>10 DEF BarrierInv
<1>5. ASSUME NEW p \in Parties, SeeRelease(p) \/ TimeOut(p) PROVE BarrierInv'
  <2>1. /\ UNCHANGED <<barrier_count, barrier_generation, my_gen, arrivals>>
        /\ pc[p] = "wait"
        /\ pc'[p] \in {"out", "timed_out"}
        /\ \A q \in Parties : q # p => pc'[q] = pc[q]
    BY <1>0, <1>5 DEF SeeRelease, TimeOut, Types
  <2>2. Arrived' = Arrived
    BY <2>1 DEF Arrived
  <2>3. \A q \in Parties : Closing(q)' = Closing(q) /\ (pc'[q] = "bump" <=> pc[q] = "bump")
    BY <2>1 DEF Closing
  <2>4. Types' /\ RoundsAligned'
    BY <1>0, <1>5 DEF SeeRelease, TimeOut, Types, RoundsAligned
  <2>5. ClosingAlone' /\ FullIsClosing'
    BY <1>0, <2>2, <2>3 DEF ClosingAlone, FullIsClosing
  <2>6. CountIsArrived'
    BY <1>0, <2>1, <2>2, <2>3 DEF CountIsArrived
  <2>. QED BY <2>4, <2>5, <2>6 DEF BarrierInv
<1>6. CASE UNCHANGED vars
  <2>1. Arrived' = Arrived /\ \A q \in Parties : Closing(q)' = Closing(q)
    BY <1>6 DEF vars, Arrived, Closing
  <2>2. Types' /\ RoundsAligned'
    BY <1>0, <1>6 DEF vars, Types, RoundsAligned
  <2>3. ClosingAlone' /\ FullIsClosing' /\ CountIsArrived'
    BY <1>0, <1>6, <2>1 DEF vars, ClosingAlone, FullIsClosing, CountIsArrived
  <2>. QED BY <2>2, <2>3 DEF BarrierInv
<1>. QED BY <1>1, <1>2, <1>3, <1>4, <1>5, <1>6 DEF Next, Step

(* BarrierInv holds throughout every execution of barrier(). *)
LEMMA BarrierInvariant == Spec => []BarrierInv
BY BarrierInit, BarrierStep, PTL DEF Spec

(* barrier()'s state has its types, and the counter never passes           *)
(* expected, for any ranks and any number of rounds.                       *)
THEOREM TypeCorrect == Spec => []TypeOK
<1>1. BarrierInv => TypeOK
  <2>. SUFFICES ASSUME BarrierInv PROVE barrier_count <= expected
    BY DEF BarrierInv, TypeOK
  <2>1. Arrived \subseteq Parties
    BY DEF Arrived
  <2>2. Cardinality(Arrived) <= expected /\ 0 <= expected
    BY <2>1, RankSets
  <2>3. barrier_count = Cardinality(Arrived) \/ barrier_count = 0
    BY DEF BarrierInv, CountIsArrived
  <2>. QED BY <2>2, <2>3
<1>. QED BY <1>1, BarrierInvariant, PTL

(* Nobody is let through barrier() before every rank has arrived in that   *)
(* round, whatever timeouts happened.                                      *)
THEOREM BarrierSafe == Spec => []NobodyEarly
<1>1. BarrierInv => NobodyEarly
  <2>. SUFFICES ASSUME BarrierInv, NEW p \in Parties, pc[p] = "out", NEW q \in Parties
                PROVE  arrivals[q] >= arrivals[p]
    BY DEF NobodyEarly
  <2>. QED BY DEF BarrierInv, RoundsAligned, Types
<1>. QED BY <1>1, BarrierInvariant, PTL

(* barrier() implements the promise its callers rely on: every step of its *)
(* loads and stores is entering a round, leaving a round everybody has     *)
(* entered, or invisible.                                                  *)
THEOREM RefinesPromise == Spec => ImplementsPromise
<1>. DEFINE left == [p \in Parties |->
                IF pc[p] \in {"out", "loaded"} THEN arrivals[p] ELSE arrivals[p] - 1]
<1>1. Init => Promise!Init
  BY DEF Init, Promise!Init
<1>2. ASSUME BarrierInv, [Next]_vars PROVE [Promise!Next]_(Promise!vars)
  <2>0. Types /\ RoundsAligned /\ ClosingAlone
    BY <1>2 DEF BarrierInv
  <2>1. ASSUME NEW p \in Parties, Arrive(p) PROVE Promise!Enter(p)
    <3>1. left'=left
      BY <2>0, <2>1 DEF Arrive, Types
    <3>2. arrivals[p] = left[p]
      BY <2>1 DEF Arrive
    <3>. QED BY <2>1, <3>1, <3>2 DEF Arrive, Promise!Enter
  <2>2. ASSUME NEW p \in Parties, BumpGeneration(p) \/ SeeRelease(p) PROVE Promise!Leave(p)
    <3>1. pc[p] \in {"wait", "bump"} /\ pc' = [pc EXCEPT ![p] = "out"] /\ arrivals' = arrivals
      BY <2>2 DEF BumpGeneration, SeeRelease
    <3>2. left[p] < arrivals[p]
      BY <2>0, <3>1 DEF Types
    <3>3. \A q \in Parties : arrivals[q] >= arrivals[p]
      <4>1. CASE pc[p] = "bump"
        BY <2>0, <4>1 DEF ClosingAlone, Closing, Arrived, Types
      <4>2. CASE SeeRelease(p)
        BY <2>0, <4>2 DEF SeeRelease, RoundsAligned, Types
      <4>. QED BY <2>2, <4>1, <4>2 DEF BumpGeneration
    <3>4. left' = [left EXCEPT ![p] = arrivals[p]]
      BY <2>0, <3>1 DEF Types
    <3>. QED BY <3>1, <3>2, <3>3, <3>4 DEF Promise!Leave
  <2>3. ASSUME NEW p \in Parties, LoadGeneration(p) \/ ResetCount(p) \/ TimeOut(p)
        PROVE  UNCHANGED <<arrivals, left>>
    BY <2>0, <2>3 DEF LoadGeneration, ResetCount, TimeOut, Types
  <2>4. CASE UNCHANGED vars
    BY <2>4 DEF vars, Promise!vars
  <2>. QED BY <1>2, <2>1, <2>2, <2>3, <2>4 DEF Next, Step, Promise!Next, Promise!vars
<1>. QED BY <1>1, <1>2, BarrierInvariant, PTL DEF Spec, ImplementsPromise, Promise!Spec

=============================================================================
