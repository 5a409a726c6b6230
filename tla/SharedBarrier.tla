--------------------------- MODULE SharedBarrier ---------------------------
(***************************************************************************)
(* SharedStateManager::barrier on one (communicator, slot): an arrival     *)
(* counter and a generation in shared memory, used round after round by    *)
(* the same ranks.  Every load, fetch_add and store of shared memory is a  *)
(* step of its own.                                                        *)
(***************************************************************************)
EXTENDS Naturals, FiniteSets

CONSTANTS
  Parties,       \* the ranks of the communicator
  MaxRounds,     \* bound: barrier calls of one rank
  MayTimeOut     \* whether a wait may exceed PCCL_BARRIER_TIMEOUT_MS

ASSUME BarrierAssumption ==
  /\ IsFiniteSet(Parties)
  /\ Parties # {}
  /\ MaxRounds \in Nat
  /\ MayTimeOut \in BOOLEAN

VARIABLES
  barrier_count,        \* arrivals of the current round
  barrier_generation,   \* rounds completed
  pc,                   \* where each rank stands in barrier()
  my_gen,               \* the generation it loaded on entry
  arrivals              \* history: fetch_adds each rank has made

vars == <<barrier_count, barrier_generation, pc, my_gen, arrivals>>

expected == Cardinality(Parties)

Types ==
  /\ barrier_count \in Nat
  /\ barrier_generation \in Nat
  /\ pc \in [Parties -> {"out", "loaded", "wait", "reset", "bump", "timed_out"}]
  /\ my_gen \in [Parties -> Nat]
  /\ arrivals \in [Parties -> Nat]

(* The counter never passes the value that the last to arrive compares it  *)
(* with.                                                                   *)
TypeOK == Types /\ barrier_count <= expected

Init ==
  /\ barrier_count = 0
  /\ barrier_generation = 0
  /\ pc = [p \in Parties |-> "out"]
  /\ my_gen = [p \in Parties |-> 0]
  /\ arrivals = [p \in Parties |-> 0]

LoadGeneration(p) ==
  /\ pc[p] = "out"
  /\ arrivals[p] < MaxRounds
  /\ my_gen' = [my_gen EXCEPT ![p] = barrier_generation]
  /\ pc' = [pc EXCEPT ![p] = "loaded"]
  /\ UNCHANGED <<barrier_count, barrier_generation, arrivals>>

(* Mutation: the last but one to arrive already closes the round. *)
Arrive_OneShort(p) ==
  /\ pc[p] = "loaded"
  /\ barrier_count' = barrier_count + 1
  /\ pc' = [pc EXCEPT ![p] = IF barrier_count + 2 = expected THEN "reset" ELSE "wait"]
  /\ arrivals' = [arrivals EXCEPT ![p] = @ + 1]
  /\ UNCHANGED <<barrier_generation, my_gen>>

(* fetch_add; the last to arrive closes the round *)
Arrive(p) ==
  /\ pc[p] = "loaded"
  /\ barrier_count' = barrier_count + 1
  /\ pc' = [pc EXCEPT ![p] = IF barrier_count + 1 = expected THEN "reset" ELSE "wait"]
  /\ arrivals' = [arrivals EXCEPT ![p] = @ + 1]
  /\ UNCHANGED <<barrier_generation, my_gen>>

ResetCount(p) ==
  /\ pc[p] = "reset"
  /\ barrier_count' = 0
  /\ pc' = [pc EXCEPT ![p] = "bump"]
  /\ UNCHANGED <<barrier_generation, my_gen, arrivals>>

(* Mutation: the generation the round started with is stored. *)
BumpGeneration_NotMoved(p) ==
  /\ pc[p] = "bump"
  /\ barrier_generation' = my_gen[p]
  /\ pc' = [pc EXCEPT ![p] = "out"]
  /\ UNCHANGED <<barrier_count, my_gen, arrivals>>

(* The store releases the waiting ranks; the last one returns true. *)
BumpGeneration(p) ==
  /\ pc[p] = "bump"
  /\ barrier_generation' = my_gen[p] + 1
  /\ pc' = [pc EXCEPT ![p] = "out"]
  /\ UNCHANGED <<barrier_count, my_gen, arrivals>>

(* Mutation: a waiting rank compares with < where the code has <=. *)
SeeRelease_TooEarly(p) ==
  /\ pc[p] = "wait"
  /\ ~(barrier_generation < my_gen[p])
  /\ pc' = [pc EXCEPT ![p] = "out"]
  /\ UNCHANGED <<barrier_count, barrier_generation, my_gen, arrivals>>

(* The spin ends and barrier returns true. *)
SeeRelease(p) ==
  /\ pc[p] = "wait"
  /\ ~(barrier_generation <= my_gen[p])
  /\ pc' = [pc EXCEPT ![p] = "out"]
  /\ UNCHANGED <<barrier_count, barrier_generation, my_gen, arrivals>>

(* barrier returns false, possibly although the generation has just moved; *)
(* the arrival stays counted.  The executor records pcclTimeout and never  *)
(* calls the barrier again.                                                *)
TimeOut(p) ==
  /\ MayTimeOut
  /\ pc[p] = "wait"
  /\ pc' = [pc EXCEPT ![p] = "timed_out"]
  /\ UNCHANGED <<barrier_count, barrier_generation, my_gen, arrivals>>

Step(p) ==
  \/ LoadGeneration(p)
  \/ Arrive(p)
  \/ ResetCount(p)
  \/ BumpGeneration(p)
  \/ SeeRelease(p)

Next == \E p \in Parties : Step(p) \/ TimeOut(p)

Spec == Init /\ [][Next]_vars

(* Every rank keeps running collectives; timeouts are not forced. *)
FairSpec == Spec /\ \A p \in Parties : WF_vars(Step(p))

-----------------------------------------------------------------------------
(* Properties *)

(* A rank that is back from its k-th barrier proves that every rank has    *)
(* made its k-th arrival, timed-out ranks included: nobody is let through  *)
(* by counts left over from an earlier round.                              *)
NobodyEarly ==
  \A p \in Parties : pc[p] = "out" =>
    \A q \in Parties : arrivals[q] >= arrivals[p]

(* The implementation's rounds are the promised ones. *)
Promise == INSTANCE BarrierPromise WITH
  entered <- arrivals,
  left    <- [p \in Parties |->
                IF pc[p] \in {"out", "loaded"} THEN arrivals[p] ELSE arrivals[p] - 1]

(* barrier() implements BarrierPromise, round by round, timeouts included. *)
ImplementsPromise == Promise!Spec

(* The barrier never wedges by itself: unless some rank times out,         *)
(* everybody completes all its rounds, however arrivals and releases of    *)
(* consecutive rounds overlap.                                             *)
EveryRoundCompletes ==
  <>(\/ \E p \in Parties : pc[p] = "timed_out"
     \/ \A p \in Parties : pc[p] = "out" /\ arrivals[p] = MaxRounds)

=============================================================================
