--------------------------- MODULE CreditChannel ---------------------------
(***************************************************************************)
(* What a ring-buffered chunk promises the plan: one writer produces the   *)
(* slices of a chunk in order, every reader takes every slice in order,    *)
(* and a slice is not started before the slice whose slot it reuses has    *)
(* been taken by all readers.  ChunkFlow, the shared-memory protocol, is   *)
(* shown to implement this specification.                                  *)
(***************************************************************************)
EXTENDS Naturals

CONSTANTS
  Readers,       \* the readers of the chunk
  Slots,         \* slices that fit in the ring
  NumSubchunks   \* slices per chunk

VARIABLES
  started,       \* slices whose write has begun
  available,     \* slices completely written
  taken          \* slices each reader has finished with

vars == <<started, available, taken>>

Init ==
  /\ started = 0
  /\ available = 0
  /\ taken = [r \in Readers |-> 0]

(* The writer holds a credit for every slice the slowest reader has taken, *)
(* plus one for every slot.                                                *)
Start ==
  /\ started < NumSubchunks
  /\ \A r \in Readers : started < taken[r] + Slots
  /\ started' = started + 1
  /\ UNCHANGED <<available, taken>>

Finish ==
  /\ available < started
  /\ available' = available + 1
  /\ UNCHANGED <<started, taken>>

Take(r) ==
  /\ taken[r] < available
  /\ taken' = [taken EXCEPT ![r] = @ + 1]
  /\ UNCHANGED <<started, available>>

Next ==
  \/ Start
  \/ Finish
  \/ \E r \in Readers : Take(r)

Spec == Init /\ [][Next]_vars

=============================================================================
