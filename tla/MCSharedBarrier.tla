-------------------------- MODULE MCSharedBarrier --------------------------
(* Instances of SharedBarrier for TLC. *)
EXTENDS SharedBarrier, TLC

CONSTANTS r0, r1, r2, r3

FourRanks == {r0, r1, r2, r3}

=============================================================================
