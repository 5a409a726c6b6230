--------------------------- MODULE BarrierPromise ---------------------------
(***************************************************************************)
(* What callers rely on when SharedStateManager::barrier returns true: all *)
(* parties have entered the same round.                                    *)
(***************************************************************************)
EXTENDS Naturals

CONSTANT Parties

VARIABLES
  entered,   \* rounds each party has entered
  left       \* rounds each party has left with success

vars == <<entered, left>>

Init ==
  /\ entered = [p \in Parties |-> 0]
  /\ left = [p \in Parties |-> 0]

Enter(p) ==
  /\ entered[p] = left[p]
  /\ entered' = [entered EXCEPT ![p] = @ + 1]
  /\ UNCHANGED left

Leave(p) ==
  /\ left[p] < entered[p]
  /\ \A q \in Parties : entered[q] >= entered[p]
  /\ left' = [left EXCEPT ![p] = entered[p]]
  /\ UNCHANGED entered

Next == \E p \in Parties : Enter(p) \/ Leave(p)

Spec == Init /\ [][Next]_vars

=============================================================================
