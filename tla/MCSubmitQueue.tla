--------------------------- MODULE MCSubmitQueue ---------------------------
(* Instances of SubmitQueue for TLC. *)
EXTENDS SubmitQueue, TLC

CONSTANTS u1, u2

TwoUsers == {u1, u2}

=============================================================================
