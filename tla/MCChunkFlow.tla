---------------------------- MODULE MCChunkFlow ----------------------------
(* An instance of ChunkFlow for TLC. *)
EXTENDS ChunkFlow

(* A staging ring between DMA lanes; host copies whose readers' ranks are  *)
(* all late.                                                               *)
RingAndLate ==
  {[writer_op |-> "dma", reader_op |-> [r \in Readers |-> "dma"], late |-> {}],
   [writer_op |-> "h2h", reader_op |-> [r \in Readers |-> "h2h"], late |-> Readers]}

=============================================================================
