----------------------------- MODULE AscendPlan -----------------------------
(***************************************************************************)
(* pcie-ccl-ascend: how a collective call becomes submissions, and how the *)
(* Ascend compiler turns an IR program into a rank's graph and binds it to *)
(* the staging memory.  The compiler shares its versions and readers with  *)
(* the CUDA one (PlanCompiler), and its layout; it has no host rings, no   *)
(* host reduction and no copies between devices, and it packs the host     *)
(* chunks of a plan densely, so that several communicators fit into one    *)
(* staging buffer.                                                         *)
(***************************************************************************)
EXTENDS PlanCompiler

-----------------------------------------------------------------------------
(* Staging memory *)

(* global_host_progress_keys: the host chunks of all ranks' instructions *)
GlobalHostChunks(plan, numa) ==
  {Chunk(loc) : loc \in {l \in Locations(plan) : Space(l) = "HOST" /\ Owner(l) = numa}}

(* BuildDenseHostChunkMap: logical chunk to physical slot, in order.  It   *)
(* is the same on every rank.                                              *)
DenseHostChunkMap(plan, numa) ==
  [c \in GlobalHostChunks(plan, numa) |-> Cardinality({d \in GlobalHostChunks(plan, numa) : d < c})]

(* required[numa] in makeRuntimeBinding and in runGraph *)
RequiredStaging(plan, opts, numa) ==
  Cardinality(GlobalHostChunks(plan, numa)) * ChunkSize(plan, opts)

(* graph.internal_bytes: up to the highest internal chunk of the rank,     *)
(* those of staged outputs included *)
InternalElements(plan, opts, rank) ==
  LET locs   == {Visible(StagedOutputs(plan, opts), loc) : loc \in Locations(plan)}
      chunks == {Chunk(loc) : loc \in {l \in locs : Space(l) = "INTERNAL" /\ Owner(l) = rank}}
  IN  IF chunks = {} THEN 0 ELSE (Max(chunks) + 1) * ChunkSize(plan, opts)

-----------------------------------------------------------------------------
(* The graph *)

(* programUsesCrossRankDeviceSource: compileGraph throws for such a plan.  *)
ProgramUsesCrossRankDeviceSource(plan) == UsesPeerD2D(plan)

(* No host chunk is a ring. *)
AscendTables(plan, opts) == [Tables(plan, opts, StagedOutputs(plan, opts)) EXCEPT !.rings = {}]

(* Every instruction runs on its own rank. *)
AscendWalk(plan, opts, rank) ==
  Walk(plan, [opts EXCEPT !.push = FALSE], AscendTables(plan, opts), rank)

(* compileGraph *)
AscendCompile(plan, opts, rank) ==
  Finish(AscendTables(plan, opts), opts, rank,
         {"OUTPUT"} \X {rank} \X (0 .. OutputChunkCount(plan) - 1),
         AscendWalk(plan, opts, rank))

-----------------------------------------------------------------------------
(* Calls *)

(* pcclAllReduce out of place, of a count the ranks divide, is submitted   *)
(* as a reduce-scatter into the rank's chunk of the receive buffer and an  *)
(* in-place all-gather of those chunks.                                    *)
CanSubmitAllReduceAsRsAg(nranks, in_place, count) ==
  nranks > 1 /\ count # 0 /\ ~in_place /\ count % nranks = 0

(* Call and segment counts of the submissions of a collective. *)
Submissions(collective, nranks, in_place, count) ==
  LET one(name, elements, send, recv, same) ==
        [collective |-> name, count |-> elements, d2h_segments |-> send, h2d_segments |-> recv,
         in_place |-> same]
  IN  CASE collective = "allreduce" ->
             IF CanSubmitAllReduceAsRsAg(nranks, in_place, count)
             THEN <<one("reducescatter", count \div nranks, nranks, 1, FALSE),
                    one("allgather", count \div nranks, 1, nranks, TRUE)>>
             ELSE <<one("allreduce", count, 1, 1, in_place)>>
        [] collective = "allgather"     -> <<one("allgather", count, 1, nranks, in_place)>>
        [] collective = "reducescatter" -> <<one("reducescatter", count, nranks, 1, in_place)>>
        [] collective = "alltoall"      -> <<one("alltoall", count \div nranks, nranks, nranks, in_place)>>
        [] collective = "broadcast"     -> <<one("broadcast", count, 1, 1, in_place)>>

(* submitCollective: the options the plan is compiled with *)
PlanOptions(submission, plan) ==
  [in_place |-> submission.in_place, count |-> submission.count,
   d2h_segments |-> submission.d2h_segments, h2d_segments |-> submission.h2d_segments,
   alias |-> IF submission.collective = "allgather" THEN "AllGather" ELSE "SameBase",
   staging |-> ConservativeStaging(submission.collective, plan),
   push |-> FALSE, slots |-> 1]

=============================================================================
