----------------------------- MODULE SplitPlan -----------------------------
(***************************************************************************)
(* How the orchestrator divides a message between the fast network and the *)
(* PCIe path (Planner), and how the measurements of a collective move the  *)
(* share of the PCIe path (AdaptiveController with the algorithms of       *)
(* AlgoFactory).  Shares are in thousandths, times in an arbitrary unit.   *)
(***************************************************************************)
EXTENDS Integers

CONSTANTS
  MinMsgSize,    \* AMPCCL_MIN_MSG_SIZE
  MinChunkSize,  \* AMPCCL_MIN_CHUNK_SIZE
  SizeBits,      \* stands for 64: sizes are unsigned and wrap around
  SizeBucketBase,      \* AMPCCL_SIZE_BUCKET_BASE, with one bucket per octave
  WarmupSteps,         \* AMPCCL_SPLIT_RATIO_WARMUP_STEPS
  MinBandwidthSample,  \* kMinBandwidthSampleBytes
  MinPenalty           \* kMinPenaltyBytes

ASSUME PlanAssumption ==
  /\ MinMsgSize \in Nat
  /\ MinChunkSize \in Nat
  /\ SizeBits \in Nat \ {0}
  /\ {SizeBucketBase, WarmupSteps, MinBandwidthSample, MinPenalty} \subseteq Nat
  /\ 2^SizeBits \in Nat

SizeModulus == 2^SizeBits

Larger(a, b) == IF a > b THEN a ELSE b
Smaller(a, b) == IF a < b THEN a ELSE b
Clamp(x, low, high) == Larger(low, Smaller(high, x))

Align(bytes) == ((bytes + 127) \div 128) * 128

FastOnlyPlan(total) == [fast |-> total, pcie |-> 0, use_pcie |-> FALSE]

(* Both parts by the share alone, then the parts that are too small joined *)
(* to the other one.                                                       *)
ByShare(total, alpha) ==
  LET pcie == (total * Clamp(alpha, 0, 1000)) \div 1000
      fast == total - pcie
  IN CASE fast < MinChunkSize /\ total >= MinChunkSize -> [fast |-> 0, pcie |-> total, use_pcie |-> TRUE]
       [] fast >= MinChunkSize /\ pcie >= MinChunkSize -> [fast |-> fast, pcie |-> pcie, use_pcie |-> TRUE]
       [] OTHER -> FastOnlyPlan(total)

Aligned(plan, total) ==
  LET fast == Align(plan.fast)
      pcie == Align(plan.pcie)
  IN [plan EXCEPT !.fast = fast,
                  !.pcie = IF fast + pcie > total THEN (total - fast) % SizeModulus ELSE pcie]

(* Mutation: the parts are aligned and the excess is kept. *)
CreatePlan_KeepsExcess(total, alpha, use_pcie_hint) ==
  LET plan == ByShare(total, alpha)
  IN IF total < MinMsgSize \/ ~use_pcie_hint THEN FastOnlyPlan(total)
     ELSE [plan EXCEPT !.fast = Align(plan.fast), !.pcie = Align(plan.pcie)]

CreatePlan(total, alpha, use_pcie_hint) ==
  IF total < MinMsgSize \/ ~use_pcie_hint THEN FastOnlyPlan(total)
  ELSE Aligned(ByShare(total, alpha), total)

-----------------------------------------------------------------------------
(* Messages of one bucket share what is learned about them. *)
BucketBytes(bytes) ==
  LET bucket(k) == SizeBucketBase * 2^k
  IN IF SizeBucketBase = 0 \/ bytes < SizeBucketBase THEN 0
     ELSE bucket(CHOOSE k \in 0 .. SizeBits - 1 : bucket(k) <= bytes /\ bytes < bucket(k + 1))

ParamBytes(op) == IF op.bucket # 0 THEN op.bucket ELSE op.bytes

(* ParamValue.  What Lookup returns for a key that nothing was stored for. *)
Unknown == [cached |-> FALSE, alpha |-> 500, use_pcie |-> TRUE]

(* AlgoFactory::Create with the initial share of the environment *)
NewAlgo(kind, alpha, samples) == [kind |-> kind, alpha |-> alpha, samples |-> samples, bp_hat |-> 0]

RatioMin == 50
RatioMax == 999

(* SuggestAlpha: the algorithm adopts the stored share, within its limits. *)
Suggest(algo, param) ==
  CASE ~param.cached \/ algo.kind = "static" -> algo
    [] param.cached /\ algo.kind = "inverse" -> [algo EXCEPT !.alpha = Clamp(param.alpha, 1, 390)]
    [] param.cached /\ algo.kind = "ratio" ->
         [algo EXCEPT !.alpha = Clamp(IF param.alpha > 0 THEN param.alpha ELSE @, RatioMin, RatioMax)]

(* ExecStat: what a finished collective reports.  A time of 0 means that   *)
(* nothing was measured.                                                   *)
Bandwidth(bytes, time) == IF time > 0 THEN bytes \div time ELSE 0

Failed(stat) == ~stat.fast_success \/ ~stat.pcie_success

(* InverseProportionAlgo: two samples are ignored, then the share follows  *)
(* the ratio of the two times outside of a dead band.                      *)
InverseProportion(algo, stat) ==
  LET steered ==
        IF stat.pcie_time = 0 \/ stat.fast_time = 0 THEN algo.alpha
        ELSE IF stat.fast_time * 100 <= 95 * stat.pcie_time THEN algo.alpha \div 2
        ELSE (algo.alpha * stat.fast_time * 96) \div (stat.pcie_time * 100)
      held == /\ 95 * stat.pcie_time < stat.fast_time * 100
              /\ stat.fast_time * 100 < 110 * stat.pcie_time
  IN CASE Failed(stat) -> [algo EXCEPT !.alpha = Larger(1, @ \div 2)]
       [] ~Failed(stat) /\ stat.pcie_bytes = 0 -> algo
       [] OTHER -> [algo EXCEPT !.alpha = IF algo.samples < 2 \/ held THEN @ ELSE Clamp(steered, 1, 390),
                                !.samples = Smaller(2, @) + 1]

(* SplitRatioControlAlgo: the share moves towards the one that lets both   *)
(* paths end together; after the warm-up a large part that is the slower   *)
(* one is cut back.                                                        *)
SplitRatioControl(algo, stat) ==
  LET counted == [algo EXCEPT !.samples = Smaller(WarmupSteps, @) + 1]
      Bp == Bandwidth(stat.pcie_bytes, stat.pcie_time)
      Bf == Bandwidth(stat.fast_bytes, stat.fast_time)
      bp_hat == CASE algo.bp_hat = 0 -> Bp
                  [] algo.bp_hat > 0 /\ stat.pcie_bytes >= MinBandwidthSample -> (7 * Bp + 3 * algo.bp_hat) \div 10
                  [] OTHER -> algo.bp_hat
      x_star == (1000 * bp_hat) \div (bp_hat + Bf)
      pcie_slower == algo.alpha * Bf * 100 > (1000 - algo.alpha) * bp_hat * 105
      cut_back == counted.samples > WarmupSteps /\ pcie_slower /\ stat.pcie_bytes >= MinPenalty
      moved == IF cut_back THEN (algo.alpha * 9) \div 10
               ELSE algo.alpha + (3 * (x_star - algo.alpha)) \div 10
  IN CASE Failed(stat) -> [counted EXCEPT !.alpha = Larger(RatioMin, @ \div 2)]
       [] ~Failed(stat) /\ (Bp = 0 \/ Bf = 0) -> counted
       [] OTHER -> [counted EXCEPT !.alpha = Clamp(moved, RatioMin, RatioMax), !.bp_hat = bp_hat]

(* AdaptiveController::Update: the algorithm moves its share, and a PCIe   *)
(* part that failed or has no bandwidth takes the path out of use.         *)
Update(algo, param, stat) ==
  LET moved == CASE algo.kind = "static" -> algo
                 [] algo.kind = "inverse" -> InverseProportion(algo, stat)
                 [] algo.kind = "ratio" -> SplitRatioControl(algo, stat)
      measured == stat.pcie_success /\ Bandwidth(stat.pcie_bytes, stat.pcie_time) > 0
  IN [algo  |-> moved,
      param |-> [cached |-> TRUE, alpha |-> moved.alpha,
                 use_pcie |-> IF stat.pcie_bytes > 0 THEN measured ELSE param.use_pcie]]

=============================================================================
