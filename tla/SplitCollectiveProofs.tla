----------------------- MODULE SplitCollectiveProofs -----------------------
(***************************************************************************)
(* Proofs about SplitCollective and the plans of SplitPlan, for any        *)
(* programs of the host threads, any shares and any measured times: the    *)
(* plan, the input, and what SplitCompletionProofs needs of the scripts.   *)
(*                                                                         *)
(* The plan: what CreatePlan cuts off by a share and rounds up is never    *)
(* more than the message, and only PrepareCollectiveLaunch makes a plan.   *)
(*                                                                         *)
(* The input: every virtual collective queues the application's work, its  *)
(* token, the wait for the token and the PCIe part in this order.  Tickets *)
(* are drawn and their tokens queued under the lock of the context, so a   *)
(* later token, which lets an earlier wait through, comes behind the       *)
(* earlier collective's work as well.                                      *)
(***************************************************************************)
EXTENDS SplitCollective, FiniteSetTheorems, SequenceTheorems, TLAPS

-----------------------------------------------------------------------------
(* The planner *)

Plans  == [fast : Nat, pcie : Nat, use_pcie : BOOLEAN]

PerMille == 0 .. 1000
ShareOf(total, share) == (total * share) \div 1000

(* The part of a message that a share gives to the PCIe path is a part.    *)
LEMMA SharePart ==
  ASSUME NEW total \in Nat, NEW share \in PerMille
  PROVE  ShareOf(total, share) \in 0 .. total
<1>1. PICK rest \in Nat : share \in Nat /\ share + rest = 1000
  <2>1. 1000 - share \in Nat /\ share + (1000 - share) = 1000
    BY DEF PerMille
  <2>. QED BY <2>1 DEF PerMille
<1>2. PICK x \in Nat, z \in Nat : x = total * share /\ z = total * rest
  BY <1>1
<1>3. total * 1000 = x + z
  BY <1>1, <1>2
<1>4. x \div 1000 \in 0 .. total
  BY <1>2, <1>3
<1>. QED BY <1>2, <1>4 DEF ShareOf

(* Rounding up to the size both libraries accept *)
Rounded(x, a) ==
  /\ a \in Nat /\ a % 128 = 0
  /\ x <= a /\ a <= x + 127
  /\ \A y \in Nat : y % 128 = 0 /\ x <= y => a <= y

(* Align rounds up by no more than it must. *)
LEMMA AlignFacts ==
  ASSUME NEW x \in Nat
  PROVE  Rounded(x, Align(x))
BY DEF Align, Rounded

(* What CreatePlan divides before it aligns. *)
LEMMA ByShareFacts ==
  ASSUME NEW total \in Nat, NEW alpha \in Int
  PROVE  /\ ByShare(total, alpha) \in Plans
         /\ ByShare(total, alpha).fast + ByShare(total, alpha).pcie = total
         /\ ByShare(total, alpha).use_pcie =>
              \/ ByShare(total, alpha).fast = 0
              \/ ByShare(total, alpha).pcie >= MinChunkSize
<1>. DEFINE pcie == (total * Clamp(alpha, 0, 1000)) \div 1000
<1>1. pcie \in 0 .. total
  <2>1. PICK share \in PerMille : share = Clamp(alpha, 0, 1000)
    BY DEF Clamp, Larger, Smaller, PerMille
  <2>2. ShareOf(total, share) \in 0 .. total
    BY SharePart
  <2>. QED BY <2>1, <2>2 DEF ShareOf
<1>2. ByShare(total, alpha) \in
        {[fast |-> 0, pcie |-> total, use_pcie |-> TRUE],
         [fast |-> total, pcie |-> 0, use_pcie |-> FALSE]}
        \cup (IF pcie >= MinChunkSize THEN {[fast |-> total - pcie, pcie |-> pcie, use_pcie |-> TRUE]} ELSE {})
  BY DEF ByShare, FastOnlyPlan
<1>. HIDE DEF pcie
<1>3. CASE ByShare(total, alpha) = [fast |-> 0, pcie |-> total, use_pcie |-> TRUE]
  BY <1>3 DEF Plans
<1>4. CASE ByShare(total, alpha) = [fast |-> total, pcie |-> 0, use_pcie |-> FALSE]
  BY <1>4 DEF Plans
<1>5. CASE ByShare(total, alpha) = [fast |-> total - pcie, pcie |-> pcie, use_pcie |-> TRUE] /\ pcie >= MinChunkSize
  BY <1>1, <1>5 DEF Plans
<1>. QED BY <1>2, <1>3, <1>4, <1>5

(* The sizes that CreatePlan divides exactly: rounding the fast part up    *)
(* takes at most 127 bytes from the PCIe part, which must have them.       *)
Divisible(total) == MinChunkSize >= 127 \/ total % 128 = 0

(* Planner::CreatePlan splits a message into two parts that are the whole. *)
LEMMA PlanFacts ==
  ASSUME NEW total \in 0 .. SizeModulus - 256, NEW alpha \in Int, NEW hint \in BOOLEAN
  PROVE  /\ CreatePlan(total, alpha, hint) \in Plans
         /\ Divisible(total) /\ CreatePlan(total, alpha, hint).use_pcie =>
              /\ CreatePlan(total, alpha, hint).fast + CreatePlan(total, alpha, hint).pcie = total
              /\ CreatePlan(total, alpha, hint).fast % 128 = 0
<1>0. SizeModulus \in Nat /\ MinChunkSize \in Nat
  BY PlanAssumption DEF SizeModulus
<1>1. CASE total < MinMsgSize \/ ~hint
  <2>1. CreatePlan(total, alpha, hint) = [fast |-> total, pcie |-> 0, use_pcie |-> FALSE]
    BY <1>1 DEF CreatePlan, FastOnlyPlan
  <2>. QED BY <1>0, <2>1 DEF Plans
<1>2. CASE ~(total < MinMsgSize \/ ~hint)
  <2>. DEFINE p    == ByShare(total, alpha)
              fast == Align(p.fast)
              pcie == Align(p.pcie)
              rest == (total - fast) % SizeModulus
              q    == CreatePlan(total, alpha, hint)
  <2>1. q = [p EXCEPT !.fast = fast, !.pcie = IF fast + pcie > total THEN rest ELSE pcie]
    BY <1>2 DEF CreatePlan, Aligned
  <2>2. /\ p \in Plans /\ p.fast \in Nat /\ p.pcie \in Nat /\ p.fast + p.pcie = total
        /\ p.use_pcie => p.fast = 0 \/ p.pcie >= MinChunkSize
    BY <1>0, ByShareFacts DEF Plans
  <2>. HIDE DEF p
  <2>3. /\ fast \in Nat /\ fast % 128 = 0 /\ p.fast <= fast /\ fast <= p.fast + 127
        /\ \A y \in Nat : y % 128 = 0 /\ p.fast <= y => fast <= y
        /\ pcie \in Nat /\ p.pcie <= pcie
    <3>1. Rounded(p.fast, fast) /\ Rounded(p.pcie, pcie)
      BY <2>2, AlignFacts
    <3>. QED BY <3>1 DEF Rounded
  <2>. HIDE DEF fast, pcie
  <2>4. rest \in Nat
    BY <1>0, <2>3
  <2>5. q.fast = fast /\ q.pcie = (IF fast + pcie > total THEN rest ELSE pcie) /\ q.use_pcie = p.use_pcie /\ q \in Plans
    <3>. HIDE DEF q, rest
    <3>. QED BY <2>1, <2>2, <2>3, <2>4 DEF Plans
  <2>6. ASSUME Divisible(total), p.use_pcie
        PROVE  fast <= total
    <3>1. CASE p.fast = 0
      BY <1>0, <2>2, <2>3, <3>1
    <3>2. CASE total % 128 = 0
      BY <1>0, <2>2, <2>3, <3>2
    <3>3. CASE MinChunkSize >= 127 /\ p.pcie >= MinChunkSize
      BY <1>0, <2>2, <2>3, <3>3
    <3>. QED BY <2>2, <2>6, <3>1, <3>2, <3>3 DEF Divisible
  <2>7. ASSUME Divisible(total), p.use_pcie
        PROVE  q.fast + q.pcie = total /\ q.fast % 128 = 0
    <3>1. fast <= total
      BY <2>6, <2>7
    <3>2. rest = total - fast
      BY <1>0, <2>3, <3>1
    <3>. HIDE DEF q, rest
    <3>3. CASE fast + pcie > total
      BY <1>0, <2>3, <2>5, <3>1, <3>2, <3>3
    <3>4. CASE ~(fast + pcie > total)
      BY <1>0, <2>2, <2>3, <2>5, <3>4
    <3>. QED BY <3>3, <3>4
  <2>. QED BY <2>5, <2>7
<1>. QED BY <1>1, <1>2

-----------------------------------------------------------------------------
(* The controllers *)

AlgoKinds == {"static", "inverse", "ratio"}

(* Shares stay between 0 and 1 if the environment's initial ones are. *)
SharesGiven == \A p \in Programs : p.alpha \in 0 .. 1000
Shares      == {a \in Int : SharesGiven => a \in 0 .. 1000}

Algos   == [kind : AlgoKinds, alpha : Shares, samples : Nat, bp_hat : Nat]
Params  == [cached : BOOLEAN, alpha : Shares, use_pcie : BOOLEAN]
Stats   == [fast_time : Nat, pcie_time : Nat, fast_bytes : Nat, pcie_bytes : Nat,
            fast_success : BOOLEAN, pcie_success : BOOLEAN]

(* The limits of the two algorithms keep a share in its range. *)
LEMMA ClampedShare ==
  ASSUME NEW x \in Int
  PROVE  Clamp(x, 1, 390) \in Shares /\ Clamp(x, 50, 999) \in Shares
<1>1. Clamp(x, 1, 390) \in 1 .. 390
  BY DEF Clamp, Larger, Smaller
<1>2. Clamp(x, 50, 999) \in 50 .. 999
  BY DEF Clamp, Larger, Smaller
<1>. QED BY <1>1, <1>2 DEF Shares

(* Halving a share, down to a positive limit (after a failure) *)
LEMMA HalvedShare ==
  ASSUME NEW x \in Shares, NEW low \in 0 .. 1000
  PROVE  Larger(low, x \div 2) \in Shares
<1>1. x \in Int /\ x \div 2 \in Int
  BY DEF Shares
<1>2. x \in 0 .. 1000 => Larger(low, x \div 2) \in 0 .. 1000
  BY DEF Larger
<1>3. Larger(low, x \div 2) \in Int
  BY <1>1 DEF Larger
<1>. QED BY <1>2, <1>3 DEF Shares

(* SuggestAlpha stays with a legal algorithm. *)
LEMMA SuggestFacts ==
  ASSUME NEW a \in Algos, NEW v \in Params
  PROVE  Suggest(a, v) \in Algos
<1>1. a.kind \in AlgoKinds /\ a.alpha \in Int /\ v.alpha \in Int /\ v.cached \in BOOLEAN
  BY DEF Algos, Params, Shares
<1>2. CASE ~v.cached \/ a.kind = "static"
  BY <1>2 DEF Suggest
<1>3. CASE v.cached /\ a.kind = "inverse"
  <2>1. Clamp(v.alpha, 1, 390) \in Shares
    BY <1>1, ClampedShare
  <2>2. Suggest(a, v) = [a EXCEPT !.alpha = Clamp(v.alpha, 1, 390)]
    BY <1>3 DEF Suggest
  <2>. QED BY <2>1, <2>2 DEF Algos
<1>4. CASE v.cached /\ a.kind = "ratio"
  <2>. DEFINE x == IF v.alpha > 0 THEN v.alpha ELSE a.alpha
  <2>0. x \in Int
    BY <1>1
  <2>. HIDE DEF x
  <2>1. Clamp(x, 50, 999) \in Shares
    BY <2>0, ClampedShare
  <2>2. Suggest(a, v) = [a EXCEPT !.alpha = Clamp(x, 50, 999)]
    BY <1>4 DEF Suggest, RatioMin, RatioMax, x
  <2>. QED BY <2>1, <2>2 DEF Algos
<1>. QED BY <1>1, <1>2, <1>3, <1>4 DEF AlgoKinds

(* A bandwidth is a number, and 0 when no time was measured (StatBandwidth *)
(* of the controllers).                                                    *)
LEMMA BandwidthFacts ==
  ASSUME NEW bytes \in Nat, NEW time \in Nat
  PROVE  Bandwidth(bytes, time) \in Nat
<1>1. CASE time > 0
  <2>1. bytes \div time \in Nat
    BY <1>1
  <2>. QED BY <1>1, <2>1 DEF Bandwidth
<1>2. CASE ~(time > 0)
  BY <1>2 DEF Bandwidth
<1>. QED BY <1>1, <1>2

(* InverseProportionAlgo::Update keeps its share within its limits. *)
LEMMA InverseFacts ==
  ASSUME NEW a \in Algos, NEW stat \in Stats
  PROVE  InverseProportion(a, stat) \in Algos
<1>. DEFINE steered ==
        IF stat.pcie_time = 0 \/ stat.fast_time = 0 THEN a.alpha
        ELSE IF stat.fast_time * 100 <= 95 * stat.pcie_time THEN a.alpha \div 2
        ELSE (a.alpha * stat.fast_time * 96) \div (stat.pcie_time * 100)
            held == /\ 95 * stat.pcie_time < stat.fast_time * 100
                    /\ stat.fast_time * 100 < 110 * stat.pcie_time
            next_samples == Smaller(2, a.samples) + 1
            next_alpha == IF a.samples < 2 \/ held THEN a.alpha ELSE Clamp(steered, 1, 390)
<1>1. a.alpha \in Shares /\ a.alpha \in Int /\ a.samples \in Nat /\ stat.pcie_time \in Nat /\ stat.fast_time \in Nat
  BY DEF Algos, Stats, Shares
<1>2. InverseProportion(a, stat) =
        CASE Failed(stat) -> [a EXCEPT !.alpha = Larger(1, a.alpha \div 2)]
          [] ~Failed(stat) /\ stat.pcie_bytes = 0 -> a
          [] OTHER -> [a EXCEPT !.alpha = next_alpha, !.samples = next_samples]
  BY DEF InverseProportion
<1>3. steered \in Int
  <2>1. CASE stat.pcie_time = 0 \/ stat.fast_time = 0
    BY <1>1, <2>1
  <2>2. CASE ~(stat.pcie_time = 0 \/ stat.fast_time = 0)
    <3>. DEFINE n == a.alpha * stat.fast_time * 96
                d == stat.pcie_time * 100
    <3>1. n \in Int /\ d \in Nat \ {0}
      BY <1>1, <2>2
    <3>. HIDE DEF n, d
    <3>2. n \div d \in Int
      BY <3>1
    <3>3. steered \in {a.alpha \div 2, n \div d}
      BY <2>2 DEF n, d
    <3>4. a.alpha \div 2 \in Int
      BY <1>1
    <3>. HIDE DEF steered
    <3>. QED BY <3>2, <3>3, <3>4
  <2>. QED BY <2>1, <2>2
<1>. HIDE DEF steered
<1>4. next_alpha \in Shares
  <2>1. Clamp(steered, 1, 390) \in Shares
    BY <1>3, ClampedShare
  <2>. QED BY <1>1, <2>1
<1>5. next_samples \in Nat
  BY <1>1 DEF Smaller
<1>. HIDE DEF next_alpha, next_samples
<1>6. CASE Failed(stat)
  <2>1. Larger(1, a.alpha \div 2) \in Shares
    BY <1>1, HalvedShare
  <2>. QED BY <1>2, <1>6, <2>1 DEF Algos
<1>7. CASE ~Failed(stat) /\ stat.pcie_bytes = 0
  BY <1>2, <1>7
<1>8. CASE ~Failed(stat) /\ stat.pcie_bytes # 0
  <2>1. InverseProportion(a, stat) = [a EXCEPT !.alpha = next_alpha, !.samples = next_samples]
    BY <1>2, <1>8
  <2>. QED BY <1>4, <1>5, <2>1 DEF Algos
<1>. QED BY <1>6, <1>7, <1>8

(* SplitRatioControlAlgo::Update keeps its share within its limits. *)
LEMMA RatioFacts ==
  ASSUME NEW a \in Algos, NEW stat \in Stats
  PROVE  SplitRatioControl(a, stat) \in Algos
<1>. DEFINE Bp == Bandwidth(stat.pcie_bytes, stat.pcie_time)
            Bf == Bandwidth(stat.fast_bytes, stat.fast_time)
            counted == [a EXCEPT !.samples = Smaller(WarmupSteps, a.samples) + 1]
            bp_hat == CASE a.bp_hat = 0 -> Bp
                        [] a.bp_hat > 0 /\ stat.pcie_bytes >= MinBandwidthSample -> (7 * Bp + 3 * a.bp_hat) \div 10
                        [] OTHER -> a.bp_hat
            x_star == (1000 * bp_hat) \div (bp_hat + Bf)
            pcie_slower == a.alpha * Bf * 100 > (1000 - a.alpha) * bp_hat * 105
            cut_back == counted.samples > WarmupSteps /\ pcie_slower /\ stat.pcie_bytes >= MinPenalty
            moved == IF cut_back THEN (a.alpha * 9) \div 10
                     ELSE a.alpha + (3 * (x_star - a.alpha)) \div 10
<1>1. a.alpha \in Shares /\ a.alpha \in Int /\ a.samples \in Nat /\ a.bp_hat \in Nat
  BY DEF Algos, Shares
<1>2. Bp \in Nat /\ Bf \in Nat
  BY BandwidthFacts DEF Stats
<1>3. SplitRatioControl(a, stat) =
        CASE Failed(stat) -> [counted EXCEPT !.alpha = Larger(RatioMin, a.alpha \div 2)]
          [] ~Failed(stat) /\ (Bp = 0 \/ Bf = 0) -> counted
          [] OTHER -> [counted EXCEPT !.alpha = Clamp(moved, RatioMin, RatioMax), !.bp_hat = bp_hat]
  <2>1. counted.alpha = a.alpha
    BY DEF Algos
  <2>. QED BY <2>1 DEF SplitRatioControl
<1>4. counted \in Algos
  <2>1. Smaller(WarmupSteps, a.samples) + 1 \in Nat
    BY <1>1, PlanAssumption DEF Smaller
  <2>. QED BY <2>1 DEF Algos
<1>. HIDE DEF Bp, Bf
<1>5. bp_hat \in Nat
  BY <1>1, <1>2
<1>. HIDE DEF bp_hat
<1>6. Bf # 0 => x_star \in Nat
  <2>. DEFINE d == bp_hat + Bf
              n == 1000 * bp_hat
  <2>1. Bf # 0 => d \in Nat \ {0}
    BY <1>2, <1>5
  <2>2. n \in Nat
    BY <1>5
  <2>. HIDE DEF d, n
  <2>3. Bf # 0 => n \div d \in Nat
    BY <2>1, <2>2
  <2>. QED BY <2>3 DEF d, n
<1>. HIDE DEF x_star, cut_back
<1>7. Bf # 0 => moved \in Int
  <2>1. CASE cut_back
    BY <1>1, <2>1
  <2>2. CASE ~cut_back
    BY <1>1, <1>6, <2>2
  <2>. QED BY <2>1, <2>2
<1>. HIDE DEF moved, counted
<1>8. CASE Failed(stat)
  <2>1. Larger(50, a.alpha \div 2) \in Shares
    BY <1>1, HalvedShare
  <2>. QED BY <1>3, <1>4, <1>8, <2>1 DEF Algos, RatioMin
<1>9. CASE ~Failed(stat) /\ (Bp = 0 \/ Bf = 0)
  BY <1>3, <1>4, <1>9
<1>10. CASE ~Failed(stat) /\ ~(Bp = 0 \/ Bf = 0)
  <2>1. Clamp(moved, 50, 999) \in Shares
    BY <1>7, <1>10, ClampedShare
  <2>2. SplitRatioControl(a, stat) = [counted EXCEPT !.alpha = Clamp(moved, 50, 999), !.bp_hat = bp_hat]
    BY <1>3, <1>10 DEF RatioMin, RatioMax
  <2>. DEFINE clamped == Clamp(moved, 50, 999)
  <2>3. clamped \in Shares /\ SplitRatioControl(a, stat) = [counted EXCEPT !.alpha = clamped, !.bp_hat = bp_hat]
    BY <2>1, <2>2
  <2>. HIDE DEF clamped
  <2>4. [counted EXCEPT !.alpha = clamped] \in Algos
    BY <1>4, <2>3 DEF Algos
  <2>5. [[counted EXCEPT !.alpha = clamped] EXCEPT !.bp_hat = bp_hat] \in Algos
    BY <1>5, <2>4 DEF Algos
  <2>. QED BY <2>3, <2>5
<1>. QED BY <1>8, <1>9, <1>10

(* AdaptiveController::Update leaves a legal algorithm and legal           *)
(* parameters.                                                             *)
LEMMA UpdateFacts ==
  ASSUME NEW a \in Algos, NEW v \in Params, NEW stat \in Stats
  PROVE  Update(a, v, stat).algo \in Algos /\ Update(a, v, stat).param \in Params
<1>. DEFINE moved == CASE a.kind = "static" -> a
                       [] a.kind = "inverse" -> InverseProportion(a, stat)
                       [] a.kind = "ratio" -> SplitRatioControl(a, stat)
            measured == stat.pcie_success /\ Bandwidth(stat.pcie_bytes, stat.pcie_time) > 0
            use == IF stat.pcie_bytes > 0 THEN measured ELSE v.use_pcie
<1>1. moved \in Algos
  <2>1. a.kind \in {"static", "inverse", "ratio"}
    BY DEF Algos, AlgoKinds
  <2>2. InverseProportion(a, stat) \in Algos /\ SplitRatioControl(a, stat) \in Algos
    BY InverseFacts, RatioFacts
  <2>. QED BY <2>1, <2>2
<1>2. use \in BOOLEAN
  <2>1. v.use_pcie \in BOOLEAN /\ stat.pcie_success \in BOOLEAN
    BY DEF Params, Stats
  <2>2. measured \in BOOLEAN
    OBVIOUS
  <2>. QED BY <2>1, <2>2, Zenon
<1>3. /\ Update(a, v, stat).algo = moved
      /\ Update(a, v, stat).param = [cached |-> TRUE, alpha |-> moved.alpha, use_pcie |-> use]
  BY DEF Update
<1>. HIDE DEF moved, use
<1>4. moved.alpha \in Shares
  BY <1>1 DEF Algos
<1>5. [cached |-> TRUE, alpha |-> moved.alpha, use_pcie |-> use] \in Params
  BY <1>2, <1>4, Zenon DEF Params
<1>. QED BY <1>1, <1>3, <1>5

-----------------------------------------------------------------------------
(* What the variables hold *)

StepNames ==
  {"call", "return", "alloc", "begin", "input", "input_wait", "sync_user", "pack", "fast", "pcie", "write_done",
   "wait_done", "event", "sync_pcie", "merge", "register", "attach", "callback"}

Buffers == {None} \cup {Own(c) : c \in Colls} \cup {Pool(t) : t \in Threads}
CtxOf(c) == <<program.domain[c[1]], Call(c).stream>>

(* What is queued, and where: the PCIe library's part and its tokens on    *)
(* the stream of the communicator, the rest on the stream of the call.     *)
PcieKinds  == {"pcie", "nothing", "done", "wait_ready"}
Place(o)   == IF o.kind \in PcieKinds THEN PcieStream(o.coll[1]) ELSE Call(o.coll).stream
Items      == [kind : Kinds, coll : Colls, ctx : Contexts, seq : Nat, buf : Buffers]
ItemsOf(s) == {o \in Items : s = Place(o) /\ o.ctx = CtxOf(o.coll)}
Records(s) == {r \in [coll : Colls, plan : Plans, ok : BOOLEAN, timed : Colls \cup {Nobody}, tmp : Buffers] :
                 s = Call(r.coll).stream}

ThreadTypes ==
  /\ program \in Programs
  /\ todo \in [Threads -> Seq(StepNames)]
  /\ index \in [Threads -> Nat] /\ \A t \in Threads : index[t] \in DOMAIN program.calls[t]
  /\ ticket \in [Threads -> Nat] /\ plan \in [Threads -> Plans]
  /\ ok \in [Threads -> BOOLEAN] /\ buffer \in [Threads -> Buffers]

StreamTypes ==
  /\ DOMAIN stream = Streams /\ \A s \in Streams : stream[s] \in Seq(ItemsOf(s))
  /\ DOMAIN pending = UserStreams /\ \A s \in UserStreams : pending[s] \in Seq(Records(s))

SyncTypes == lock \in [Contexts -> BOOLEAN] /\ sequence \in [Contexts -> Nat]

FeedbackTypes == algo \in [OpKeys -> Algos] /\ param \in [OpKeys -> Params]

Types == ThreadTypes /\ StreamTypes /\ SyncTypes /\ FeedbackTypes

(* The sets of threads, streams and collectives are those of the program,  *)
(* which no step changes.                                                  *)
SameProgram ==
  /\ Threads' = Threads /\ Colls' = Colls /\ Streams' = Streams /\ UserStreams' = UserStreams
  /\ Contexts' = Contexts /\ OpKeys' = OpKeys /\ Buffers' = Buffers
  /\ \A s : ItemsOf(s)' = ItemsOf(s) /\ Records(s)' = Records(s)

(* A step that keeps the program keeps the sets that are made from it. *)
LEMMA ProgramStays ==
  ASSUME program' = program
  PROVE  SameProgram
<1>1. Threads' = Threads /\ Colls' = Colls /\ UserStreams' = UserStreams /\ Domains' = Domains
  BY DEF Threads, Colls, UserStreams, Domains
<1>2. Streams' = Streams /\ Contexts' = Contexts /\ OpKeys' = OpKeys /\ Buffers' = Buffers
  BY <1>1 DEF Streams, PcieStream, Contexts, OpKeys, OpKey, Call, ParamBytes, Buffers, Pool
<1>3. Items' = Items
  BY <1>1, <1>2 DEF Items
<1>4. \A s : ItemsOf(s)' = ItemsOf(s)
  BY <1>3 DEF ItemsOf, Place, CtxOf, PcieStream, Call
<1>5. \A s : Records(s)' = Records(s)
  BY <1>1, <1>2 DEF Records, Call
<1>. QED BY <1>1, <1>2, <1>4, <1>5 DEF SameProgram

(* A collective is a call of a thread, on a stream and for a communicator  *)
(* that are listed.                                                        *)
LEMMA CollFacts ==
  ASSUME program \in Programs, NEW c \in Colls
  PROVE  /\ c[1] \in Threads /\ c[2] \in DOMAIN program.calls[c[1]] /\ c = <<c[1], c[2]>>
         /\ Call(c).stream \in UserStreams /\ CtxOf(c) \in Contexts /\ OpKey(c) \in OpKeys
         /\ PcieStream(c[1]) \in Streams /\ Call(c).stream \in Streams
         /\ Call(c).bytes \in 0 .. SizeModulus - 256
         /\ Call(c).op \in {"AllReduce", "AllGather", "ReduceScatter", "AllToAll"}
<1>1. PICK t \in Threads : \E i \in DOMAIN program.calls[t] : c = <<t, i>>
  BY DEF Colls
<1>2. PICK i \in DOMAIN program.calls[t] : c = <<t, i>>
  BY <1>1
<1>3. c[1] = t /\ c[2] = i /\ Call(c) = program.calls[t][i]
  BY <1>2 DEF Call
<1>4. Call(c).stream \in UserStreams
  BY <1>3 DEF UserStreams
<1>5. program.domain[t] \in Domains
  BY DEF Domains
<1>. QED BY <1>2, <1>3, <1>4, <1>5, CollectiveAssumption DEF CtxOf, Contexts, OpKeys, Streams, Threads

(* The call a thread is at *)
LEMMA CurrentFacts ==
  ASSUME ThreadTypes, NEW t \in Threads
  PROVE  /\ Current(t) \in Colls /\ Current(t)[1] = t /\ Current(t)[2] = index[t]
         /\ Stream(t) = Call(Current(t)).stream /\ Stream(t) \in UserStreams /\ Stream(t) \in Streams
         /\ PcieStream(t) \in Streams
         /\ Ctx(t) = CtxOf(Current(t)) /\ Ctx(t) \in Contexts
         /\ OpKey(Current(t)) \in OpKeys
<1>1. index[t] \in DOMAIN program.calls[t]
  BY DEF ThreadTypes
<1>2. Current(t) \in Colls
  BY <1>1 DEF Current, Colls
<1>3. Current(t)[1] = t /\ Current(t)[2] = index[t]
  BY DEF Current
<1>. QED BY <1>2, <1>3, CollFacts DEF ThreadTypes, Stream, Ctx, CtxOf

(* What a thread queues belongs where it is queued. *)
LEMMA ItemFacts ==
  ASSUME ThreadTypes, NEW t \in Threads, NEW kind \in Kinds
  PROVE  item(kind, t) \in ItemsOf(IF kind \in PcieKinds THEN PcieStream(t) ELSE Stream(t))
<1>1. ticket[t] \in Nat /\ buffer[t] \in Buffers
  BY DEF ThreadTypes
<1>2. item(kind, t) \in Items
  BY <1>1, CurrentFacts DEF item, Items
<1>3. item(kind, t).kind = kind /\ item(kind, t).coll = Current(t) /\ item(kind, t).ctx = Ctx(t)
  BY DEF item
<1>. QED BY <1>2, <1>3, CurrentFacts DEF ItemsOf, Place

(* Queueing an operation, and executing the first one *)
LEMMA EnqueueOK ==
  ASSUME StreamTypes, NEW s \in Streams, NEW o \in ItemsOf(s), enqueue(s, o), program' = program,
         pending' = pending
  PROVE  StreamTypes'
<1>1. SameProgram
  BY ProgramStays
<1>2. DOMAIN stream' = Streams /\ \A q \in Streams : stream'[q] = IF q = s THEN Append(stream[s], o) ELSE stream[q]
  BY DEF enqueue, StreamTypes
<1>3. stream[s] \in Seq(ItemsOf(s))
  BY DEF StreamTypes
<1>4. Append(stream[s], o) \in Seq(ItemsOf(s))
  BY <1>3
<1>5. \A q \in Streams : stream'[q] \in Seq(ItemsOf(q))
  BY <1>2, <1>4 DEF StreamTypes
<1>. QED BY <1>1, <1>2, <1>5 DEF StreamTypes, SameProgram

(* What the device executes was queued on the stream it belongs to, and so *)
(* is the rest.                                                            *)
LEMMA ExecutedOK ==
  ASSUME StreamTypes, NEW s \in Streams, stream[s] # <<>>, executed(s), program' = program, pending' = pending
  PROVE  StreamTypes' /\ Head(stream[s]) \in ItemsOf(s)
<1>1. SameProgram
  BY ProgramStays
<1>2. DOMAIN stream' = Streams /\ \A q \in Streams : stream'[q] = IF q = s THEN Tail(stream[s]) ELSE stream[q]
  BY DEF executed, StreamTypes
<1>3. stream[s] \in Seq(ItemsOf(s))
  BY DEF StreamTypes
<1>4. Tail(stream[s]) \in Seq(ItemsOf(s)) /\ Head(stream[s]) \in ItemsOf(s)
  BY <1>3
<1>5. \A q \in Streams : stream'[q] \in Seq(ItemsOf(q))
  BY <1>2, <1>4 DEF StreamTypes
<1>. QED BY <1>1, <1>2, <1>4, <1>5 DEF StreamTypes, SameProgram

-----------------------------------------------------------------------------
(* The steps of the host threads *)

(* The order of the steps in each of the virtual collectives is made of    *)
(* steps that there are.                                                   *)
LEMMA ScriptTypes ==
  ASSUME NEW op \in {"AllReduce", "AllGather", "ReduceScatter", "AllToAll"}, NEW p
  PROVE  StepsOf(op, p) \in Seq(StepNames)
<1>1. Notify \in Seq(StepNames) /\ Finish \in Seq(StepNames) /\ <<"fast">> \in Seq(StepNames) /\ <<"merge">> \in Seq(StepNames)
  BY DEF Notify, Finish, StepNames
<1>2. FastOnly \in Seq(StepNames)
  BY <1>1 DEF FastOnly
<1>3. SplitInPlace \in Seq(StepNames)
  <2>1. <<"begin", "input", "input_wait", "fast", "pcie">> \in Seq(StepNames)
    BY DEF StepNames
  <2>. QED BY <1>1, <2>1 DEF SplitInPlace
<1>4. PcieOnly \in Seq(StepNames)
  <2>1. <<"begin", "input", "input_wait", "pcie">> \in Seq(StepNames)
    BY DEF StepNames
  <2>. QED BY <1>1, <2>1 DEF PcieOnly
<1>5. AllGatherStaged \in Seq(StepNames)
  <2>1. <<"alloc", "begin", "input", "input_wait", "fast", "pcie">> \in Seq(StepNames)
    BY DEF StepNames
  <2>. QED BY <1>1, <2>1 DEF AllGatherStaged
<1>6. ReduceScatterStaged \in Seq(StepNames)
  <2>1. <<"alloc", "begin", "input", "input_wait", "pack", "fast", "pcie">> \in Seq(StepNames)
    BY DEF StepNames
  <2>. QED BY <1>1, <2>1 DEF ReduceScatterStaged
<1>7. AllToAllPcie \in Seq(StepNames) /\ AllToAllV \in Seq(StepNames) /\ AllToAllStaged \in Seq(StepNames)
  <2>1. /\ <<"begin", "pcie">> \in Seq(StepNames) /\ <<"fast", "begin", "pcie">> \in Seq(StepNames)
        /\ <<"alloc", "pack", "fast", "begin", "pcie">> \in Seq(StepNames)
    BY DEF StepNames
  <2>. QED BY <1>1, <2>1 DEF AllToAllPcie, AllToAllV, AllToAllStaged
<1>8. /\ AllReduce(p) \in Seq(StepNames) /\ AllGather(p) \in Seq(StepNames)
      /\ ReduceScatter(p) \in Seq(StepNames) /\ AllToAll(p) \in Seq(StepNames)
  BY <1>3, <1>4, <1>5, <1>6, <1>7 DEF AllReduce, AllGather, ReduceScatter, AllToAll
<1>. QED BY <1>2, <1>8 DEF StepsOf

(* What a host step may do to the variables of the threads *)
HostShape(t) ==
  /\ program' = program
  /\ \E w \in Seq(StepNames) : todo' = [todo EXCEPT ![t] = w]
  /\ index' = index \/ (index[t] < Len(program.calls[t]) /\ index' = [index EXCEPT ![t] = @ + 1])
  /\ ticket' = ticket \/ \E k \in Nat : ticket' = [ticket EXCEPT ![t] = k]
  /\ plan' = plan \/ \E p \in Plans : plan' = [plan EXCEPT ![t] = p]
  /\ ok' = ok \/ \E b \in BOOLEAN : ok' = [ok EXCEPT ![t] = b]
  /\ buffer' = buffer \/ \E b \in Buffers : buffer' = [buffer EXCEPT ![t] = b]

(* A step of a host thread keeps the variables of the threads well-formed. *)
LEMMA HostShapeOK ==
  ASSUME ThreadTypes, NEW t \in Threads, HostShape(t)
  PROVE  ThreadTypes'
<1>1. SameProgram /\ program' = program
  BY ProgramStays DEF HostShape
<1>2. todo' \in [Threads -> Seq(StepNames)]
  BY DEF HostShape, ThreadTypes
<1>3. index' \in [Threads -> Nat] /\ \A q \in Threads : index'[q] \in DOMAIN program.calls[q]
  <2>1. CASE index' = index
    BY <2>1 DEF ThreadTypes
  <2>2. CASE index[t] < Len(program.calls[t]) /\ index' = [index EXCEPT ![t] = @ + 1]
    <3>1. program.calls[t] \in Seq({program.calls[t][i] : i \in DOMAIN program.calls[t]})
      BY CollectiveAssumption DEF ThreadTypes, Threads
    <3>2. DOMAIN program.calls[t] = 1 .. Len(program.calls[t]) /\ Len(program.calls[t]) \in Nat
      BY <3>1
    <3>3. index[t] + 1 \in DOMAIN program.calls[t]
      BY <2>2, <3>2 DEF ThreadTypes
    <3>4. \A q \in Threads : index'[q] = IF q = t THEN index[t] + 1 ELSE index[q]
      BY <2>2 DEF ThreadTypes
    <3>5. index' \in [Threads -> Nat]
      BY <2>2 DEF ThreadTypes
    <3>. QED BY <3>3, <3>4, <3>5 DEF ThreadTypes
  <2>. QED BY <2>1, <2>2 DEF HostShape
<1>4. ticket' \in [Threads -> Nat] /\ plan' \in [Threads -> Plans]
  <2>1. ticket' \in [Threads -> Nat]
    BY DEF HostShape, ThreadTypes
  <2>2. plan' \in [Threads -> Plans]
    BY Zenon DEF HostShape, ThreadTypes
  <2>. QED BY <2>1, <2>2
<1>5. ok' \in [Threads -> BOOLEAN]
  BY Zenon DEF HostShape, ThreadTypes
<1>6. buffer' \in [Threads -> Buffers]
  BY DEF HostShape, ThreadTypes
<1>. QED BY <1>1, <1>2, <1>3, <1>4, <1>5, <1>6 DEF ThreadTypes, SameProgram

(* What is left to do after a step, or after two are replaced by another *)
LEMMA TodoFacts ==
  ASSUME ThreadTypes, NEW t \in Threads, todo[t] # <<>>
  PROVE  /\ Tail(todo[t]) \in Seq(StepNames)
         /\ \A step \in StepNames, n \in 1 .. 2 : <<step>> \o SubSeq(todo[t], 1 + n, Len(todo[t])) \in Seq(StepNames)
<1>. DEFINE s == todo[t]
<1>1. s \in Seq(StepNames) /\ s # <<>>
  BY DEF ThreadTypes
<1>. HIDE DEF s
<1>2. Tail(s) \in Seq(StepNames) /\ Len(s) \in Nat
  BY <1>1
<1>3. \A n \in 1 .. 2 : SubSeq(s, 1 + n, Len(s)) \in Seq(StepNames)
  BY <1>1
<1>4. ASSUME NEW step \in StepNames, NEW n \in 1 .. 2
      PROVE  <<step>> \o SubSeq(s, 1 + n, Len(s)) \in Seq(StepNames)
  <2>1. <<step>> \in Seq(StepNames)
    OBVIOUS
  <2>. QED BY <1>3, <2>1
<1>. QED BY <1>2, <1>4 DEF s

(* Steps that only queue something, wait for a stream or turn to a         *)
(* fallback                                                                *)
QueueStep(t) ==
  \/ EnqueueInputReady(t)
  \/ EnqueueInputWait(t)
  \/ SynchronizeUser(t)
  \/ Pack(t)
  \/ FastPart(t)
  \/ EnqueueWrite(t)
  \/ EnqueueWait(t)
  \/ WaitEventOnStream(t)
  \/ SyncPcieStream(t)
  \/ EnqueueCallback(t)

Queues(t, kind) == enqueue(IF kind \in PcieKinds THEN PcieStream(t) ELSE Stream(t), item(kind, t))

(* What the queueing steps of the synchronizer have in common: one         *)
(* operation or none, and the next step or a fallback.                     *)
LEMMA QueueStepShape ==
  ASSUME ThreadTypes, NEW t \in Threads, QueueStep(t)
  PROVE  /\ HostStep(t)
         /\ \/ next(t)
            \/ \E step \in {"sync_user", "event"}, n \in 1 .. 2 : Instead(t, step, n)
         /\ stream' = stream \/ \E kind \in Kinds : Queues(t, kind)
         /\ todo[t] # <<>>
<1>1. CASE EnqueueInputReady(t) \/ Pack(t) \/ FastPart(t)
  BY <1>1 DEF EnqueueInputReady, Pack, FastPart, at, Queues, PcieKinds, Kinds
<1>2. CASE EnqueueInputWait(t) \/ EnqueueWrite(t)
  BY <1>2 DEF EnqueueInputWait, EnqueueWrite, at, Queues, PcieKinds, Kinds
<1>3. CASE EnqueueWait(t) \/ WaitEventOnStream(t) \/ EnqueueCallback(t)
  BY <1>3 DEF EnqueueWait, WaitEventOnStream, EnqueueCallback, at, Queues, PcieKinds, Kinds
<1>4. CASE SynchronizeUser(t) \/ SyncPcieStream(t)
  BY <1>4 DEF SynchronizeUser, SyncPcieStream, at
<1>. QED BY <1>1, <1>2, <1>3, <1>4 DEF QueueStep

(* The queueing steps keep everything well-formed, and leave the plan and  *)
(* the call alone.                                                         *)
LEMMA QueueStepOK ==
  ASSUME Types, NEW t \in Threads, QueueStep(t)
  PROVE  Types' /\ HostShape(t) /\ index' = index /\ plan' = plan
<1>1. ThreadTypes /\ StreamTypes
  BY DEF Types
<1>2. /\ HostStep(t) /\ todo[t] # <<>>
      /\ next(t) \/ \E step \in {"sync_user", "event"}, n \in 1 .. 2 : Instead(t, step, n)
      /\ stream' = stream \/ \E kind \in Kinds : Queues(t, kind)
  BY <1>1, QueueStepShape
<1>3. /\ UNCHANGED <<program, happened, holder, freed, algo, param, index, plan, ok, ticket, buffer, lock, sequence,
                     token, pending>>
  BY <1>2 DEF HostStep, quiet, locals, sync, device, feedback
<1>4. \E w \in Seq(StepNames) : todo' = [todo EXCEPT ![t] = w]
  <2>1. CASE next(t)
    BY <1>1, <1>2, <2>1, TodoFacts DEF next
  <2>2. CASE \E step \in {"sync_user", "event"}, n \in 1 .. 2 : Instead(t, step, n)
    <3>1. PICK step \in {"sync_user", "event"}, n \in 1 .. 2 : Instead(t, step, n)
      BY <2>2
    <3>2. step \in StepNames
      BY DEF StepNames
    <3>3. <<step>> \o SubSeq(todo[t], 1 + n, Len(todo[t])) \in Seq(StepNames)
      BY <1>1, <1>2, <3>2, TodoFacts
    <3>4. todo' = [todo EXCEPT ![t] = <<step>> \o SubSeq(todo[t], 1 + n, Len(todo[t]))]
      BY <3>1 DEF Instead
    <3>. QED BY <3>3, <3>4
  <2>. QED BY <1>2, <2>1, <2>2
<1>5. HostShape(t)
  BY <1>3, <1>4 DEF HostShape
<1>6. ThreadTypes'
  BY <1>1, <1>5, HostShapeOK
<1>7. SameProgram
  BY <1>3, ProgramStays
<1>8. StreamTypes'
  <2>1. CASE stream' = stream
    BY <1>1, <1>3, <1>7, <2>1 DEF StreamTypes, SameProgram
  <2>2. CASE \E kind \in Kinds : Queues(t, kind)
    <3>1. PICK kind \in Kinds : Queues(t, kind)
      BY <2>2
    <3>. DEFINE s == IF kind \in PcieKinds THEN PcieStream(t) ELSE Stream(t)
    <3>2. s \in Streams /\ item(kind, t) \in ItemsOf(s)
      BY <1>1, CurrentFacts, ItemFacts
    <3>3. enqueue(s, item(kind, t))
      BY <3>1 DEF Queues
    <3>. HIDE DEF s
    <3>. QED BY <1>1, <1>3, <3>2, <3>3, EnqueueOK
  <2>. QED BY <1>2, <2>1, <2>2
<1>9. SyncTypes' /\ FeedbackTypes'
  BY <1>3, <1>7 DEF Types, SyncTypes, FeedbackTypes, SameProgram
<1>. QED BY <1>3, <1>5, <1>6, <1>8, <1>9 DEF Types

(* PrepareCollectiveLaunch adopts what the controller suggests, within     *)
(* its limits, and plans by it.                                            *)
LEMMA LaunchPlanFacts ==
  ASSUME ThreadTypes, FeedbackTypes, NEW c \in Colls
  PROVE  /\ LaunchPlan(c) \in Plans
         /\ Suggest(algo[OpKey(c)], param[OpKey(c)]) \in Algos
         /\ Divisible(Call(c).bytes) /\ LaunchPlan(c).use_pcie =>
              /\ LaunchPlan(c).fast + LaunchPlan(c).pcie = Call(c).bytes
              /\ LaunchPlan(c).fast % 128 = 0
<1>. DEFINE bytes == Call(c).bytes
            suggested == Suggest(algo[OpKey(c)], param[OpKey(c)])
            hint == param[OpKey(c)].use_pcie
<1>1. program \in Programs /\ bytes \in 0 .. SizeModulus - 256
  BY CollFacts DEF ThreadTypes
<1>2. algo[OpKey(c)] \in Algos /\ param[OpKey(c)] \in Params
  BY <1>1, CollFacts DEF FeedbackTypes
<1>3. suggested \in Algos
  BY <1>2, SuggestFacts
<1>4. hint \in BOOLEAN
  BY <1>2 DEF Params
<1>5. suggested.alpha \in Int
  BY <1>3 DEF Algos, Shares
<1>6. program.alpha \in Int
  BY <1>1, CollectiveAssumption
<1>7. LaunchPlan(c) = CreatePlan(bytes, suggested.alpha, hint) \/ LaunchPlan(c) = CreatePlan(bytes, program.alpha, TRUE)
  BY DEF LaunchPlan
<1>8. suggested \in Algos
  BY <1>3
<1>. HIDE DEF suggested, hint, bytes
<1>9. CASE LaunchPlan(c) = CreatePlan(bytes, suggested.alpha, hint)
  BY <1>1, <1>4, <1>5, <1>8, <1>9, PlanFacts DEF bytes, suggested
<1>10. CASE LaunchPlan(c) = CreatePlan(bytes, program.alpha, TRUE)
  <2>1. PICK yes \in BOOLEAN : LaunchPlan(c) = CreatePlan(bytes, program.alpha, yes)
    BY <1>10
  <2>. QED BY <1>1, <1>6, <1>8, <2>1, PlanFacts DEF bytes, suggested
<1>. QED BY <1>7, <1>9, <1>10

(* The launch of a collective plans it and queues the application's work   *)
(* (PrepareCollectiveLaunch).                                              *)
LEMMA StartCallOK ==
  ASSUME Types, NEW t \in Threads, StartCall(t)
  PROVE  /\ Types' /\ HostShape(t) /\ index' = index
         /\ plan' = [plan EXCEPT ![t] = LaunchPlan(Current(t))]
<1>0. ThreadTypes /\ StreamTypes /\ SyncTypes /\ FeedbackTypes /\ Current(t) \in Colls
  BY CurrentFacts DEF Types
<1>. DEFINE p == LaunchPlan(Current(t))
            k == OpKey(Current(t))
            w == StepsOf(Call(Current(t)).op, p) \o <<"return">>
<1>1. /\ UNCHANGED <<program, happened, holder, freed, param, index, ticket, buffer, lock, sequence, token, pending>>
      /\ plan' = [plan EXCEPT ![t] = p]
      /\ algo' = algo \/ algo' = [algo EXCEPT ![k] = Suggest(algo[k], param[k])]
      /\ todo' = [todo EXCEPT ![t] = w]
      /\ enqueue(Stream(t), item("produce", t))
      /\ ok' = [ok EXCEPT ![t] = TRUE]
  BY <1>0 DEF StartCall, device, sync
<1>2. p \in Plans /\ Suggest(algo[k], param[k]) \in Algos
  BY <1>0, LaunchPlanFacts
<1>3. w \in Seq(StepNames)
  <2>1. Call(Current(t)).op \in {"AllReduce", "AllGather", "ReduceScatter", "AllToAll"}
    BY <1>0, CollFacts DEF ThreadTypes
  <2>. DEFINE script == StepsOf(Call(Current(t)).op, p)
  <2>2. script \in Seq(StepNames) /\ <<"return">> \in Seq(StepNames)
    BY <2>1, ScriptTypes DEF StepNames
  <2>. HIDE DEF script
  <2>3. script \o <<"return">> \in Seq(StepNames)
    BY <2>2
  <2>. QED BY <2>3 DEF script
<1>. HIDE DEF p, w
<1>4. HostShape(t)
  <2>1. plan' = plan \/ \E x \in Plans : plan' = [plan EXCEPT ![t] = x]
    BY <1>1, <1>2
  <2>2. \E b \in BOOLEAN : ok' = [ok EXCEPT ![t] = b]
    BY <1>1
  <2>3. \E x \in Seq(StepNames) : todo' = [todo EXCEPT ![t] = x]
    BY <1>1, <1>3
  <2>. QED BY <1>1, <2>1, <2>2, <2>3 DEF HostShape
<1>5. ThreadTypes'
  BY <1>0, <1>4, HostShapeOK
<1>6. StreamTypes'
  <2>1. "produce" \in Kinds /\ "produce" \notin PcieKinds
    BY DEF Kinds, PcieKinds
  <2>2. item("produce", t) \in ItemsOf(Stream(t)) /\ Stream(t) \in Streams
    BY <1>0, <2>1, ItemFacts, CurrentFacts
  <2>. QED BY <1>0, <1>1, <2>2, EnqueueOK
<1>7. SyncTypes' /\ FeedbackTypes'
  <2>1. SameProgram
    BY <1>1, ProgramStays
  <2>2. algo' \in [OpKeys -> Algos]
    BY <1>0, <1>1, <1>2 DEF FeedbackTypes
  <2>. QED BY <1>0, <1>1, <2>1, <2>2 DEF SyncTypes, FeedbackTypes, SameProgram
<1>. QED BY <1>1, <1>4, <1>5, <1>6, <1>7 DEF Types, p

(* The staging buffer of a call is the communicator's or its own. *)
LEMMA AllocateOK ==
  ASSUME Types, NEW t \in Threads, Allocate(t)
  PROVE  Types' /\ HostShape(t) /\ index' = index /\ plan' = plan
<1>0. ThreadTypes /\ StreamTypes /\ SyncTypes /\ FeedbackTypes /\ Current(t) \in Colls
  BY CurrentFacts DEF Types
<1>1. /\ UNCHANGED <<program, happened, holder, freed, algo, param, index, plan, ok, ticket, stream, lock, sequence,
                     token, pending>>
      /\ todo[t] # <<>>
      /\ next(t) \/ todo' = [todo EXCEPT ![t] = <<"fast">> \o Notify \o <<"return">>]
      /\ buffer' = buffer \/ buffer' = [buffer EXCEPT ![t] = Pool(t)] \/ buffer' = [buffer EXCEPT ![t] = Own(Current(t))]
  BY DEF Allocate, at, quiet, locals, sync, device, feedback
<1>2. Pool(t) \in Buffers /\ Own(Current(t)) \in Buffers
  BY <1>0 DEF Buffers
<1>3. \E w \in Seq(StepNames) : todo' = [todo EXCEPT ![t] = w]
  <2>1. <<"fast">> \o Notify \o <<"return">> \in Seq(StepNames)
    BY DEF Notify, StepNames
  <2>2. Tail(todo[t]) \in Seq(StepNames)
    BY <1>0, <1>1, TodoFacts
  <2>. QED BY <1>1, <2>1, <2>2 DEF next
<1>4. HostShape(t)
  BY <1>1, <1>2, <1>3 DEF HostShape
<1>5. SameProgram
  BY <1>1, ProgramStays
<1>. QED BY <1>0, <1>1, <1>4, <1>5, HostShapeOK DEF Types, StreamTypes, SyncTypes, FeedbackTypes, SameProgram

(* A ticket is taken under the lock of the context, or none is. *)
LEMMA BeginOK ==
  ASSUME Types, NEW t \in Threads, BeginValueSync(t) \/ NoValueSync(t)
  PROVE  Types' /\ HostShape(t) /\ index' = index /\ plan' = plan
<1>0. ThreadTypes /\ StreamTypes /\ SyncTypes /\ FeedbackTypes /\ Ctx(t) \in Contexts
  BY CurrentFacts DEF Types
<1>1. /\ UNCHANGED <<program, happened, holder, freed, algo, param, index, plan, ok, buffer, stream, token, pending>>
      /\ todo[t] # <<>> /\ next(t)
      /\ ticket' = ticket \/ ticket' = [ticket EXCEPT ![t] = sequence[Ctx(t)]]
      /\ sequence' = sequence \/ sequence' = [sequence EXCEPT ![Ctx(t)] = @ + 1]
      /\ lock' = lock \/ lock' = [lock EXCEPT ![Ctx(t)] = TRUE]
  BY DEF BeginValueSync, NoValueSync, at, quiet, locals, sync, device, feedback
<1>2. sequence[Ctx(t)] \in Nat
  BY <1>0 DEF SyncTypes
<1>3. \E w \in Seq(StepNames) : todo' = [todo EXCEPT ![t] = w]
  BY <1>0, <1>1, TodoFacts DEF next
<1>4. HostShape(t)
  BY <1>1, <1>2, <1>3 DEF HostShape
<1>5. SameProgram
  BY <1>1, ProgramStays
<1>6. sequence' \in [Contexts -> Nat]
  BY <1>0, <1>1 DEF SyncTypes
<1>7. lock' \in [Contexts -> BOOLEAN]
  BY <1>0, <1>1, Zenon DEF SyncTypes
<1>. QED BY <1>0, <1>1, <1>4, <1>5, <1>6, <1>7, HostShapeOK DEF Types, StreamTypes, SyncTypes, FeedbackTypes, SameProgram

(* A wait for the input fails, or the PCIe library is given its part and   *)
(* accepts it or not.                                                      *)
LEMMA SubmissionOK ==
  ASSUME Types, NEW t \in Threads, SynchronizeFails(t) \/ PciePart(t)
  PROVE  Types' /\ HostShape(t) /\ index' = index /\ plan' = plan
<1>0. ThreadTypes /\ StreamTypes /\ SyncTypes /\ FeedbackTypes /\ PcieStream(t) \in Streams
  BY CurrentFacts DEF Types
<1>1. /\ UNCHANGED <<program, happened, holder, algo, param, index, plan, ticket, buffer, lock, sequence, token, pending>>
      /\ todo[t] # <<>>
      /\ next(t) \/ todo' = [todo EXCEPT ![t] = <<"return">>]
      /\ \E b \in BOOLEAN : ok' = [ok EXCEPT ![t] = b]
      /\ stream' = stream \/ \E kind \in {"pcie", "nothing"} : enqueue(PcieStream(t), item(kind, t))
  <2>1. CASE SynchronizeFails(t)
    BY <2>1 DEF SynchronizeFails, at, feedback, device, sync
  <2>2. CASE PciePart(t)
    <3>1. PICK accepted \in BOOLEAN : /\ enqueue(PcieStream(t), item(IF accepted THEN "pcie" ELSE "nothing", t))
                                      /\ ok' = [ok EXCEPT ![t] = accepted]
      BY <2>2 DEF PciePart
    <3>2. \E kind \in {"pcie", "nothing"} : enqueue(PcieStream(t), item(kind, t))
      BY <3>1
    <3>. QED BY <2>2, <3>1, <3>2 DEF PciePart, at, quiet, feedback, device, sync
  <2>. QED BY <2>1, <2>2
<1>2. \E w \in Seq(StepNames) : todo' = [todo EXCEPT ![t] = w]
  <2>1. <<"return">> \in Seq(StepNames)
    BY DEF StepNames
  <2>. QED BY <1>0, <1>1, <2>1, TodoFacts DEF next
<1>3. HostShape(t)
  BY <1>1, <1>2 DEF HostShape
<1>4. SameProgram
  BY <1>1, ProgramStays
<1>5. StreamTypes'
  <2>1. CASE stream' = stream
    BY <1>0, <1>1, <1>4, <2>1 DEF StreamTypes, SameProgram
  <2>2. CASE \E kind \in {"pcie", "nothing"} : enqueue(PcieStream(t), item(kind, t))
    <3>1. PICK kind \in {"pcie", "nothing"} : enqueue(PcieStream(t), item(kind, t))
      BY <2>2
    <3>2. kind \in Kinds /\ kind \in PcieKinds
      BY DEF Kinds, PcieKinds
    <3>3. item(kind, t) \in ItemsOf(PcieStream(t))
      BY <1>0, <3>2, ItemFacts
    <3>. QED BY <1>0, <1>1, <3>1, <3>3, EnqueueOK
  <2>. QED BY <1>1, <2>1, <2>2
<1>. QED BY <1>0, <1>1, <1>3, <1>4, <1>5, HostShapeOK DEF Types, SyncTypes, FeedbackTypes, SameProgram

(* The copies out of a staging buffer are queued, and its release.         *)
LEMMA MergeOK ==
  ASSUME Types, NEW t \in Threads, Merge(t)
  PROVE  Types' /\ HostShape(t) /\ index' = index /\ plan' = plan
<1>0. ThreadTypes /\ StreamTypes /\ SyncTypes /\ FeedbackTypes /\ Stream(t) \in Streams
  BY CurrentFacts DEF Types
<1>. DEFINE s == Stream(t)
            tail == IF buffer[t] = Own(Current(t)) /\ ~program.acl THEN <<item("free", t)>> ELSE <<>>
<1>1. /\ UNCHANGED <<program, happened, holder, algo, param, index, plan, ok, ticket, buffer, lock, sequence, token,
                     pending>>
      /\ todo[t] # <<>> /\ next(t)
      /\ stream' = [stream EXCEPT ![s] = stream[s] \o <<item("merge", t)>> \o tail]
  BY DEF Merge, at, feedback, device, sync, locals
<1>2. HostShape(t)
  BY <1>0, <1>1, TodoFacts DEF HostShape, next
<1>3. SameProgram
  BY <1>1, ProgramStays
<1>4. stream[s] \o <<item("merge", t)>> \o tail \in Seq(ItemsOf(s))
  <2>. DEFINE before == stream[s]
              S == ItemsOf(s)
              a == item("merge", t)
              b == item("free", t)
  <2>1. before \in Seq(S)
    BY <1>0 DEF StreamTypes
  <2>2. a \in S /\ b \in S
    <3>1. {"merge", "free"} \subseteq Kinds /\ {"merge", "free"} \cap PcieKinds = {}
      BY DEF Kinds, PcieKinds
    <3>. QED BY <1>0, <3>1, ItemFacts
  <2>3. tail = <<>> \/ tail = <<b>>
    OBVIOUS
  <2>. HIDE DEF before, S, a, b, tail
  <2>4. before \o <<a>> \in Seq(S)
    BY <2>1, <2>2
  <2>5. tail \in Seq(S)
    <3>1. CASE tail = <<>>
      BY <3>1
    <3>2. CASE tail = <<b>>
      BY <2>2, <3>2
    <3>. QED BY <2>3, <3>1, <3>2
  <2>6. before \o <<a>> \o tail \in Seq(S)
    BY <2>4, <2>5
  <2>. QED BY <2>6 DEF before, S, a
<1>. HIDE DEF tail
<1>5. StreamTypes'
  <2>1. DOMAIN stream' = Streams /\ \A q \in Streams : q # s => stream'[q] = stream[q]
    BY <1>0, <1>1 DEF StreamTypes
  <2>2. stream'[s] \in Seq(ItemsOf(s))
    BY <1>0, <1>1, <1>4 DEF StreamTypes
  <2>3. \A q \in Streams : stream'[q] \in Seq(ItemsOf(q))
    BY <1>0, <2>1, <2>2 DEF StreamTypes
  <2>. QED BY <1>0, <1>1, <1>3, <2>1, <2>3 DEF StreamTypes, SameProgram
<1>. QED BY <1>0, <1>1, <1>2, <1>3, <1>5, HostShapeOK DEF Types, SyncTypes, FeedbackTypes, SameProgram

(* The record of a call, and the timers of the last one of its stream      *)
LEMMA RecordOK ==
  ASSUME Types, NEW t \in Threads, RegisterPending(t) \/ AttachTimers(t)
  PROVE  Types' /\ HostShape(t) /\ index' = index /\ plan' = plan
<1>0. ThreadTypes /\ StreamTypes /\ SyncTypes /\ FeedbackTypes /\ Stream(t) \in UserStreams /\ Current(t) \in Colls
      /\ Stream(t) = Call(Current(t)).stream
  BY CurrentFacts DEF Types
<1>. DEFINE s == Stream(t)
<1>1. /\ UNCHANGED <<program, happened, holder, freed, algo, param, index, plan, ok, ticket, buffer, lock, sequence,
                     token, stream>>
      /\ todo[t] # <<>> /\ next(t)
  BY DEF RegisterPending, AttachTimers, at, quiet, feedback, device, sync, locals
<1>2. HostShape(t)
  BY <1>0, <1>1, TodoFacts DEF HostShape, next
<1>3. SameProgram
  BY <1>1, ProgramStays
<1>4. pending[s] \in Seq(Records(s))
  BY <1>0 DEF StreamTypes
<1>5. pending' = pending \/ \E w \in Seq(Records(s)) : pending' = [pending EXCEPT ![s] = w]
  <2>1. CASE RegisterPending(t)
    <3>1. PICK tmp \in {buffer[t], None} :
            pending' = [pending EXCEPT ![s] = Append(@, [coll |-> Current(t), plan |-> plan[t], ok |-> ok[t],
                                                         timed |-> Nobody, tmp |-> tmp])]
      BY <2>1 DEF RegisterPending
    <3>. DEFINE r == [coll |-> Current(t), plan |-> plan[t], ok |-> ok[t], timed |-> Nobody, tmp |-> tmp]
    <3>2. tmp \in Buffers /\ plan[t] \in Plans /\ ok[t] \in BOOLEAN
      <4>1. buffer[t] \in Buffers /\ plan[t] \in Plans
        BY <1>0 DEF ThreadTypes
      <4>2. ok[t] \in BOOLEAN
        BY <1>0, Zenon DEF ThreadTypes
      <4>3. None \in Buffers
        BY DEF Buffers
      <4>. QED BY <4>1, <4>2, <4>3
    <3>3. r \in [coll : Colls, plan : Plans, ok : BOOLEAN, timed : Colls \cup {Nobody}, tmp : Buffers]
      BY <1>0, <3>2, Zenon
    <3>4. r.coll = Current(t)
      OBVIOUS
    <3>. HIDE DEF r
    <3>5. r \in Records(s)
      BY <1>0, <3>3, <3>4 DEF Records
    <3>6. Append(pending[s], r) \in Seq(Records(s))
      BY <1>4, <3>5
    <3>. QED BY <3>1, <3>6 DEF r
  <2>2. CASE AttachTimers(t)
    <3>1. CASE pending[s] = <<>>
      BY <2>2, <3>1 DEF AttachTimers
    <3>2. CASE pending[s] # <<>>
      <4>. DEFINE q == pending[s]
                  n == Len(q)
                  r == q[n]
                  R == Records(s)
      <4>1. pending' = [pending EXCEPT ![s] = [q EXCEPT ![n] = [r EXCEPT !.timed = Current(t)]]]
        BY <2>2, <3>2 DEF AttachTimers
      <4>2. q \in Seq(R) /\ q # <<>>
        BY <1>4, <3>2
      <4>. HIDE DEF q
      <4>3. n \in Nat \ {0} /\ n \in DOMAIN q /\ r \in R
        BY <4>2
      <4>. HIDE DEF r
      <4>4. [r EXCEPT !.timed = Current(t)] \in R
        BY <1>0, <4>3 DEF Records
      <4>. HIDE DEF R, n
      <4>5. [q EXCEPT ![n] = [r EXCEPT !.timed = Current(t)]] \in Seq(R)
        BY <4>2, <4>3, <4>4
      <4>. QED BY <4>1, <4>5 DEF R
    <3>. QED BY <3>1, <3>2
  <2>. QED BY <2>1, <2>2
<1>6. StreamTypes'
  <2>1. DOMAIN pending' = UserStreams /\ \A q \in UserStreams : pending'[q] \in Seq(Records(q))
    <3>1. CASE pending' = pending
      BY <1>0, <3>1 DEF StreamTypes
    <3>2. CASE \E w \in Seq(Records(s)) : pending' = [pending EXCEPT ![s] = w]
      <4>1. PICK w \in Seq(Records(s)) : pending' = [pending EXCEPT ![s] = w]
        BY <3>2
      <4>. QED BY <1>0, <4>1 DEF StreamTypes
    <3>. QED BY <1>5, <3>1, <3>2
  <2>. QED BY <1>0, <1>1, <1>3, <2>1 DEF StreamTypes, SameProgram
<1>. QED BY <1>0, <1>1, <1>2, <1>3, <1>6, HostShapeOK DEF Types, SyncTypes, FeedbackTypes, SameProgram

(* A call ends, and the next begins. *)
LEMMA ReturnOK ==
  ASSUME Types, NEW t \in Threads, Return(t)
  PROVE  /\ Types' /\ HostShape(t) /\ plan' = plan
         /\ \/ index' = index
            \/ index' = [index EXCEPT ![t] = @ + 1] /\ todo' = [todo EXCEPT ![t] = <<"call">>]
<1>0. ThreadTypes /\ StreamTypes /\ SyncTypes /\ FeedbackTypes /\ Stream(t) \in Streams
  BY CurrentFacts DEF Types
<1>1. /\ UNCHANGED <<program, happened, holder, freed, algo, param, plan, ok, sequence, token, pending>>
      /\ todo[t] # <<>>
      /\ stream' = stream \/ enqueue(Stream(t), item("consume", t))
      /\ lock' = lock \/ lock' = [lock EXCEPT ![Ctx(t)] = FALSE]
      /\ ticket' = [ticket EXCEPT ![t] = 0]
      /\ buffer' = [buffer EXCEPT ![t] = None]
      /\ \/ index[t] < Len(program.calls[t]) /\ index' = [index EXCEPT ![t] = @ + 1] /\ todo' = [todo EXCEPT ![t] = <<"call">>]
         \/ next(t) /\ index' = index
  BY DEF Return, at, quiet, feedback, device, NoTicket
<1>2. \E w \in Seq(StepNames) : todo' = [todo EXCEPT ![t] = w]
  <2>1. <<"call">> \in Seq(StepNames)
    BY DEF StepNames
  <2>. QED BY <1>0, <1>1, <2>1, TodoFacts DEF next
<1>3. None \in Buffers
  BY DEF Buffers
<1>4. HostShape(t)
  BY <1>1, <1>2, <1>3 DEF HostShape
<1>5. SameProgram
  BY <1>1, ProgramStays
<1>6. StreamTypes'
  <2>1. CASE stream' = stream
    BY <1>0, <1>1, <1>5, <2>1 DEF StreamTypes, SameProgram
  <2>2. CASE enqueue(Stream(t), item("consume", t))
    <3>1. "consume" \in Kinds /\ "consume" \notin PcieKinds
      BY DEF Kinds, PcieKinds
    <3>2. item("consume", t) \in ItemsOf(Stream(t))
      BY <1>0, <3>1, ItemFacts
    <3>. QED BY <1>0, <1>1, <2>2, <3>2, EnqueueOK
  <2>. QED BY <1>1, <2>1, <2>2
<1>7. lock' \in [Contexts -> BOOLEAN]
  BY <1>0, <1>1, Zenon DEF SyncTypes
<1>. QED BY <1>0, <1>1, <1>4, <1>5, <1>6, <1>7, HostShapeOK DEF Types, SyncTypes, FeedbackTypes, SameProgram

-----------------------------------------------------------------------------
(* The steps of the device *)

DeviceWork(s) ==
  \/ WriteToken(s)
  \/ WaitToken(s)
  \/ WaitEvent(s)
  \/ Compute(s)
  \/ FillBuffer(s)
  \/ RunPcie(s)
  \/ FreeAsync(s)

(* What the device executes leaves the threads, the records and the        *)
(* controllers alone.                                                      *)
LEMMA DeviceWorkOK ==
  ASSUME Types, NEW s \in Streams, DeviceWork(s)
  PROVE  Types' /\ UNCHANGED <<program, todo, index, plan>>
<1>0. ThreadTypes /\ StreamTypes /\ SyncTypes /\ FeedbackTypes
  BY DEF Types
<1>1. /\ UNCHANGED <<program, todo, index, ticket, plan, ok, buffer, pending, algo, param, lock, sequence>>
      /\ stream[s] # <<>> /\ executed(s)
  BY DEF DeviceWork, WriteToken, WaitToken, WaitEvent, Compute, FillBuffer, RunPcie, FreeAsync, DeviceStep, host,
         feedback, sync, head
<1>2. SameProgram
  BY <1>1, ProgramStays
<1>3. StreamTypes'
  BY <1>0, <1>1, ExecutedOK
<1>4. ThreadTypes'
  BY <1>0, <1>1, <1>2 DEF ThreadTypes, SameProgram
<1>5. SyncTypes' /\ FeedbackTypes'
  BY <1>0, <1>1, <1>2 DEF SyncTypes, FeedbackTypes, SameProgram
<1>. QED BY <1>1, <1>3, <1>4, <1>5 DEF Types

(* A record is reported to the controller of its own operation, with       *)
(* statistics that the controller accepts.                                 *)
LEMMA MeasureOK ==
  ASSUME ThreadTypes, FeedbackTypes, NEW s, NEW r \in Records(s), Measure(r), program' = program
  PROVE  FeedbackTypes'
<1>1. SameProgram
  BY ProgramStays
<1>2. CASE ~program.measure
  BY <1>1, <1>2 DEF Measure, feedback, FeedbackTypes, SameProgram
<1>3. CASE program.measure
  <2>. DEFINE k == OpKey(r.coll)
  <2>1. PICK fast_time \in program.times, pcie_time \in program.times :
          /\ algo' = [algo EXCEPT ![k] = Update(algo[k], param[k], Statistics(r, fast_time, pcie_time)).algo]
          /\ param' = [param EXCEPT ![k] = Update(algo[k], param[k], Statistics(r, fast_time, pcie_time)).param]
    BY <1>3 DEF Measure
  <2>2. /\ r.coll \in Colls /\ r.ok \in BOOLEAN /\ r.plan.fast \in Nat /\ r.plan.pcie \in Nat
        /\ fast_time \in Nat /\ pcie_time \in Nat
    <3>1. r.coll \in Colls /\ r.plan \in Plans
      BY DEF Records
    <3>2. r.ok \in BOOLEAN
      BY Zenon DEF Records
    <3>3. fast_time \in Nat /\ pcie_time \in Nat
      BY CollectiveAssumption DEF ThreadTypes
    <3>. QED BY <3>1, <3>2, <3>3 DEF Plans
  <2>. DEFINE stat == Statistics(r, fast_time, pcie_time)
  <2>3. stat \in Stats
    <3>1. PICK x \in {0, fast_time}, y \in {0, pcie_time} :
            stat = [fast_time |-> x, pcie_time |-> y, fast_bytes |-> r.plan.fast, pcie_bytes |-> r.plan.pcie,
                    fast_success |-> TRUE, pcie_success |-> r.ok]
      BY DEF Statistics
    <3>2. x \in Nat /\ y \in Nat
      BY <2>2
    <3>. HIDE DEF stat
    <3>3. TRUE \in BOOLEAN
      OBVIOUS
    <3>. QED BY <2>2, <3>1, <3>2, <3>3, Zenon DEF Stats
  <2>. HIDE DEF stat
  <2>4. k \in OpKeys
    BY <2>2, CollFacts DEF ThreadTypes
  <2>5. algo[k] \in Algos /\ param[k] \in Params
    BY <2>4 DEF FeedbackTypes
  <2>. DEFINE new == Update(algo[k], param[k], stat)
  <2>6. new.algo \in Algos /\ new.param \in Params
    BY <2>3, <2>5, UpdateFacts
  <2>7. algo' = [algo EXCEPT ![k] = new.algo] /\ param' = [param EXCEPT ![k] = new.param]
    BY <2>1 DEF stat
  <2>. HIDE DEF new, k
  <2>8. algo' \in [OpKeys -> Algos] /\ param' \in [OpKeys -> Params]
    BY <2>6, <2>7 DEF FeedbackTypes
  <2>. QED BY <1>1, <2>8 DEF FeedbackTypes, SameProgram
<1>. QED BY <1>2, <1>3

(* The callback takes the oldest record of its stream and reports it. *)
LEMMA CompletionOK ==
  ASSUME Types, NEW s \in Streams, HostCompletion(s)
  PROVE  Types' /\ UNCHANGED <<program, todo, index, plan>>
<1>0. ThreadTypes /\ StreamTypes /\ SyncTypes /\ FeedbackTypes
  BY DEF Types
<1>1. /\ UNCHANGED <<program, todo, index, ticket, plan, ok, buffer, lock, sequence>>
      /\ stream[s] # <<>> /\ Head(stream[s]).kind = "callback" /\ executed(s)
      /\ \/ pending' = pending /\ UNCHANGED <<algo, param>>
         \/ /\ pending[s] # <<>> /\ pending' = [pending EXCEPT ![s] = Tail(pending[s])]
            /\ Measure(Head(pending[s]))
  BY DEF HostCompletion, host, feedback, sync, head
<1>2. SameProgram
  BY <1>1, ProgramStays
<1>3. s \in UserStreams
  <2>1. stream[s] \in Seq(ItemsOf(s)) /\ stream[s] # <<>>
    BY <1>0, <1>1 DEF StreamTypes
  <2>2. Head(stream[s]) \in ItemsOf(s)
    BY <2>1
  <2>3. "callback" \notin PcieKinds
    BY DEF PcieKinds
  <2>4. Head(stream[s]).coll \in Colls /\ s = Call(Head(stream[s]).coll).stream
    BY <1>1, <2>2, <2>3 DEF ItemsOf, Items, Place
  <2>. QED BY <1>0, <2>4, CollFacts DEF ThreadTypes
<1>4. /\ DOMAIN stream' = Streams
      /\ \A q \in Streams : stream'[q] \in Seq(ItemsOf(q))
  <2>1. \A q \in Streams : stream'[q] = IF q = s THEN Tail(stream[s]) ELSE stream[q]
    BY <1>0, <1>1 DEF executed, StreamTypes
  <2>2. stream[s] \in Seq(ItemsOf(s)) /\ stream[s] # <<>>
    BY <1>0, <1>1 DEF StreamTypes
  <2>3. Tail(stream[s]) \in Seq(ItemsOf(s))
    BY <2>2
  <2>. QED BY <1>0, <1>1, <2>1, <2>3 DEF executed, StreamTypes
<1>5. DOMAIN pending' = UserStreams /\ \A q \in UserStreams : pending'[q] \in Seq(Records(q))
  <2>1. CASE pending' = pending
    BY <1>0, <2>1 DEF StreamTypes
  <2>2. CASE pending[s] # <<>> /\ pending' = [pending EXCEPT ![s] = Tail(pending[s])]
    <3>1. pending[s] \in Seq(Records(s)) /\ pending[s] # <<>>
      BY <1>0, <1>3, <2>2 DEF StreamTypes
    <3>2. Tail(pending[s]) \in Seq(Records(s))
      BY <3>1
    <3>. QED BY <1>0, <1>3, <2>2, <3>2 DEF StreamTypes
  <2>. QED BY <1>1, <2>1, <2>2
<1>6. StreamTypes'
  BY <1>2, <1>4, <1>5 DEF StreamTypes, SameProgram
<1>7. ThreadTypes' /\ SyncTypes'
  BY <1>0, <1>1, <1>2 DEF ThreadTypes, SyncTypes, SameProgram
<1>8. FeedbackTypes'
  <2>1. CASE UNCHANGED <<algo, param>>
    BY <1>0, <1>2, <2>1 DEF FeedbackTypes, SameProgram
  <2>2. CASE pending[s] # <<>> /\ Measure(Head(pending[s]))
    <3>1. pending[s] \in Seq(Records(s)) /\ pending[s] # <<>>
      BY <1>0, <1>3, <2>2 DEF StreamTypes
    <3>2. Head(pending[s]) \in Records(s)
      BY <3>1
    <3>. QED BY <1>0, <1>1, <2>2, <3>2, MeasureOK
  <2>. QED BY <1>1, <2>1, <2>2
<1>. QED BY <1>1, <1>6, <1>7, <1>8 DEF Types

-----------------------------------------------------------------------------
(* Types is inductive. *)

(* Before the first call everything is well-formed. *)
LEMMA InitOK ==
  ASSUME Init
  PROVE  Types
<1>1. program \in Programs
  BY DEF Init
<1>2. ThreadTypes
  <2>1. <<"call">> \in Seq(StepNames)
    BY DEF StepNames
  <2>2. FastOnlyPlan(0) \in Plans
    BY DEF FastOnlyPlan, Plans
  <2>3. None \in Buffers
    BY DEF Buffers
  <2>4. \A t \in Threads : 1 \in DOMAIN program.calls[t]
    <3>. TAKE t \in Threads
    <3>1. program.calls[t] \in Seq({program.calls[t][i] : i \in DOMAIN program.calls[t]}) /\ program.calls[t] # <<>>
      BY <1>1, CollectiveAssumption DEF Threads
    <3>. QED BY <3>1
  <2>5. todo \in [Threads -> Seq(StepNames)]
    BY <2>1 DEF Init
  <2>6. index \in [Threads -> Nat] /\ \A t \in Threads : index[t] \in DOMAIN program.calls[t]
    BY <2>4 DEF Init
  <2>7. ticket \in [Threads -> Nat] /\ plan \in [Threads -> Plans] /\ buffer \in [Threads -> Buffers]
    BY <2>2, <2>3 DEF Init, NoTicket
  <2>8. ok \in [Threads -> BOOLEAN]
    BY Zenon DEF Init
  <2>. QED BY <1>1, <2>5, <2>6, <2>7, <2>8 DEF ThreadTypes
<1>3. StreamTypes
  BY DEF Init, StreamTypes
<1>4. SyncTypes
  <2>1. sequence \in [Contexts -> Nat]
    BY DEF Init
  <2>2. lock \in [Contexts -> BOOLEAN]
    BY Zenon DEF Init
  <2>. QED BY <2>1, <2>2 DEF SyncTypes
<1>5. FeedbackTypes
  <2>1. program.alpha \in Shares /\ program.algorithm \in AlgoKinds
    <3>1. program.algorithm \in AlgoKinds /\ program.alpha \in Int
      BY <1>1, CollectiveAssumption DEF AlgoKinds
    <3>2. SharesGiven => program.alpha \in 0 .. 1000
      BY <1>1 DEF SharesGiven
    <3>. HIDE DEF SharesGiven
    <3>. QED BY <3>1, <3>2 DEF Shares
  <2>2. \A n \in Nat : NewAlgo(program.algorithm, program.alpha, n) \in Algos
    BY <2>1 DEF NewAlgo, Algos
  <2>3. algo \in [OpKeys -> Algos]
    BY <2>2 DEF Init
  <2>4. 500 \in Shares
    BY DEF Shares
  <2>5. Unknown \in Params
    <3>1. Unknown = [cached |-> FALSE, alpha |-> 500, use_pcie |-> TRUE]
      BY DEF Unknown
    <3>2. FALSE \in BOOLEAN /\ TRUE \in BOOLEAN
      OBVIOUS
    <3>. QED BY <2>4, <3>1, <3>2, Zenon DEF Params
  <2>6. [Unknown EXCEPT !.cached = TRUE, !.alpha = program.alpha] \in Params
    <3>. DEFINE first == [Unknown EXCEPT !.cached = TRUE]
                a     == program.alpha
    <3>1. TRUE \in BOOLEAN
      OBVIOUS
    <3>2. first \in Params
      BY <2>5, <3>1, Zenon DEF Params
    <3>. HIDE DEF first
    <3>3. a \in Shares
      BY <2>1
    <3>. HIDE DEF a
    <3>4. [first EXCEPT !.alpha = a] \in Params
      BY <3>2, <3>3, Zenon DEF Params
    <3>. QED BY <3>4 DEF first, a
  <2>7. param \in [OpKeys -> Params]
    <3>. DEFINE v == IF program.warm THEN [Unknown EXCEPT !.cached = TRUE, !.alpha = program.alpha] ELSE Unknown
    <3>1. v \in Params
      BY <2>5, <2>6
    <3>2. param = [k \in OpKeys |-> v]
      BY DEF Init
    <3>. HIDE DEF v
    <3>. QED BY <3>1, <3>2
  <2>. QED BY <2>3, <2>7 DEF FeedbackTypes
<1>. QED BY <1>2, <1>3, <1>4, <1>5 DEF Types

(* Only the start of a call makes a plan, and only the end of one goes on  *)
(* to the next.                                                            *)
LEMMA HostOK ==
  ASSUME Types, NEW t \in Threads, HostNext(t)
  PROVE  /\ Types' /\ HostShape(t)
         /\ \/ index' = index /\ plan' = [plan EXCEPT ![t] = LaunchPlan(Current(t))]
            \/ index' = index /\ plan' = plan /\ ~at(t, "call")
            \/ plan' = plan /\ todo' = [todo EXCEPT ![t] = <<"call">>]
<1>1. CASE StartCall(t)
  BY <1>1, StartCallOK
<1>2. CASE QueueStep(t)
  BY <1>2, QueueStepOK DEF QueueStep, EnqueueInputReady, EnqueueInputWait, SynchronizeUser, Pack, FastPart,
                           EnqueueWrite, EnqueueWait, WaitEventOnStream, SyncPcieStream, EnqueueCallback, at
<1>3. CASE Allocate(t)
  BY <1>3, AllocateOK DEF Allocate, at
<1>4. CASE BeginValueSync(t) \/ NoValueSync(t)
  BY <1>4, BeginOK DEF BeginValueSync, NoValueSync, at
<1>5. CASE SynchronizeFails(t) \/ PciePart(t)
  BY <1>5, SubmissionOK DEF SynchronizeFails, PciePart, at
<1>6. CASE Merge(t)
  BY <1>6, MergeOK DEF Merge, at
<1>7. CASE RegisterPending(t) \/ AttachTimers(t)
  BY <1>7, RecordOK DEF RegisterPending, AttachTimers, at
<1>8. CASE Return(t)
  BY <1>8, ReturnOK DEF Return, at
<1>. QED BY <1>1, <1>2, <1>3, <1>4, <1>5, <1>6, <1>7, <1>8 DEF HostNext, QueueStep

(* No step of the device touches a thread or its plan. *)
LEMMA DeviceOK ==
  ASSUME Types, NEW s \in Streams, DeviceNext(s)
  PROVE  Types' /\ UNCHANGED <<program, todo, index, plan>>
BY DeviceWorkOK, CompletionOK DEF DeviceNext, DeviceWork

(* Nothing changes where nothing happens. *)
LEMMA StutterOK ==
  ASSUME Types, UNCHANGED vars
  PROVE  Types' /\ UNCHANGED <<program, todo, index, plan>>
<1>1. /\ UNCHANGED <<program, todo, index, ticket, plan, ok, buffer, stream, pending, algo, param, lock, sequence>>
  BY DEF vars, host, sync, feedback
<1>2. SameProgram
  BY <1>1, ProgramStays
<1>. QED BY <1>1, <1>2 DEF Types, ThreadTypes, StreamTypes, SyncTypes, FeedbackTypes, SameProgram

-----------------------------------------------------------------------------
(* Planner::CreatePlan divides every message exactly *)

(* The sizes of the programs are divisible: either the least chunk is at   *)
(* least 127 bytes (AMPCCL_MIN_CHUNK_SIZE is 4096 if it is not set), or    *)
(* every message is a multiple of 128 bytes.                               *)
SizesDivisible ==
  \A p \in Programs : \A t \in DOMAIN p.calls : \A i \in DOMAIN p.calls[t] : Divisible(p.calls[t][i].bytes)

ExactOf(t) ==
  ~at(t, "call") /\ plan[t].use_pcie =>
    plan[t].fast + plan[t].pcie = Call(Current(t)).bytes /\ plan[t].fast % 128 = 0

(* A step of one thread leaves the plan of every thread exact: only        *)
(* PrepareCollectiveLaunch makes one, through CreatePlan.                  *)
LEMMA PlanOfThread ==
  ASSUME Types, Types', NEW t \in Threads, NEW q \in Threads, HostShape(t), HostNext(t), SizesDivisible, ExactOf(q)
  PROVE  ExactOf(q)'
<1>1. ThreadTypes /\ FeedbackTypes /\ program' = program
  BY DEF Types, HostShape
<1>2. CASE q # t
  <2>1. todo'[q] = todo[q] /\ index'[q] = index[q] /\ plan'[q] = plan[q]
    BY <1>1, <1>2 DEF HostShape, ThreadTypes
  <2>. QED BY <1>1, <2>1 DEF ExactOf, at, Call, Current
<1>3. CASE q = t /\ index' = index /\ plan' = [plan EXCEPT ![t] = LaunchPlan(Current(t))]
  <2>1. plan'[t] = LaunchPlan(Current(t)) /\ Call(Current(t))' = Call(Current(t)) /\ Current(t) \in Colls
    BY <1>1, <1>3, CurrentFacts DEF ThreadTypes, Call, Current
  <2>2. Divisible(Call(Current(t)).bytes)
    BY <1>1, <2>1, CollFacts DEF SizesDivisible, Call, ThreadTypes, Threads
  <2>3. LaunchPlan(Current(t)).use_pcie =>
          /\ LaunchPlan(Current(t)).fast + LaunchPlan(Current(t)).pcie = Call(Current(t)).bytes
          /\ LaunchPlan(Current(t)).fast % 128 = 0
    BY <1>1, <2>1, <2>2, LaunchPlanFacts
  <2>. QED BY <1>3, <2>1, <2>3 DEF ExactOf
<1>4. CASE q = t /\ index' = index /\ plan' = plan /\ ~at(t, "call")
  <2>1. plan'[t] = plan[t] /\ Call(Current(t))' = Call(Current(t))
    BY <1>1, <1>4 DEF Call, Current
  <2>. QED BY <1>4, <2>1 DEF ExactOf
<1>5. CASE q = t /\ todo' = [todo EXCEPT ![t] = <<"call">>]
  <2>1. todo'[t] = <<"call">>
    BY <1>1, <1>5 DEF ThreadTypes
  <2>. QED BY <1>5, <2>1 DEF ExactOf, at
<1>. QED BY <1>2, <1>3, <1>4, <1>5, HostOK

(* The two parts of a plan that uses PCIe are the whole message, without   *)
(* loss, overlap or excess, and the second begins at a place that both     *)
(* libraries accept, whatever shares the controllers reach from whatever   *)
(* times (planner.h, CreatePlan).                                          *)
THEOREM PlanIsExact ==
  ASSUME SizesDivisible
  PROVE  Spec => []PlanExact
<1>. DEFINE Exact == \A t \in Threads : ExactOf(t)
<1>1. Init => Types /\ Exact
  <2>. SUFFICES ASSUME Init PROVE Types /\ Exact
    OBVIOUS
  <2>1. \A t \in Threads : at(t, "call")
    BY DEF Init, at
  <2>. QED BY <2>1, InitOK DEF ExactOf
<1>2. Types /\ Exact /\ [Next]_vars => Types' /\ Exact'
  <2>. SUFFICES ASSUME Types, Exact, [Next]_vars PROVE Types' /\ Exact'
    OBVIOUS
  <2>1. ASSUME NEW t \in Threads, HostNext(t)
        PROVE  Types' /\ Exact'
    <3>1. Types' /\ HostShape(t)
      BY <2>1, HostOK
    <3>2. Threads' = Threads
      BY <3>1 DEF HostShape, Threads
    <3>3. \A q \in Threads : ExactOf(q)'
      BY <2>1, <3>1, PlanOfThread
    <3>. QED BY <3>1, <3>2, <3>3
  <2>2. ASSUME Types', UNCHANGED <<program, todo, index, plan>>
        PROVE  Types' /\ Exact'
    BY <2>2 DEF ExactOf, at, Call, Current, Threads
  <2>3. ASSUME NEW s \in Streams, DeviceNext(s)
        PROVE  Types' /\ Exact'
    BY <2>2, <2>3, DeviceOK
  <2>4. CASE UNCHANGED vars
    BY <2>2, <2>4, StutterOK
  <2>. QED BY <2>1, <2>3, <2>4 DEF Next, Work
<1>3. Types /\ Exact => PlanExact
  BY DEF ExactOf, PlanExact
<1>. QED BY <1>1, <1>2, <1>3, PTL DEF Spec

-----------------------------------------------------------------------------
(* The order of the steps in a collective *)

Has(w, step) == \E i \in 1 .. Len(w) : w[i] = step

(* The steps that order the two streams, by the place they have in every   *)
(* virtual collective                                                      *)
Rank(step) ==
  CASE step = "begin" -> 1
    [] step = "input" -> 2
    [] step \in {"input_wait", "sync_user"} -> 3
    [] step = "pcie" -> 4
    [] step \in {"write_done", "event"} -> 5
    [] step = "wait_done" -> 6
    [] step = "return" -> 7
    [] OTHER -> 0

Ranked(w) ==
  \A i, j \in 1 .. Len(w) : i < j /\ Rank(w[i]) # 0 /\ Rank(w[j]) # 0 => Rank(w[i]) < Rank(w[j])
Paired(w) ==
  \A i \in 1 .. Len(w) : w[i] = "input" => i + 1 \in 1 .. Len(w) /\ w[i + 1] = "input_wait"
InOrder(w) == Ranked(w) /\ Paired(w)

(* Steps in between, and the steps whose presence in a script matters *)
Unranked(w) == \A i \in 1 .. Len(w) : Rank(w[i]) = 0 /\ w[i] # "call"
Landmarks   == {"input", "input_wait", "pcie", "call", "return"}

(* The ranks of the steps, one by one. *)
LEMMA RankValues ==
  /\ Rank("begin") = 1 /\ Rank("input") = 2 /\ Rank("input_wait") = 3 /\ Rank("sync_user") = 3 /\ Rank("pcie") = 4
  /\ Rank("write_done") = 5 /\ Rank("event") = 5 /\ Rank("wait_done") = 6 /\ Rank("return") = 7
  /\ \A step \in StepNames : Rank(step) \in 0 .. 7 /\ (Rank(step) = 7 => step = "return")
  /\ \A step \in {"call", "alloc", "pack", "fast", "sync_pcie", "merge", "register", "attach",
                  "callback"} : Rank(step) = 0
BY DEF Rank

(* A sequence of steps that order nothing is in order. *)
LEMMA UnrankedFacts ==
  ASSUME NEW w \in Seq(StepNames), Unranked(w)
  PROVE  InOrder(w) /\ \A step \in Landmarks : ~Has(w, step)
<1>1. InOrder(w)
  BY RankValues DEF InOrder, Ranked, Paired, Unranked
<1>2. ASSUME NEW step \in Landmarks, Has(w, step) PROVE FALSE
  <2>1. PICK i \in 1 .. Len(w) : w[i] = step
    BY <1>2 DEF Has
  <2>2. Rank(step) = 0 /\ step # "call"
    BY <2>1 DEF Unranked
  <2>. QED BY <2>2, RankValues DEF Landmarks
<1>. QED BY <1>1, <1>2

(* A step is taken off. *)
LEMMA TailInOrder ==
  ASSUME NEW w \in Seq(StepNames), w # <<>>, InOrder(w)
  PROVE  /\ InOrder(Tail(w)) /\ Tail(w) \in Seq(StepNames)
         /\ \A step : Has(Tail(w), step) => Has(w, step)
         /\ \A step : Has(w, step) /\ step # Head(w) => Has(Tail(w), step)
         /\ \A step : Has(Tail(w), step) /\ Rank(Head(w)) # 0 /\ Rank(step) # 0 => Rank(Head(w)) < Rank(step)
<1>1. /\ Len(Tail(w)) = Len(w) - 1 /\ Len(w) \in Nat \ {0} /\ Head(w) = w[1]
      /\ \A i \in 1 .. Len(w) - 1 : Tail(w)[i] = w[i + 1]
      /\ Tail(w) \in Seq(StepNames)
  OBVIOUS
<1>. DEFINE v == Tail(w)
            n == Len(w)
<1>. HIDE DEF v, n
<1>2. Ranked(v)
  BY <1>1 DEF InOrder, Ranked, v, n
<1>3. Paired(v)
  BY <1>1 DEF InOrder, Paired, v, n
<1>4. ASSUME NEW step, Has(v, step) PROVE Has(w, step)
  BY <1>1, <1>4 DEF Has, v, n
<1>5. ASSUME NEW step, Has(w, step), step # Head(w) PROVE Has(v, step)
  <2>1. PICK i \in 1 .. Len(w) : w[i] = step
    BY <1>5 DEF Has
  <2>2. i # 1 /\ i - 1 \in 1 .. Len(w) - 1
    BY <1>1, <1>5, <2>1
  <2>3. v[i - 1] = step
    BY <1>1, <2>1, <2>2 DEF v
  <2>. QED BY <1>1, <2>2, <2>3 DEF Has, v
<1>6. ASSUME NEW step, Has(v, step), Rank(w[1]) # 0, Rank(step) # 0 PROVE Rank(w[1]) < Rank(step)
  <2>1. PICK i \in 1 .. Len(v) : v[i] = step
    BY <1>6 DEF Has
  <2>2. i + 1 \in 1 .. Len(w) /\ 1 \in 1 .. Len(w) /\ 1 < i + 1 /\ w[i + 1] = step
    BY <1>1, <2>1 DEF v
  <2>. QED BY <1>6, <2>2 DEF InOrder, Ranked
<1>. QED BY <1>1, <1>2, <1>3, <1>4, <1>5, <1>6 DEF InOrder, v

(* Two parts one after the other, the first without steps beyond the n-th  *)
(* rank, the second without those up to it.                                *)
LEMMA JoinInOrder ==
  ASSUME NEW u \in Seq(StepNames), NEW v \in Seq(StepNames), InOrder(u), InOrder(v), NEW n \in 0 .. 7,
         \A i \in 1 .. Len(u) : Rank(u[i]) <= n,
         \A i \in 1 .. Len(v) : Rank(v[i]) = 0 \/ Rank(v[i]) > n
  PROVE  /\ InOrder(u \o v) /\ u \o v \in Seq(StepNames)
         /\ \A step : Has(u \o v, step) <=> Has(u, step) \/ Has(v, step)
<1>. DEFINE w == u \o v
            a == Len(u)
            b == Len(v)
<1>1. /\ w \in Seq(StepNames) /\ Len(w) = a + b /\ a \in Nat /\ b \in Nat
      /\ \A i \in 1 .. a + b : w[i] = IF i <= a THEN u[i] ELSE v[i - a]
  BY ConcatProperties
<1>2. \A i \in 1 .. a : u[i] \in StepNames /\ w[i] = u[i]
  BY <1>1
<1>3. \A i \in 1 .. b : v[i] \in StepNames /\ w[a + i] = v[i]
  BY <1>1
<1>. HIDE DEF w, a, b
<1>4. Ranked(w)
  <2>. SUFFICES ASSUME NEW i \in 1 .. Len(w), NEW j \in 1 .. Len(w), i < j, Rank(w[i]) # 0, Rank(w[j]) # 0
                PROVE  Rank(w[i]) < Rank(w[j])
    BY DEF Ranked
  <2>1. CASE j <= a
    BY <1>1, <1>2, <2>1 DEF InOrder, Ranked, a
  <2>2. CASE i > a
    <3>1. i - a \in 1 .. b /\ j - a \in 1 .. b /\ i - a < j - a
      BY <1>1, <2>2
    <3>2. w[i] = v[i - a] /\ w[j] = v[j - a]
      BY <1>1, <2>2
    <3>. QED BY <3>1, <3>2 DEF InOrder, Ranked, b
  <2>3. CASE i <= a /\ j > a
    <3>1. i \in 1 .. a /\ j - a \in 1 .. b /\ w[i] = u[i] /\ w[j] = v[j - a]
      BY <1>1, <2>3
    <3>2. Rank(u[i]) \in 0 .. 7 /\ Rank(v[j - a]) \in 0 .. 7
      BY <1>2, <1>3, <3>1, RankValues
    <3>3. Rank(u[i]) <= n /\ Rank(v[j - a]) > n
      BY <3>1 DEF a, b
    <3>. DEFINE x == Rank(u[i])
                y == Rank(v[j - a])
    <3>4. x \in Int /\ y \in Int /\ n \in Int /\ x <= n /\ y > n
      BY <3>2, <3>3
    <3>. HIDE DEF x, y
    <3>5. x < y
      BY <3>4
    <3>. QED BY <3>1, <3>5 DEF x, y
  <2>. QED BY <1>1, <2>1, <2>2, <2>3
<1>5. Paired(w)
  <2>. SUFFICES ASSUME NEW i \in 1 .. Len(w), w[i] = "input"
                PROVE  i + 1 \in 1 .. Len(w) /\ w[i + 1] = "input_wait"
    BY DEF Paired
  <2>1. CASE i <= a
    <3>1. i + 1 \in 1 .. a /\ u[i + 1] = "input_wait"
      BY <1>1, <1>2, <2>1 DEF InOrder, Paired, a
    <3>. QED BY <1>1, <1>2, <3>1
  <2>2. CASE i > a
    <3>1. i - a \in 1 .. b /\ v[i - a] = "input"
      BY <1>1, <2>2
    <3>2. (i - a) + 1 \in 1 .. b /\ v[(i - a) + 1] = "input_wait"
      BY <3>1 DEF InOrder, Paired, b
    <3>3. a + ((i - a) + 1) = i + 1
      BY <1>1
    <3>. QED BY <1>1, <1>3, <3>2, <3>3
  <2>. QED BY <1>1, <2>1, <2>2
<1>6. ASSUME NEW step PROVE Has(w, step) <=> Has(u, step) \/ Has(v, step)
  <2>1. ASSUME Has(w, step) PROVE Has(u, step) \/ Has(v, step)
    <3>1. PICK i \in 1 .. Len(w) : w[i] = step
      BY <2>1 DEF Has
    <3>2. CASE i <= a
      BY <1>1, <1>2, <3>1, <3>2 DEF Has, a
    <3>3. CASE i > a
      BY <1>1, <3>1, <3>3 DEF Has, b
    <3>. QED BY <1>1, <3>2, <3>3
  <2>2. ASSUME Has(u, step) PROVE Has(w, step)
    BY <1>1, <1>2, <2>2 DEF Has, a
  <2>3. ASSUME Has(v, step) PROVE Has(w, step)
    <3>1. PICK i \in 1 .. b : v[i] = step
      BY <2>3 DEF Has, b
    <3>2. a + i \in 1 .. Len(w) /\ w[a + i] = step
      BY <1>1, <1>3, <3>1
    <3>. QED BY <3>2 DEF Has
  <2>. QED BY <2>1, <2>2, <2>3
<1>. QED BY <1>1, <1>4, <1>5, <1>6 DEF InOrder, w

(* Steps that order nothing, behind those that do *)
LEMMA JoinUnranked ==
  ASSUME NEW u \in Seq(StepNames), NEW v \in Seq(StepNames), InOrder(u), Unranked(v)
  PROVE  /\ InOrder(u \o v) /\ u \o v \in Seq(StepNames)
         /\ \A step \in Landmarks : Has(u \o v, step) <=> Has(u, step)
<1>1. \A i \in 1 .. Len(u) : Rank(u[i]) <= 7
  BY RankValues
<1>2. \A i \in 1 .. Len(v) : Rank(v[i]) = 0 \/ Rank(v[i]) > 7
  BY DEF Unranked
<1>3. InOrder(v) /\ \A step \in Landmarks : ~Has(v, step)
  BY UnrankedFacts
<1>. QED BY <1>1, <1>2, <1>3, JoinInOrder

(* The beginning of a split collective, up to the submission to PCIe, then *)
(* what ends it (PcieCompleteOnUserStreamIfNeeded), then the rest          *)
LEMMA JoinFinish ==
  ASSUME NEW u \in Seq(StepNames), InOrder(u), \A i \in 1 .. Len(u) : Rank(u[i]) <= 4
  PROVE  /\ InOrder(u \o Finish) /\ u \o Finish \in Seq(StepNames)
         /\ \A step \in Landmarks : Has(u \o Finish, step) <=> Has(u, step)
<1>1. Finish \in Seq(StepNames) /\ Len(Finish) = 3
  BY DEF Finish, StepNames
<1>2. Finish[1] = "write_done" /\ Finish[2] = "wait_done" /\ Finish[3] = "sync_pcie"
  BY DEF Finish
<1>3. Rank(Finish[1]) = 5 /\ Rank(Finish[2]) = 6 /\ Rank(Finish[3]) = 0
  BY <1>2, RankValues
<1>. DEFINE f == Finish
<1>. HIDE DEF f
<1>4. \A i \in 1 .. Len(f) : i \in {1, 2, 3}
  BY <1>1 DEF f
<1>5. InOrder(f)
  BY <1>1, <1>2, <1>3, <1>4 DEF InOrder, Ranked, Paired, f
<1>6. \A step \in Landmarks : ~Has(f, step)
  BY <1>2, <1>4 DEF Has, f, Landmarks
<1>7. \A i \in 1 .. Len(f) : Rank(f[i]) = 0 \/ Rank(f[i]) > 4
  BY <1>3, <1>4 DEF f
<1>8. f \in Seq(StepNames)
  BY <1>1 DEF f
<1>. QED BY <1>5, <1>6, <1>7, <1>8, JoinInOrder, SMTT(30) DEF f

(* The end of a collective, the merge and the collectives that do not use  *)
(* PCIe order nothing.                                                     *)
LEMMA NotifyFacts ==
  /\ Notify \in Seq(StepNames) /\ Unranked(Notify)
  /\ <<"merge">> \in Seq(StepNames) /\ Unranked(<<"merge">>)
  /\ FastOnly \in Seq(StepNames) /\ Unranked(FastOnly)
  /\ <<"fast">> \o Notify \in Seq(StepNames) /\ Unranked(<<"fast">> \o Notify)
<1>1. \A w \in Seq({"fast", "merge", "register", "attach", "callback"}) :
        w \in Seq(StepNames) /\ Unranked(w)
  <2>. TAKE w \in Seq({"fast", "merge", "register", "attach", "callback"})
  <2>1. \A i \in 1 .. Len(w) : w[i] \in {"fast", "merge", "register", "attach", "callback"}
    OBVIOUS
  <2>2. Unranked(w)
    BY <2>1, RankValues DEF Unranked
  <2>3. {"fast", "merge", "register", "attach", "callback"} \subseteq StepNames
    BY DEF StepNames
  <2>4. w \in Seq(StepNames)
    <3>1. \A i \in 1 .. Len(w) : w[i] \in StepNames
      BY <2>1, <2>3
    <3>. QED BY <3>1
  <2>. QED BY <2>2, <2>4
<1>. DEFINE S == {"fast", "merge", "register", "attach", "callback"}
<1>2. Notify \in Seq(S) /\ <<"merge">> \in Seq(S) /\ <<"fast">> \in Seq(S)
  BY DEF Notify
<1>. HIDE DEF S
<1>3. <<"fast">> \o Notify \in Seq(S)
  BY <1>2
<1>4. FastOnly \in Seq(S)
  BY <1>2, <1>3 DEF FastOnly
<1>. QED BY <1>1, <1>2, <1>3, <1>4 DEF S

(* What every collective does about its input: it asks for a wait only     *)
(* after publishing, and all but AllToAll wait before they use PCIe.       *)
Publishes(w) == InOrder(w) /\ ~Has(w, "call") /\ (Has(w, "input_wait") => Has(w, "input"))
Waits(w)     == Publishes(w) /\ (Has(w, "pcie") => Has(w, "input_wait"))

(* A literal beginning of a script *)
LEMMA StartFacts ==
  /\ \A u \in {<<"begin", "input", "input_wait", "fast", "pcie">>, <<"begin", "input", "input_wait", "pcie">>,
               <<"alloc", "begin", "input", "input_wait", "fast", "pcie">>,
               <<"alloc", "begin", "input", "input_wait", "pack", "fast", "pcie">>} :
       u \in Seq(StepNames) /\ Waits(u) /\ \A i \in 1 .. Len(u) : Rank(u[i]) <= 4
  /\ \A u \in {<<"begin", "pcie">>, <<"fast", "begin", "pcie">>, <<"alloc", "pack", "fast", "begin", "pcie">>} :
       u \in Seq(StepNames) /\ Publishes(u) /\ \A i \in 1 .. Len(u) : Rank(u[i]) <= 4
<1>1. ASSUME NEW u, u = <<"begin", "input", "input_wait", "fast", "pcie">>
      PROVE  u \in Seq(StepNames) /\ Waits(u) /\ \A i \in 1 .. Len(u) : Rank(u[i]) <= 4
  BY <1>1 DEF StepNames, Waits, Publishes, InOrder, Ranked, Paired, Has, Rank
<1>2. ASSUME NEW u, u = <<"begin", "input", "input_wait", "pcie">>
      PROVE  u \in Seq(StepNames) /\ Waits(u) /\ \A i \in 1 .. Len(u) : Rank(u[i]) <= 4
  BY <1>2 DEF StepNames, Waits, Publishes, InOrder, Ranked, Paired, Has, Rank
<1>3. ASSUME NEW u, u = <<"alloc", "begin", "input", "input_wait", "fast", "pcie">>
      PROVE  u \in Seq(StepNames) /\ Waits(u) /\ \A i \in 1 .. Len(u) : Rank(u[i]) <= 4
  BY <1>3 DEF StepNames, Waits, Publishes, InOrder, Ranked, Paired, Has, Rank
<1>4. ASSUME NEW u, u = <<"alloc", "begin", "input", "input_wait", "pack", "fast", "pcie">>
      PROVE  u \in Seq(StepNames) /\ Waits(u) /\ \A i \in 1 .. Len(u) : Rank(u[i]) <= 4
  BY <1>4 DEF StepNames, Waits, Publishes, InOrder, Ranked, Paired, Has, Rank
<1>5. ASSUME NEW u, u = <<"begin", "pcie">>
      PROVE  u \in Seq(StepNames) /\ Publishes(u) /\ \A i \in 1 .. Len(u) : Rank(u[i]) <= 4
  BY <1>5 DEF StepNames, Publishes, InOrder, Ranked, Paired, Has, Rank
<1>7. ASSUME NEW u, u = <<"fast", "begin", "pcie">>
      PROVE  u \in Seq(StepNames) /\ Publishes(u) /\ \A i \in 1 .. Len(u) : Rank(u[i]) <= 4
  BY <1>7 DEF StepNames, Publishes, InOrder, Ranked, Paired, Has, Rank
<1>6. ASSUME NEW u, u = <<"alloc", "pack", "fast", "begin", "pcie">>
      PROVE  u \in Seq(StepNames) /\ Publishes(u) /\ \A i \in 1 .. Len(u) : Rank(u[i]) <= 4
  BY <1>6 DEF StepNames, Publishes, InOrder, Ranked, Paired, Has, Rank
<1>. QED BY <1>1, <1>2, <1>3, <1>4, <1>5, <1>6, <1>7

(* The copies out of a staging buffer and the return, behind the rest *)
LEMMA JoinOne ==
  ASSUME NEW u \in Seq(StepNames), InOrder(u), ~Has(u, "return")
  PROVE  /\ InOrder(u \o <<"merge">>) /\ u \o <<"merge">> \in Seq(StepNames)
         /\ \A step \in Landmarks : Has(u \o <<"merge">>, step) <=> Has(u, step)
         /\ InOrder(u \o <<"return">>) /\ u \o <<"return">> \in Seq(StepNames)
         /\ \A step \in Landmarks \ {"return"} : Has(u \o <<"return">>, step) <=> Has(u, step)
<1>. DEFINE m == <<"merge">>
            r == <<"return">>
<1>1. m \in Seq(StepNames) /\ Unranked(m)
  BY NotifyFacts
<1>2. r \in Seq(StepNames) /\ Len(r) = 1 /\ r[1] = "return"
  BY DEF StepNames
<1>. HIDE DEF m, r
<1>3. InOrder(u \o m) /\ u \o m \in Seq(StepNames) /\ \A step \in Landmarks : Has(u \o m, step) <=> Has(u, step)
  BY <1>1, JoinUnranked
<1>4. InOrder(r) /\ \A step \in Landmarks \ {"return"} : ~Has(r, step)
  BY <1>2 DEF InOrder, Ranked, Paired, Has
<1>5. \A i \in 1 .. Len(u) : Rank(u[i]) <= 6
  <2>. TAKE i \in 1 .. Len(u)
  <2>1. u[i] \in StepNames /\ u[i] # "return"
    BY DEF Has
  <2>. QED BY <2>1, RankValues
<1>6. \A i \in 1 .. Len(r) : Rank(r[i]) = 0 \/ Rank(r[i]) > 6
  BY <1>2, RankValues
<1>7. InOrder(u \o r) /\ u \o r \in Seq(StepNames) /\ \A step : Has(u \o r, step) <=> Has(u, step) \/ Has(r, step)
  <2>1. PICK n \in 0 .. 7 : n = 6
    OBVIOUS
  <2>. QED BY <1>2, <1>4, <1>5, <1>6, <2>1, JoinInOrder
<1>. QED BY <1>3, <1>4, <1>7 DEF m, r

(* The script of a failed allocation is short. *)
LEMMA ShortScripts ==
  \A w \in {<<"fast">> \o Notify \o <<"return">>, <<"return">>} :
    w \in Seq(StepNames) /\ InOrder(w) /\ \A step \in Landmarks \ {"return"} : ~Has(w, step)
<1>1. ASSUME NEW w, w = <<"fast">> \o Notify \o <<"return">>
      PROVE  w \in Seq(StepNames) /\ InOrder(w) /\ \A step \in Landmarks \ {"return"} : ~Has(w, step)
  <2>. DEFINE u == <<"fast">> \o Notify
  <2>1. u \in Seq(StepNames) /\ Unranked(u)
    BY NotifyFacts
  <2>2. w = u \o <<"return">>
    BY <1>1
  <2>. HIDE DEF u
  <2>3. InOrder(u) /\ \A step \in Landmarks : ~Has(u, step)
    BY <2>1, UnrankedFacts
  <2>4. "return" \in Landmarks
    BY DEF Landmarks
  <2>. QED BY <2>1, <2>2, <2>3, <2>4, JoinOne
<1>2. ASSUME NEW w, w = <<"return">>
      PROVE  w \in Seq(StepNames) /\ InOrder(w) /\ \A step \in Landmarks \ {"return"} : ~Has(w, step)
  <2>1. w \in Seq(StepNames) /\ Len(w) = 1 /\ w[1] = "return"
    BY <1>2 DEF StepNames
  <2>. QED BY <2>1 DEF InOrder, Ranked, Paired, Has
<1>. QED BY <1>1, <1>2

(* Every virtual collective is in order and publishes before it waits, and *)
(* all but AllToAll wait before they submit to PCIe.                       *)
LEMMA ScriptInOrder ==
  ASSUME NEW op \in {"AllReduce", "AllGather", "ReduceScatter", "AllToAll"}, NEW p
  PROVE  LET w == StepsOf(op, p) \o <<"return">>
         IN Publishes(w) /\ (op # "AllToAll" => Waits(w))
<1>0. Landmarks = {"input", "input_wait", "pcie", "call", "return"}
  BY DEF Landmarks
<1>1. ASSUME NEW u \in Seq(StepNames), InOrder(u), ~Has(u, "call"), \A i \in 1 .. Len(u) : Rank(u[i]) <= 4
      PROVE  \A w \in {u \o Finish \o Notify \o <<"return">>, u \o Finish \o <<"merge">> \o Notify \o <<"return">>} :
               InOrder(w) /\ \A step \in Landmarks \ {"return"} : Has(w, step) <=> Has(u, step)
  <2>. DEFINE f == u \o Finish
              g == f \o <<"merge">>
  <2>1. InOrder(f) /\ f \in Seq(StepNames) /\ \A step \in Landmarks : Has(f, step) <=> Has(u, step)
    BY <1>1, JoinFinish
  <2>. HIDE DEF f
  <2>2. ~Has(u, "return")
    BY <1>1, RankValues DEF Has
  <2>3. ~Has(f, "return")
    BY <1>0, <2>1, <2>2
  <2>4. InOrder(g) /\ g \in Seq(StepNames) /\ \A step \in Landmarks : Has(g, step) <=> Has(u, step)
    BY <2>1, <2>3, JoinOne
  <2>. HIDE DEF g
  <2>5. ASSUME NEW h \in Seq(StepNames), InOrder(h), \A step \in Landmarks : Has(h, step) <=> Has(u, step)
        PROVE  /\ InOrder(h \o Notify \o <<"return">>)
               /\ \A step \in Landmarks \ {"return"} : Has(h \o Notify \o <<"return">>, step) <=> Has(u, step)
    <3>. DEFINE x == h \o Notify
    <3>1. InOrder(x) /\ x \in Seq(StepNames) /\ \A step \in Landmarks : Has(x, step) <=> Has(u, step)
      BY <2>5, JoinUnranked, NotifyFacts
    <3>. HIDE DEF x
    <3>2. ~Has(x, "return")
      BY <1>0, <2>2, <3>1
    <3>. DEFINE y == x \o <<"return">>
    <3>3. InOrder(y) /\ \A step \in Landmarks \ {"return"} : Has(y, step) <=> Has(x, step)
      BY <3>1, <3>2, JoinOne
    <3>. HIDE DEF y
    <3>4. InOrder(y) /\ \A step \in Landmarks \ {"return"} : Has(y, step) <=> Has(u, step)
      BY <3>1, <3>3
    <3>. QED BY <3>4 DEF x, y
  <2>. DEFINE w1 == f \o Notify \o <<"return">>
              w2 == g \o Notify \o <<"return">>
  <2>6. InOrder(w1) /\ \A step \in Landmarks \ {"return"} : Has(w1, step) <=> Has(u, step)
    BY <2>1, <2>5
  <2>7. InOrder(w2) /\ \A step \in Landmarks \ {"return"} : Has(w2, step) <=> Has(u, step)
    BY <2>4, <2>5
  <2>8. u \o Finish \o Notify \o <<"return">> = w1 /\ u \o Finish \o <<"merge">> \o Notify \o <<"return">> = w2
    BY DEF f, g
  <2>. HIDE DEF w1, w2
  <2>. QED BY <2>6, <2>7, <2>8
<1>2. ASSUME NEW u \in Seq(StepNames), Publishes(u), \A i \in 1 .. Len(u) : Rank(u[i]) <= 4
      PROVE  \A w \in {u \o Finish \o Notify \o <<"return">>, u \o Finish \o <<"merge">> \o Notify \o <<"return">>} :
               Publishes(w) /\ (Waits(u) => Waits(w))
  <2>. TAKE w \in {u \o Finish \o Notify \o <<"return">>, u \o Finish \o <<"merge">> \o Notify \o <<"return">>}
  <2>1. InOrder(w) /\ \A step \in Landmarks \ {"return"} : Has(w, step) <=> Has(u, step)
    BY <1>1, <1>2 DEF Publishes
  <2>. QED BY <1>0, <1>2, <2>1 DEF Publishes, Waits
<1>3. Waits(FastOnly \o <<"return">>)
  <2>1. FastOnly \in Seq(StepNames) /\ InOrder(FastOnly) /\ \A step \in Landmarks : ~Has(FastOnly, step)
    BY NotifyFacts, UnrankedFacts
  <2>. DEFINE w == FastOnly \o <<"return">>
  <2>2. InOrder(w) /\ \A step \in Landmarks \ {"return"} : ~Has(w, step)
    BY <1>0, <2>1, JoinOne
  <2>. HIDE DEF w
  <2>3. Waits(w)
    BY <1>0, <2>2 DEF Waits, Publishes
  <2>. QED BY <2>3 DEF w
<1>4. /\ Waits(SplitInPlace \o <<"return">>) /\ Waits(PcieOnly \o <<"return">>)
      /\ Waits(AllGatherStaged \o <<"return">>) /\ Waits(ReduceScatterStaged \o <<"return">>)
  BY <1>2, StartFacts DEF SplitInPlace, PcieOnly, AllGatherStaged, ReduceScatterStaged, Waits
<1>5. /\ Publishes(AllToAllPcie \o <<"return">>) /\ Publishes(AllToAllV \o <<"return">>)
      /\ Publishes(AllToAllStaged \o <<"return">>)
  BY <1>2, StartFacts DEF AllToAllPcie, AllToAllV, AllToAllStaged
<1>6. \/ StepsOf(op, p) = FastOnly
      \/ op # "AllToAll" /\ StepsOf(op, p) \in {SplitInPlace, PcieOnly, AllGatherStaged, ReduceScatterStaged}
      \/ StepsOf(op, p) \in {AllToAllPcie, AllToAllV, AllToAllStaged} /\ op = "AllToAll"
  BY DEF StepsOf, AllReduce, AllGather, ReduceScatter, AllToAll
<1>. QED BY <1>3, <1>4, <1>5, <1>6 DEF Waits

(* A fallback takes the place of the step that is refused, and of the next *)
(* one if that is void too.                                                *)
Fallback(w, step, n) ==
  \/ Head(w) = "input" /\ step = "sync_user" /\ n = 2
  \/ Head(w) = "input_wait" /\ step = "sync_user" /\ n = 1
  \/ Head(w) = "write_done" /\ step = "event" /\ n = 2
  \/ Head(w) = "wait_done" /\ step = "event" /\ n = 1

(* What a fallback leaves to do is in order: the host's wait for the       *)
(* stream comes before the PCIe part, and no token is left to queue or to  *)
(* await.                                                                  *)
LEMMA FallbackFacts ==
  ASSUME NEW w \in Seq(StepNames), w # <<>>, InOrder(w), NEW step, NEW n, Fallback(w, step, n)
  PROVE  LET v == <<step>> \o SubSeq(w, 1 + n, Len(w))
         IN /\ v \in Seq(StepNames) /\ InOrder(v) /\ ~Has(v, "input") /\ ~Has(v, "input_wait")
            /\ Has(v, "pcie") => Has(v, "sync_user")
            /\ Has(v, "call") => Has(w, "call")
<1>. DEFINE rest == SubSeq(w, 1 + n, Len(w))
            v == <<step>> \o rest
<1>1. n \in {1, 2} /\ Len(w) \in Nat \ {0} /\ Head(w) = w[1] /\ step \in {"sync_user", "event"}
  BY DEF Fallback
<1>2. /\ rest \in Seq(StepNames)
      /\ \A i \in 1 .. Len(rest) : i + n \in 1 .. Len(w) /\ rest[i] = w[i + n]
  BY <1>1
<1>3. Rank(step) \in 0 .. 7 /\ (step = "sync_user" => Rank(step) = 3) /\ (step = "event" => Rank(step) = 5)
  BY <1>1, RankValues
<1>. HIDE DEF rest
<1>4. \A i \in 1 .. Len(rest) : Rank(rest[i]) = 0 \/ Rank(rest[i]) > Rank(step)
  <2>. SUFFICES ASSUME NEW i \in 1 .. Len(rest), Rank(rest[i]) # 0
                PROVE  Rank(rest[i]) > Rank(step)
    OBVIOUS
  <2>1. i + n \in 1 .. Len(w) /\ Rank(w[i + n]) # 0 /\ rest[i] = w[i + n] /\ i + n > n
    BY <1>1, <1>2
  <2>2. CASE Head(w) = "input"
    <3>1. n = 2 /\ step = "sync_user" /\ 2 \in 1 .. Len(w) /\ w[2] = "input_wait"
      BY <1>1, <2>2 DEF Fallback, InOrder, Paired
    <3>2. Rank(w[2]) = 3 /\ 2 < i + n
      BY <2>1, <3>1, RankValues
    <3>3. Rank(w[2]) < Rank(w[i + n])
      BY <2>1, <3>1, <3>2 DEF InOrder, Ranked
    <3>. QED BY <1>3, <2>1, <3>1, <3>2, <3>3
  <2>3. CASE Head(w) \in {"input_wait", "write_done", "wait_done"}
    <3>1. Rank(w[1]) # 0 /\ 1 \in 1 .. Len(w) /\ 1 < i + n
      BY <1>1, <2>1, <2>3, RankValues
    <3>2. Rank(w[1]) < Rank(w[i + n])
      BY <2>1, <3>1 DEF InOrder, Ranked
    <3>3. Rank(step) <= Rank(w[1]) /\ Rank(step) \in Int /\ Rank(w[1]) \in Int
      BY <1>1, <1>3, <2>3, RankValues DEF Fallback
    <3>4. Rank(w[i + n]) \in Int
      BY <2>1, RankValues
    <3>. QED BY <2>1, <3>2, <3>3, <3>4
  <2>. QED BY <2>2, <2>3 DEF Fallback
<1>5. InOrder(rest)
  <2>1. Ranked(rest)
    <3>. SUFFICES ASSUME NEW i \in 1 .. Len(rest), NEW j \in 1 .. Len(rest), i < j, Rank(rest[i]) # 0, Rank(rest[j]) # 0
                  PROVE  Rank(rest[i]) < Rank(rest[j])
      BY DEF Ranked
    <3>1. i + n \in 1 .. Len(w) /\ j + n \in 1 .. Len(w) /\ i + n < j + n
      BY <1>1, <1>2
    <3>. QED BY <1>2, <3>1 DEF InOrder, Ranked
  <2>2. Paired(rest)
    <3>. SUFFICES ASSUME NEW i \in 1 .. Len(rest), rest[i] = "input"
                  PROVE  FALSE
      BY DEF Paired
    <3>. QED BY <1>1, <1>3, <1>4, RankValues
  <2>. QED BY <2>1, <2>2 DEF InOrder
<1>6. <<step>> \in Seq(StepNames) /\ InOrder(<<step>>) /\ \A i \in 1 .. Len(<<step>>) : Rank(<<step>>[i]) <= Rank(step)
  <2>. DEFINE u == <<step>>
  <2>1. u \in Seq(StepNames) /\ Len(u) = 1 /\ u[1] = step
    BY <1>1 DEF StepNames
  <2>2. step # "input"
    BY <1>1
  <2>. HIDE DEF u
  <2>3. InOrder(u)
    BY <2>1, <2>2 DEF InOrder, Ranked, Paired
  <2>4. \A i \in 1 .. Len(u) : Rank(u[i]) <= Rank(step)
    BY <1>3, <2>1
  <2>. QED BY <2>1, <2>3, <2>4 DEF u
<1>7. InOrder(v) /\ v \in Seq(StepNames) /\ \A x : Has(v, x) <=> Has(<<step>>, x) \/ Has(rest, x)
  BY <1>2, <1>3, <1>4, <1>5, <1>6, JoinInOrder
<1>8. \A x : Has(<<step>>, x) <=> x = step
  BY DEF Has
<1>9. \A x : Has(rest, x) => (Rank(x) = 0 \/ Rank(x) > Rank(step)) /\ Has(w, x)
  BY <1>2, <1>4 DEF Has
<1>. HIDE DEF v
<1>10. ~Has(v, "input") /\ ~Has(v, "input_wait")
  <2>1. ASSUME NEW x \in {"input", "input_wait"}, Has(v, x) PROVE FALSE
    <3>1. Rank(x) \in {2, 3} /\ x # step
      BY <1>1, RankValues
    <3>2. Has(rest, x)
      BY <1>7, <1>8, <2>1, <3>1
    <3>3. Rank(x) > Rank(step)
      BY <1>9, <3>1, <3>2
    <3>. QED BY <1>1, <1>3, <3>1, <3>3, RankValues
  <2>. QED BY <2>1
<1>11. Has(v, "pcie") => Has(v, "sync_user")
  <2>. SUFFICES ASSUME Has(v, "pcie") PROVE Has(v, "sync_user")
    OBVIOUS
  <2>1. step = "sync_user"
    <3>1. step # "pcie"
      BY <1>1
    <3>2. Has(rest, "pcie")
      BY <1>7, <1>8, <3>1
    <3>3. Rank("pcie") > Rank(step)
      BY <1>9, <3>2, RankValues
    <3>. QED BY <1>1, <1>3, <3>3, RankValues
  <2>. QED BY <1>7, <1>8, <2>1
<1>12. Has(v, "call") => Has(w, "call")
  BY <1>1, <1>7, <1>8, <1>9
<1>. QED BY <1>7, <1>10, <1>11, <1>12 DEF v, rest

-----------------------------------------------------------------------------
(* The input of the PCIe part *)

Events == Kinds \cup {"ended"}
Slots  == 0 .. RingSize - 1

DeviceTypes ==
  /\ happened \in [Colls -> SUBSET Events]
  /\ token \in [Contexts -> [input : [Slots -> Nat], done : [Slots -> Nat]]]

(* The input of a collective was produced, or the work is queued. *)
Produced(c) == "produce" \in happened[c]
Coming(c) ==
  Produced(c) \/ \E j \in 1 .. Len(stream[Call(c).stream]) :
    stream[Call(c).stream][j].kind = "produce" /\ stream[Call(c).stream][j].coll = c

(* Its token is queued, with the ticket q. *)
Published(c, q) ==
  Produced(c) \/ \E j \in 1 .. Len(stream[Call(c).stream]) :
    /\ stream[Call(c).stream][j].kind = "ready" /\ stream[Call(c).stream][j].coll = c
    /\ stream[Call(c).stream][j].seq = q

(* The stream of the communicator is made to wait. *)
Synced(c) ==
  Produced(c) \/ \E j \in 1 .. Len(stream[PcieStream(c[1])]) :
    stream[PcieStream(c[1])][j].kind = "wait_ready" /\ stream[PcieStream(c[1])][j].coll = c

(* What is queued at place j of stream s: a token behind the work that     *)
(* produces the input, a PCIe part behind the wait for the token, a wait   *)
(* for a token that is queued or was written; and a token's ticket is      *)
(* above those before it and above what is in the context's slots.         *)
ReadyInv(s, j) ==
  stream[s][j].kind = "ready" =>
    Produced(stream[s][j].coll) \/ \E i \in 1 .. j - 1 :
      stream[s][i].kind = "produce" /\ stream[s][i].coll = stream[s][j].coll
PcieInv(s, j) ==
  stream[s][j].kind = "pcie" /\ Call(stream[s][j].coll).op # "AllToAll" =>
    Produced(stream[s][j].coll) \/ \E i \in 1 .. j - 1 :
      stream[s][i].kind = "wait_ready" /\ stream[s][i].coll = stream[s][j].coll
WaitInv(s, j) == stream[s][j].kind = "wait_ready" => Published(stream[s][j].coll, stream[s][j].seq)
TicketInv(s, j) ==
  stream[s][j].kind = "ready" =>
    /\ stream[s][j].seq < sequence[stream[s][j].ctx]
    /\ \A k \in Slots : token[stream[s][j].ctx].input[k] < stream[s][j].seq
    /\ \A i \in 1 .. j - 1 : stream[s][i].kind = "ready" /\ stream[s][i].ctx = stream[s][j].ctx =>
                               stream[s][i].seq < stream[s][j].seq
ItemInv(s, j) == ReadyInv(s, j) /\ PcieInv(s, j) /\ WaitInv(s, j) /\ TicketInv(s, j)

ItemsInv  == \A s \in Streams : \A j \in 1 .. Len(stream[s]) : ItemInv(s, j)
TokensInv == \A x \in Contexts : \A k \in Slots : token[x].input[k] < sequence[x]

(* No token of context x with the ticket n is queued or written. *)
Unused(x, n) ==
  /\ \A s \in Streams : \A j \in 1 .. Len(stream[s]) :
       stream[s][j].kind = "ready" /\ stream[s][j].ctx = x => stream[s][j].seq < n
  /\ \A k \in Slots : token[x].input[k] < n

(* A thread with the steps w left in collective c, on context x and with   *)
(* the ticket n *)
Calling(w) == w # <<>> /\ Head(w) = "call"
Between(w, c, x, n) ==
  /\ Calling(w) \/ Coming(c)
  /\ InOrder(w)
  /\ Has(w, "call") => Calling(w) /\ n = NoTicket
  /\ Has(w, "pcie") => Call(c).op = "AllToAll" \/ Has(w, "input_wait") \/ Has(w, "sync_user") \/ Synced(c)
  /\ Has(w, "input_wait") => Has(w, "input") \/ (~Has(w, "begin") /\ Published(c, n))
  /\ Has(w, "input") => n = NoTicket \/ Unused(x, n)
ThreadInv(t) == Between(todo[t], Current(t), Ctx(t), ticket[t])

(* The lock of a context lets one thread at a time have a ticket. *)
LockInv ==
  /\ \A t \in Threads : Granted(t) => lock[Ctx(t)] /\ ticket[t] < sequence[Ctx(t)]
  /\ \A t, u \in Threads : Granted(t) /\ Granted(u) /\ Ctx(t) = Ctx(u) => t = u

InputInv == DeviceTypes /\ ItemsInv /\ TokensInv /\ (\A t \in Threads : ThreadInv(t)) /\ LockInv

-----------------------------------------------------------------------------
(* What a thread queues *)

(* The streams are as they were, with operations of thread t behind. *)
Extended(t, K) ==
  \A s \in Streams :
    /\ Len(stream[s]) <= Len(stream'[s])
    /\ \A j \in 1 .. Len(stream[s]) : stream'[s][j] = stream[s][j]
    /\ \A j \in Len(stream[s]) + 1 .. Len(stream'[s]) : \E kind \in K : stream'[s][j] = item(kind, t)

(* What is queued on a stream belongs there. *)
LEMMA StreamLengths ==
  ASSUME StreamTypes, NEW s \in Streams
  PROVE  Len(stream[s]) \in Nat /\ \A j \in 1 .. Len(stream[s]) : stream[s][j] \in ItemsOf(s)
<1>1. stream[s] \in Seq(ItemsOf(s))
  BY DEF StreamTypes
<1>. QED BY <1>1

(* A step that queues nothing leaves the streams as they were. *)
LEMMA ExtendedByNone ==
  ASSUME StreamTypes, NEW t \in Threads, stream' = stream, NEW K
  PROVE  Extended(t, K)
BY StreamLengths DEF Extended

(* A step that queues one operation leaves the rest as it was, with the    *)
(* operation at the end.                                                   *)
LEMMA ExtendedByOne ==
  ASSUME StreamTypes, NEW t \in Threads, NEW s \in Streams, NEW kind, NEW K, kind \in K, enqueue(s, item(kind, t))
  PROVE  Extended(t, K) /\ (\A q \in Streams : Len(stream'[q]) <= Len(stream[q]) + 1)
         /\ stream'[s][Len(stream[s]) + 1] = item(kind, t) /\ Len(stream'[s]) = Len(stream[s]) + 1
<1>1. stream[s] \in Seq(ItemsOf(s)) /\ DOMAIN stream = Streams
  BY DEF StreamTypes
<1>. DEFINE o == item(kind, t)
<1>2. \A q \in Streams : stream'[q] = IF q = s THEN Append(stream[s], o) ELSE stream[q]
  BY <1>1 DEF enqueue
<1>. HIDE DEF o
<1>3. /\ Len(Append(stream[s], o)) = Len(stream[s]) + 1 /\ Len(stream[s]) \in Nat
      /\ \A j \in 1 .. Len(stream[s]) : Append(stream[s], o)[j] = stream[s][j]
      /\ Append(stream[s], o)[Len(stream[s]) + 1] = o
  BY <1>1
<1>4. ASSUME NEW q \in Streams
      PROVE  /\ Len(stream[q]) <= Len(stream'[q])
             /\ \A j \in 1 .. Len(stream[q]) : stream'[q][j] = stream[q][j]
             /\ \A j \in Len(stream[q]) + 1 .. Len(stream'[q]) : \E x \in K : stream'[q][j] = item(x, t)
             /\ Len(stream'[q]) <= Len(stream[q]) + 1
  <2>1. CASE q = s
    <3>. DEFINE n == Len(stream[s])
    <3>0. /\ n \in Nat /\ Len(stream'[s]) = n + 1 /\ stream'[s][n + 1] = o
          /\ \A j \in 1 .. n : stream'[s][j] = stream[s][j]
      BY <1>2, <1>3
    <3>. HIDE DEF n
    <3>1. \A j \in n + 1 .. n + 1 : j = n + 1
      BY <3>0
    <3>2. \A j \in n + 1 .. Len(stream'[s]) : \E x \in K : stream'[s][j] = item(x, t)
      <4>. TAKE j \in n + 1 .. Len(stream'[s])
      <4>1. stream'[s][j] = item(kind, t)
        BY <3>0, <3>1 DEF o
      <4>. QED BY <4>1
    <3>3. n <= Len(stream'[s]) /\ Len(stream'[s]) <= n + 1
      BY <3>0
    <3>. QED BY <2>1, <3>0, <3>2, <3>3 DEF n
  <2>2. CASE q # s
    <3>1. Len(stream[q]) \in Nat
      BY StreamLengths
    <3>. QED BY <1>2, <2>2, <3>1
  <2>. QED BY <2>1, <2>2
<1>. QED BY <1>2, <1>3, <1>4 DEF Extended, o

(* The same of the streams after a step. *)
LEMMA NextLengths ==
  ASSUME StreamTypes', program' = program, NEW s \in Streams
  PROVE  Len(stream'[s]) \in Nat /\ \A j \in 1 .. Len(stream'[s]) : stream'[s][j] \in ItemsOf(s)
<1>1. stream'[s] \in Seq(ItemsOf(s))
  BY ProgramStays DEF StreamTypes, SameProgram
<1>. QED BY <1>1

(* What was queued stays queued. *)
LEMMA QueuedStays ==
  ASSUME Types, Types', program' = program, happened' = happened, NEW t \in Threads, NEW K, Extended(t, K), NEW c \in Colls
  PROVE  /\ (Coming(c) => Coming(c)') /\ (Synced(c) => Synced(c)')
         /\ \A q : Published(c, q) => Published(c, q)'
<1>1. Call(c)' = Call(c) /\ PcieStream(c[1])' = PcieStream(c[1]) /\ Produced(c)' = Produced(c)
  BY DEF Call, PcieStream, Produced
<1>2. Call(c).stream \in Streams /\ PcieStream(c[1]) \in Streams
  BY CollFacts DEF Types, ThreadTypes
<1>3. \A s \in Streams : \A j \in 1 .. Len(stream[s]) : j \in 1 .. Len(stream'[s]) /\ stream'[s][j] = stream[s][j]
  <2>. TAKE s \in Streams
  <2>. TAKE j \in 1 .. Len(stream[s])
  <2>1. Len(stream[s]) <= Len(stream'[s]) /\ stream'[s][j] = stream[s][j]
    BY DEF Extended
  <2>2. Len(stream'[s]) \in Nat /\ Len(stream[s]) \in Nat
    BY StreamLengths, NextLengths DEF Types
  <2>. QED BY <2>1, <2>2
<1>4. Coming(c) => Coming(c)'
  BY <1>1, <1>2, <1>3 DEF Coming
<1>5. Synced(c) => Synced(c)'
  BY <1>1, <1>2, <1>3 DEF Synced
<1>6. \A q : Published(c, q) => Published(c, q)'
  BY <1>1, <1>2, <1>3 DEF Published
<1>. QED BY <1>4, <1>5, <1>6

(* What a thread queues is where the invariant wants it. *)
LEMMA ItemsStay ==
  ASSUME Types, Types', DeviceTypes, ItemsInv, program' = program, UNCHANGED <<happened, token>>,
         \A x \in Contexts : sequence[x] <= sequence'[x],
         NEW t \in Threads, NEW K, K \subseteq Kinds, Extended(t, K),
         "ready" \in K => /\ Coming(Current(t)) /\ ticket[t] < sequence[Ctx(t)] /\ Unused(Ctx(t), ticket[t])
                          /\ \A s \in Streams : Len(stream'[s]) <= Len(stream[s]) + 1,
         "wait_ready" \in K => Published(Current(t), ticket[t]),
         "pcie" \in K /\ Call(Current(t)).op # "AllToAll" => Synced(Current(t))
  PROVE  ItemsInv'
<1>. SUFFICES ASSUME NEW s \in Streams, NEW j \in 1 .. Len(stream'[s])
              PROVE  ItemInv(s, j)'
  BY ProgramStays DEF ItemsInv, SameProgram
<1>0. ThreadTypes /\ StreamTypes /\ StreamTypes' /\ SyncTypes /\ SyncTypes' /\ program \in Programs /\ Contexts' = Contexts
  BY ProgramStays DEF Types, ThreadTypes, SameProgram
<1>1. Len(stream[s]) \in Nat /\ Len(stream'[s]) \in Nat /\ Len(stream[s]) <= Len(stream'[s])
  BY <1>0, StreamLengths, NextLengths DEF Extended
<1>2. \A i \in 1 .. Len(stream[s]) : stream'[s][i] = stream[s][i]
  BY DEF Extended
<1>3. stream'[s][j] \in ItemsOf(s)
  BY <1>0, NextLengths
<1>4. stream'[s][j].coll \in Colls /\ stream'[s][j].ctx \in Contexts /\ stream'[s][j].seq \in Nat
  BY <1>3 DEF ItemsOf, Items
<1>5. \A c \in Colls : Call(c)' = Call(c) /\ Produced(c)' = Produced(c)
  BY DEF Call, Produced
<1>6. sequence[stream'[s][j].ctx] \in Nat /\ sequence'[stream'[s][j].ctx] \in Nat
  BY <1>0, <1>4 DEF SyncTypes
<1>7. CASE j <= Len(stream[s])
  <2>1. j \in 1 .. Len(stream[s]) /\ stream'[s][j] = stream[s][j] /\ ItemInv(s, j)
    BY <1>1, <1>2, <1>7 DEF ItemsInv
  <2>2. \A i \in 1 .. j - 1 : i \in 1 .. Len(stream[s]) /\ stream'[s][i] = stream[s][i]
    BY <1>1, <1>2, <1>7
  <2>3. ReadyInv(s, j)' /\ PcieInv(s, j)'
    BY <1>4, <1>5, <2>1, <2>2 DEF ItemInv, ReadyInv, PcieInv
  <2>4. WaitInv(s, j)'
    BY <1>4, <2>1, QueuedStays DEF ItemInv, WaitInv
  <2>5. TicketInv(s, j)'
    <3>. DEFINE o == stream[s][j]
                x == o.ctx
    <3>1. x \in Contexts /\ o.seq \in Nat /\ stream'[s][j] = o
      BY <1>4, <2>1
    <3>2. sequence[x] \in Nat /\ sequence'[x] \in Nat /\ sequence[x] <= sequence'[x]
      BY <1>0, <3>1 DEF SyncTypes
    <3>3. o.kind = "ready" => /\ o.seq < sequence[x] /\ \A k \in Slots : token[x].input[k] < o.seq
                              /\ \A i \in 1 .. j - 1 : stream[s][i].kind = "ready" /\ stream[s][i].ctx = x =>
                                                         stream[s][i].seq < o.seq
      BY <2>1 DEF ItemInv, TicketInv
    <3>4. o.kind = "ready" => o.seq < sequence'[x]
      BY <3>1, <3>2, <3>3
    <3>. HIDE DEF o, x
    <3>. QED BY <2>2, <3>1, <3>3, <3>4 DEF TicketInv, Slots, x
  <2>. QED BY <2>3, <2>4, <2>5 DEF ItemInv
<1>8. CASE j > Len(stream[s])
  <2>1. PICK kind \in K : stream'[s][j] = item(kind, t)
    BY <1>1, <1>8 DEF Extended
  <2>0. PICK c \in Colls, x \in Contexts, q \in Nat : c = Current(t) /\ x = Ctx(t) /\ q = ticket[t]
    BY <1>0, CurrentFacts DEF ThreadTypes
  <2>2. /\ stream'[s][j].kind = kind /\ stream'[s][j].coll = c /\ stream'[s][j].ctx = x /\ stream'[s][j].seq = q
    BY <2>0, <2>1 DEF item
  <2>3. /\ kind \in {"ready"} => s = Call(c).stream
        /\ kind \in {"pcie", "wait_ready"} => s = PcieStream(c[1])
    BY <1>3, <2>2 DEF ItemsOf, Place, PcieKinds
  <2>4. Call(c)' = Call(c) /\ Produced(c)' = Produced(c)
    BY <1>5
  <2>5. \A i \in 1 .. Len(stream[s]) : i \in 1 .. j - 1
    BY <1>1, <1>8
  <2>6. ReadyInv(s, j)'
    <3>. SUFFICES ASSUME kind = "ready"
                  PROVE  Produced(c) \/ \E i \in 1 .. j - 1 : stream'[s][i].kind = "produce" /\ stream'[s][i].coll = c
      BY <2>2, <2>4 DEF ReadyInv
    <3>1. Coming(c) /\ s = Call(c).stream
      BY <2>0, <2>3
    <3>. QED BY <1>2, <2>5, <3>1 DEF Coming
  <2>7. PcieInv(s, j)'
    <3>. SUFFICES ASSUME kind = "pcie", Call(c).op # "AllToAll"
                  PROVE  Produced(c) \/ \E i \in 1 .. j - 1 : stream'[s][i].kind = "wait_ready" /\ stream'[s][i].coll = c
      BY <2>2, <2>4 DEF PcieInv
    <3>1. Synced(c) /\ s = PcieStream(c[1])
      BY <2>0, <2>3
    <3>. QED BY <1>2, <2>5, <3>1 DEF Synced
  <2>8. WaitInv(s, j)'
    <3>. SUFFICES ASSUME kind = "wait_ready"
                  PROVE  Published(c, q)'
      BY <2>2 DEF WaitInv
    <3>1. Published(c, q)
      BY <2>0
    <3>. QED BY <3>1, QueuedStays
  <2>9. TicketInv(s, j)'
    <3>. SUFFICES ASSUME kind = "ready"
                  PROVE  /\ q < sequence'[x]
                         /\ \A k \in Slots : token[x].input[k] < q
                         /\ \A i \in 1 .. j - 1 : stream'[s][i].kind = "ready" /\ stream'[s][i].ctx = x =>
                                                    stream'[s][i].seq < q
      BY <2>2 DEF TicketInv, Slots
    <3>1. q < sequence[x] /\ Unused(Ctx(t), ticket[t]) /\ Len(stream'[s]) <= Len(stream[s]) + 1
      BY <2>0
    <3>2. sequence[x] \in Nat /\ sequence'[x] \in Nat /\ sequence[x] <= sequence'[x]
      BY <1>0 DEF SyncTypes
    <3>3. \A i \in 1 .. j - 1 : i \in 1 .. Len(stream[s])
      BY <1>1, <1>8, <3>1
    <3>4. q < sequence'[x]
      BY <3>1, <3>2
    <3>. QED BY <1>2, <2>0, <3>1, <3>3, <3>4 DEF Unused
  <2>. QED BY <2>6, <2>7, <2>8, <2>9 DEF ItemInv
<1>. QED BY <1>1, <1>7, <1>8

-----------------------------------------------------------------------------
(* How far a thread is *)

(* How far a thread is does not change with a step that keeps what it      *)
(* relies on.                                                              *)
LEMMA BetweenStays ==
  ASSUME NEW w, NEW c, NEW x, NEW n, Between(w, c, x, n), Call(c)' = Call(c),
         Coming(c) => Coming(c)', Synced(c) => Synced(c)', Published(c, n) => Published(c, n)',
         n = NoTicket \/ (Unused(x, n) => Unused(x, n)')
  PROVE  Between(w, c, x, n)'
BY DEF Between

(* The next step is taken. *)
LEMMA BetweenTail ==
  ASSUME NEW w \in Seq(StepNames), w # <<>>, Head(w) # "call", NEW c, NEW x, NEW n, NEW m, Between(w, c, x, n),
         Call(c)' = Call(c), Coming(c) => Coming(c)', Synced(c) => Synced(c)',
         Head(w) \in {"begin", "return"} \/ (m = n /\ (Published(c, n) => Published(c, n)')),
         Head(w) = "input" => Published(c, m)',
         Head(w) \in {"input_wait", "sync_user"} => Synced(c)',
         Head(w) = "input" \/ m = NoTicket \/ Unused(x, m)' \/ (m = n /\ (Unused(x, n) => Unused(x, n)'))
  PROVE  Between(Tail(w), c, x, m)'
<1>. DEFINE v == Tail(w)
            h == Head(w)
<1>1. /\ InOrder(v)
      /\ \A step : Has(v, step) => Has(w, step)
      /\ \A step : Has(w, step) /\ step # h => Has(v, step)
      /\ \A step : Has(v, step) /\ Rank(h) # 0 /\ Rank(step) # 0 => Rank(h) < Rank(step)
      /\ InOrder(w)
  BY TailInOrder DEF Between
<1>2. Has(w, h)
  <2>1. 1 \in 1 .. Len(w) /\ w[1] = h
    OBVIOUS
  <2>. QED BY <2>1 DEF Has
<1>. HIDE DEF v, h
<1>3. ~Has(v, "call")
  BY <1>1 DEF Between, Calling, h
<1>4. Coming(c)'
  BY DEF Between, Calling
<1>5. Has(v, "pcie") => Call(c)'.op = "AllToAll" \/ Has(v, "input_wait") \/ Has(v, "sync_user") \/ Synced(c)'
  <2>. SUFFICES ASSUME Has(v, "pcie"), Call(c)'.op # "AllToAll", ~Synced(c)'
                PROVE  Has(v, "input_wait") \/ Has(v, "sync_user")
    OBVIOUS
  <2>1. Has(w, "input_wait") \/ Has(w, "sync_user")
    BY <1>1 DEF Between
  <2>2. h # "input_wait" /\ h # "sync_user"
    BY DEF h
  <2>. QED BY <1>1, <2>1, <2>2
<1>6. Has(v, "input_wait") => Has(v, "input") \/ (~Has(v, "begin") /\ Published(c, m)')
  <2>. SUFFICES ASSUME Has(v, "input_wait"), ~Has(v, "input")
                PROVE  ~Has(v, "begin") /\ Published(c, m)'
    OBVIOUS
  <2>1. h # "return"
    BY <1>1, RankValues
  <2>2. CASE h = "input"
    BY <1>1, <2>2, RankValues DEF h
  <2>3. CASE h # "input"
    <3>1. ~Has(w, "begin") /\ Published(c, n)
      BY <1>1, <2>3 DEF Between
    <3>2. h # "begin"
      BY <1>2, <3>1
    <3>. QED BY <1>1, <2>1, <3>1, <3>2 DEF h
  <2>. QED BY <2>2, <2>3
<1>7. Has(v, "input") => m = NoTicket \/ Unused(x, m)'
  <2>. SUFFICES ASSUME Has(v, "input"), m # NoTicket, ~Unused(x, m)'
                PROVE  FALSE
    OBVIOUS
  <2>1. h # "input"
    BY <1>1, RankValues
  <2>. QED BY <1>1, <2>1 DEF Between, h
<1>. QED BY <1>1, <1>3, <1>4, <1>5, <1>6, <1>7 DEF Between, v

(* A fallback takes the place of steps. *)
LEMMA BetweenFallback ==
  ASSUME NEW w \in Seq(StepNames), w # <<>>, NEW step, NEW k, Fallback(w, step, k),
         NEW c, NEW x, NEW n, Between(w, c, x, n), Coming(c) => Coming(c)'
  PROVE  Between(<<step>> \o SubSeq(w, 1 + k, Len(w)), c, x, n)'
<1>. DEFINE v == <<step>> \o SubSeq(w, 1 + k, Len(w))
<1>1. /\ InOrder(v) /\ ~Has(v, "input") /\ ~Has(v, "input_wait")
      /\ Has(v, "pcie") => Has(v, "sync_user")
      /\ Has(v, "call") => Has(w, "call")
  BY FallbackFacts DEF Between
<1>2. ~Calling(w)
  BY DEF Fallback, Calling
<1>. HIDE DEF v
<1>3. Coming(c)' /\ ~Has(v, "call")
  BY <1>1, <1>2 DEF Between
<1>4. Between(v, c, x, n)'
  BY <1>1, <1>3 DEF Between
<1>. QED BY <1>4 DEF v

(* The collective is cut short, or begins. *)
LEMMA BetweenShort ==
  ASSUME NEW w \in {<<"fast">> \o Notify \o <<"return">>, <<"return">>}, NEW c, NEW x, NEW n, Coming(c)'
  PROVE  Between(w, c, x, n)'
<1>1. InOrder(w) /\ ~Has(w, "input") /\ ~Has(w, "input_wait") /\ ~Has(w, "pcie") /\ ~Has(w, "call")
  BY ShortScripts DEF Landmarks
<1>. QED BY <1>1 DEF Between

(* Every virtual collective starts with the input queued and its           *)
(* synchronisation ahead.                                                  *)
LEMMA BetweenStart ==
  ASSUME NEW c, NEW x, Coming(c)', Call(c)' = Call(c), NEW p, NEW w, NEW n, n = NoTicket,
         Call(c).op \in {"AllReduce", "AllGather", "ReduceScatter", "AllToAll"},
         w = StepsOf(Call(c).op, p) \o <<"return">>
  PROVE  Between(w, c, x, n)'
<1>1. Publishes(w) /\ (Call(c).op # "AllToAll" => Waits(w))
  BY ScriptInOrder
<1>2. InOrder(w) /\ ~Has(w, "call") /\ (Has(w, "input_wait") => Has(w, "input"))
  BY <1>1 DEF Publishes
<1>3. Has(w, "pcie") => Call(c)'.op = "AllToAll" \/ Has(w, "input_wait")
  BY <1>1 DEF Waits
<1>. QED BY <1>2, <1>3 DEF Between, NoTicket

-----------------------------------------------------------------------------
(* What a step of a host thread leaves as it was *)

(* The ticket and the lock of thread t: kept, taken or given back *)
Keeps(t) == index' = index /\ UNCHANGED <<ticket, lock, sequence>>
Takes(t) ==
  /\ index' = index /\ ~lock[Ctx(t)]
  /\ lock' = [lock EXCEPT ![Ctx(t)] = TRUE]
  /\ ticket' = [ticket EXCEPT ![t] = sequence[Ctx(t)]]
  /\ sequence' = [sequence EXCEPT ![Ctx(t)] = @ + 1]
GivesBack(t) ==
  /\ ticket' = [ticket EXCEPT ![t] = NoTicket]
  /\ lock' = IF Granted(t) THEN [lock EXCEPT ![Ctx(t)] = FALSE] ELSE lock
  /\ sequence' = sequence

(* A thread that works with its ticket and queues operations of kinds K    *)
Works(t, K) ==
  /\ HostShape(t) /\ K \subseteq Kinds /\ Extended(t, K) /\ UNCHANGED <<happened, token>>
  /\ Keeps(t) \/ Takes(t) \/ GivesBack(t)
  /\ "ready" \in K => /\ Coming(Current(t)) /\ Granted(t) /\ Unused(Ctx(t), ticket[t])
                      /\ \A s \in Streams : Len(stream'[s]) <= Len(stream[s]) + 1
  /\ "wait_ready" \in K => Published(Current(t), ticket[t])
  /\ "pcie" \in K /\ Call(Current(t)).op # "AllToAll" => Synced(Current(t))

(* The values of the other threads, and of contexts *)
LEMMA WorksFrame ==
  ASSUME Types, Types', NEW t \in Threads, NEW K, Works(t, K)
  PROVE  /\ program' = program /\ SameProgram
         /\ \A q \in Threads : q # t => /\ todo'[q] = todo[q] /\ ticket'[q] = ticket[q] /\ Current(q)' = Current(q)
                                        /\ Ctx(q)' = Ctx(q)
         /\ \A x \in Contexts : sequence[x] <= sequence'[x] /\ sequence[x] \in Nat
<1>1. program' = program /\ ThreadTypes /\ SyncTypes /\ Ctx(t) \in Contexts
  BY CurrentFacts DEF Works, HostShape, Types
<1>2. SameProgram
  BY <1>1, ProgramStays
<1>3. ASSUME NEW q \in Threads, q # t
      PROVE  /\ todo'[q] = todo[q] /\ ticket'[q] = ticket[q] /\ Current(q)' = Current(q) /\ Ctx(q)' = Ctx(q)
  <2>1. todo'[q] = todo[q] /\ ticket'[q] = ticket[q] /\ index'[q] = index[q]
    BY <1>1, <1>3 DEF Works, HostShape, ThreadTypes
  <2>. QED BY <1>1, <2>1 DEF Current, Ctx, Stream, Call
<1>4. ASSUME NEW x \in Contexts
      PROVE  sequence[x] <= sequence'[x] /\ sequence[x] \in Nat
  <2>1. sequence' = sequence \/ sequence' = [sequence EXCEPT ![Ctx(t)] = @ + 1]
    BY DEF Works, Keeps, Takes, GivesBack
  <2>. QED BY <1>1, <2>1 DEF SyncTypes
<1>. QED BY <1>1, <1>2, <1>3, <1>4

(* At most one thread at a time has a ticket of a context: the ticket is   *)
(* drawn under the lock of the context, which is held until the collective *)
(* returns.                                                                *)
LEMMA LocksStay ==
  ASSUME Types, Types', LockInv, NEW t \in Threads, NEW K, Works(t, K)
  PROVE  LockInv'
<1>0. ThreadTypes /\ ThreadTypes' /\ SyncTypes /\ SameProgram /\ program' = program
  BY WorksFrame DEF Types
<1>. DEFINE x == Ctx(t)
<1>1. PICK y \in Contexts : y = x
  BY <1>0, CurrentFacts
<1>2. \A q \in Threads : q # t => (Granted(q)' <=> Granted(q)) /\ Ctx(q)' = Ctx(q) /\ ticket'[q] = ticket[q]
  BY WorksFrame DEF Granted
<1>3. \A q \in Threads : Ctx(q) \in Contexts /\ ticket[q] \in Nat
  BY <1>0, CurrentFacts DEF ThreadTypes
<1>4. CASE Keeps(t)
  <2>1. \A q \in Threads : Ctx(q)' = Ctx(q)
    BY <1>0, <1>4 DEF Keeps, Ctx, Stream, Call, Current
  <2>. QED BY <1>0, <1>4, <2>1 DEF Keeps, LockInv, Granted, SameProgram
<1>5. CASE Takes(t)
  <2>1. Ctx(t)' = y
    BY <1>0, <1>1, <1>5 DEF Takes, Ctx, Stream, Call, Current
  <2>2. ticket'[t] = sequence[y] /\ sequence[y] \in Nat
    BY <1>0, <1>1, <1>5 DEF Takes, ThreadTypes, SyncTypes
  <2>3. \A z \in Contexts : sequence'[z] = IF z = y THEN sequence[y] + 1 ELSE sequence[z]
    BY <1>0, <1>1, <1>5 DEF Takes, SyncTypes
  <2>4. lock'[y] /\ \A z \in Contexts : z # y => lock'[z] = lock[z]
    BY <1>0, <1>1, <1>5 DEF Takes, SyncTypes
  <2>5. \A q \in Threads : Granted(q) => Ctx(q) # y
    BY <1>1, <1>5 DEF Takes, LockInv
  <2>6. ASSUME NEW q \in Threads, Granted(q)'
        PROVE  lock'[Ctx(q)'] /\ ticket'[q] < sequence'[Ctx(q)']
    <3>1. CASE q = t
      BY <2>1, <2>2, <2>3, <2>4, <3>1
    <3>2. CASE q # t
      <4>1. Granted(q) /\ Ctx(q)' = Ctx(q) /\ ticket'[q] = ticket[q] /\ Ctx(q) # y /\ Ctx(q) \in Contexts
        BY <1>2, <1>3, <2>5, <2>6, <3>2
      <4>2. lock[Ctx(q)] /\ ticket[q] < sequence[Ctx(q)]
        BY <4>1 DEF LockInv
      <4>. QED BY <2>3, <2>4, <4>1, <4>2
    <3>. QED BY <3>1, <3>2
  <2>7. ASSUME NEW q \in Threads, NEW u \in Threads, Granted(q)', Granted(u)', Ctx(q)' = Ctx(u)'
        PROVE  q = u
    <3>1. CASE q = t /\ u # t
      BY <1>2, <2>1, <2>5, <2>7, <3>1
    <3>2. CASE u = t /\ q # t
      BY <1>2, <2>1, <2>5, <2>7, <3>2
    <3>3. CASE q # t /\ u # t
      BY <1>2, <2>7, <3>3 DEF LockInv
    <3>. QED BY <3>1, <3>2, <3>3
  <2>. QED BY <1>0, <2>6, <2>7 DEF LockInv, SameProgram
<1>6. CASE GivesBack(t)
  <2>1. ~Granted(t)'
    BY <1>0, <1>6 DEF GivesBack, Granted, ThreadTypes, NoTicket
  <2>2. \A z \in Contexts : lock'[z] = lock[z] \/ (z = y /\ Granted(t))
    BY <1>0, <1>1, <1>6 DEF GivesBack, SyncTypes
  <2>3. ASSUME NEW q \in Threads, Granted(q)'
        PROVE  lock'[Ctx(q)'] /\ ticket'[q] < sequence'[Ctx(q)']
    <3>1. q # t /\ Granted(q) /\ Ctx(q)' = Ctx(q) /\ ticket'[q] = ticket[q] /\ Ctx(q) \in Contexts
      BY <1>2, <1>3, <2>1, <2>3
    <3>2. lock[Ctx(q)] /\ ticket[q] < sequence[Ctx(q)]
      BY <3>1 DEF LockInv
    <3>3. Granted(t) => Ctx(q) # y
      BY <1>1, <3>1 DEF LockInv
    <3>4. sequence' = sequence
      BY <1>6 DEF GivesBack
    <3>. QED BY <2>2, <3>1, <3>2, <3>3, <3>4
  <2>4. ASSUME NEW q \in Threads, NEW u \in Threads, Granted(q)', Granted(u)', Ctx(q)' = Ctx(u)'
        PROVE  q = u
    BY <1>2, <2>1, <2>4 DEF LockInv
  <2>. QED BY <1>0, <2>3, <2>4 DEF LockInv, SameProgram
<1>. QED BY <1>4, <1>5, <1>6 DEF Works

(* The other threads are where they were. *)
LEMMA OthersStay ==
  ASSUME Types, Types', InputInv, NEW t \in Threads, NEW K, Works(t, K), NEW q \in Threads, q # t
  PROVE  ThreadInv(q)'
<1>0. ThreadTypes /\ StreamTypes /\ SameProgram /\ program' = program /\ UNCHANGED <<happened, token>> /\ Extended(t, K)
  BY WorksFrame DEF Types, Works
<1>1. PICK c \in Colls, x \in Contexts, n \in Nat, w \in Seq(StepNames) :
        c = Current(q) /\ x = Ctx(q) /\ n = ticket[q] /\ w = todo[q]
  BY <1>0, CurrentFacts DEF ThreadTypes
<1>2. Current(q)' = c /\ Ctx(q)' = x /\ ticket'[q] = n /\ todo'[q] = w
  BY <1>1, WorksFrame
<1>3. Between(w, c, x, n)
  BY <1>1 DEF InputInv, ThreadInv
<1>4. /\ (Coming(c) => Coming(c)') /\ (Synced(c) => Synced(c)')
      /\ Published(c, n) => Published(c, n)'
  BY <1>0, QueuedStays
<1>5. n = NoTicket \/ (Unused(x, n) => Unused(x, n)')
  <2>. SUFFICES ASSUME n # NoTicket, Unused(x, n)
                PROVE  Unused(x, n)'
    OBVIOUS
  <2>1. "ready" \in K => Ctx(t) # x
    BY <1>1 DEF Works, InputInv, LockInv, Granted
  <2>2. ASSUME NEW s \in Streams, NEW j \in 1 .. Len(stream'[s]), stream'[s][j].kind = "ready", stream'[s][j].ctx = x
        PROVE  stream'[s][j].seq < n
    <3>1. Len(stream[s]) \in Nat /\ Len(stream'[s]) \in Nat
      BY <1>0, StreamLengths, NextLengths DEF Types
    <3>2. CASE j <= Len(stream[s])
      BY <1>0, <2>2, <3>1, <3>2 DEF Extended, Unused
    <3>3. CASE j > Len(stream[s])
      <4>1. PICK kind \in K : stream'[s][j] = item(kind, t)
        BY <1>0, <3>1, <3>3 DEF Extended
      <4>2. kind = "ready" /\ Ctx(t) = x
        BY <2>2, <4>1 DEF item
      <4>. QED BY <2>1, <4>2
    <3>. QED BY <3>1, <3>2, <3>3
  <2>3. \A k \in Slots : token'[x].input[k] < n
    BY <1>0 DEF Unused
  <2>. QED BY <1>0, <2>2, <2>3 DEF Unused, SameProgram, Slots
<1>6. Call(c)' = Call(c)
  BY <1>0 DEF Call
<1>7. Between(w, c, x, n)'
  BY <1>3, <1>4, <1>5, <1>6, BetweenStays
<1>. QED BY <1>2, <1>7 DEF ThreadInv

(* It is enough to look at the thread that works. *)
LEMMA WorksOK ==
  ASSUME Types, Types', InputInv, NEW t \in Threads, NEW K, Works(t, K), ThreadInv(t)'
  PROVE  InputInv'
<1>1. SameProgram /\ program' = program /\ UNCHANGED <<happened, token>>
      /\ \A x \in Contexts : sequence[x] <= sequence'[x] /\ sequence[x] \in Nat
  BY WorksFrame DEF Works
<1>2. DeviceTypes'
  BY <1>1 DEF InputInv, DeviceTypes, SameProgram, Events, Slots, Kinds
<1>3. ItemsInv'
  <2>1. "ready" \in K => ticket[t] < sequence[Ctx(t)]
    BY DEF Works, InputInv, LockInv
  <2>. QED BY <1>1, <2>1, ItemsStay DEF Works, InputInv
<1>4. TokensInv'
  <2>. SUFFICES ASSUME NEW x \in Contexts, NEW k \in Slots
                PROVE  token[x].input[k] < sequence'[x]
    BY <1>1 DEF TokensInv, SameProgram, Slots
  <2>1. token[x].input[k] < sequence[x] /\ token[x].input[k] \in Nat /\ sequence'[x] \in Nat
    BY <1>1 DEF InputInv, TokensInv, DeviceTypes, Types, SyncTypes, SameProgram
  <2>. QED BY <1>1, <2>1
<1>5. \A q \in Threads : ThreadInv(q)'
  BY OthersStay
<1>6. LockInv'
  BY LocksStay DEF InputInv
<1>. QED BY <1>1, <1>2, <1>3, <1>4, <1>5, <1>6 DEF InputInv, SameProgram

(* A ticket above all tokens of its context stays above them while no      *)
(* token is queued.                                                        *)
LEMMA UnusedStays ==
  ASSUME Types, Types', NEW t \in Threads, NEW K, Works(t, K), "ready" \notin K, NEW x, NEW n, Unused(x, n)
  PROVE  Unused(x, n)'
<1>0. StreamTypes /\ StreamTypes' /\ SameProgram /\ program' = program /\ token' = token /\ Extended(t, K)
  BY WorksFrame DEF Types, Works
<1>1. ASSUME NEW s \in Streams, NEW j \in 1 .. Len(stream'[s]), stream'[s][j].kind = "ready", stream'[s][j].ctx = x
      PROVE  stream'[s][j].seq < n
  <2>1. Len(stream[s]) \in Nat /\ Len(stream'[s]) \in Nat
    BY <1>0, StreamLengths, NextLengths
  <2>2. CASE j <= Len(stream[s])
    BY <1>0, <1>1, <2>1, <2>2 DEF Extended, Unused
  <2>3. CASE j > Len(stream[s])
    <3>1. PICK kind \in K : stream'[s][j] = item(kind, t)
      BY <1>0, <2>1, <2>3 DEF Extended
    <3>. QED BY <1>1, <3>1 DEF item
  <2>. QED BY <2>1, <2>2, <2>3
<1>2. \A k \in Slots : token'[x].input[k] < n
  BY <1>0 DEF Unused
<1>. QED BY <1>0, <1>1, <1>2 DEF Unused, SameProgram, Slots

(* The thread after its step: the collective, the context and what is      *)
(* known of both                                                           *)
LEMMA SelfFrame ==
  ASSUME Types, Types', InputInv, NEW t \in Threads, NEW K, Works(t, K), index' = index
  PROVE  \E c \in Colls, x \in Contexts, n \in Nat, w \in Seq(StepNames) :
           /\ c = Current(t) /\ x = Ctx(t) /\ n = ticket[t] /\ w = todo[t]
           /\ Current(t)' = c /\ Ctx(t)' = x /\ Call(c)' = Call(c)
           /\ (Coming(c) => Coming(c)') /\ (Synced(c) => Synced(c)')
           /\ \A q : Published(c, q) => Published(c, q)'
           /\ Between(w, c, x, n)
<1>0. ThreadTypes /\ program' = program /\ happened' = happened /\ Extended(t, K)
  BY WorksFrame DEF Types, Works
<1>1. PICK c \in Colls, x \in Contexts, n \in Nat, w \in Seq(StepNames) :
        c = Current(t) /\ x = Ctx(t) /\ n = ticket[t] /\ w = todo[t]
  BY <1>0, CurrentFacts DEF ThreadTypes
<1>2. Current(t)' = c /\ Ctx(t)' = x /\ Call(c)' = Call(c)
  BY <1>0, <1>1 DEF Current, Ctx, Stream, Call
<1>3. /\ (Coming(c) => Coming(c)') /\ (Synced(c) => Synced(c)')
      /\ \A q : Published(c, q) => Published(c, q)'
  BY <1>0, QueuedStays
<1>4. Between(w, c, x, n)
  BY <1>1 DEF InputInv, ThreadInv
<1>. QED BY <1>1, <1>2, <1>3, <1>4

(* A thread takes its next step, with the ticket it has. *)
LEMMA AdvanceOK ==
  ASSUME Types, Types', InputInv, NEW t \in Threads, NEW K, Works(t, K), Keeps(t), next(t), todo[t] # <<>>,
         ~at(t, "call"), "ready" \in K => at(t, "input"),
         \A c \in Colls, n \in Nat : c = Current(t) /\ n = ticket[t] =>
           /\ at(t, "input") => Published(c, n)'
           /\ at(t, "input_wait") \/ at(t, "sync_user") => Synced(c)'
  PROVE  InputInv'
<1>1. index' = index /\ ticket' = ticket
  BY DEF Keeps
<1>2. PICK c \in Colls, x \in Contexts, n \in Nat, w \in Seq(StepNames) :
           /\ c = Current(t) /\ x = Ctx(t) /\ n = ticket[t] /\ w = todo[t]
           /\ Current(t)' = c /\ Ctx(t)' = x /\ Call(c)' = Call(c)
           /\ (Coming(c) => Coming(c)') /\ (Synced(c) => Synced(c)')
           /\ \A q : Published(c, q) => Published(c, q)'
           /\ Between(w, c, x, n)
  BY <1>1, SelfFrame
<1>3. w # <<>> /\ Head(w) # "call" /\ \A step : at(t, step) <=> Head(w) = step
  BY <1>2 DEF at
<1>4. Head(w) = "input" \/ (Unused(x, n) => Unused(x, n)')
  BY <1>3, UnusedStays
<1>5. (Head(w) = "input" => Published(c, n)') /\ (Head(w) \in {"input_wait", "sync_user"} => Synced(c)')
  BY <1>2, <1>3
<1>6. Between(Tail(w), c, x, n)'
  BY <1>2, <1>3, <1>4, <1>5, BetweenTail
<1>7. todo'[t] = Tail(w) /\ ticket'[t] = n
  BY <1>1, <1>2 DEF next, Types, ThreadTypes
<1>8. ThreadInv(t)'
  BY <1>2, <1>6, <1>7 DEF ThreadInv
<1>. QED BY <1>8, WorksOK

(* A thread turns to a fallback. *)
LEMMA FallbackOK ==
  ASSUME Types, Types', InputInv, NEW t \in Threads, Works(t, {}), Keeps(t), todo[t] # <<>>,
         NEW step, NEW k, Fallback(todo[t], step, k), Instead(t, step, k)
  PROVE  InputInv'
<1>1. index' = index /\ ticket' = ticket
  BY DEF Keeps
<1>2. PICK c \in Colls, x \in Contexts, n \in Nat, w \in Seq(StepNames) :
           /\ c = Current(t) /\ x = Ctx(t) /\ n = ticket[t] /\ w = todo[t]
           /\ Current(t)' = c /\ Ctx(t)' = x /\ Call(c)' = Call(c)
           /\ (Coming(c) => Coming(c)') /\ (Synced(c) => Synced(c)')
           /\ \A q : Published(c, q) => Published(c, q)'
           /\ Between(w, c, x, n)
  BY <1>1, SelfFrame
<1>3. Between(<<step>> \o SubSeq(w, 1 + k, Len(w)), c, x, n)'
  BY <1>2, BetweenFallback
<1>4. todo'[t] = <<step>> \o SubSeq(w, 1 + k, Len(w)) /\ ticket'[t] = n
  BY <1>1, <1>2 DEF Instead, Types, ThreadTypes
<1>5. ThreadInv(t)'
  BY <1>2, <1>3, <1>4 DEF ThreadInv
<1>. QED BY <1>5, WorksOK

(* A thread gives up the PCIe part. *)
LEMMA ShortOK ==
  ASSUME Types, Types', InputInv, NEW t \in Threads, Works(t, {}), Keeps(t), ~at(t, "call"),
         NEW v \in {<<"fast">> \o Notify \o <<"return">>, <<"return">>}, todo' = [todo EXCEPT ![t] = v]
  PROVE  InputInv'
<1>1. index' = index /\ ticket' = ticket
  BY DEF Keeps
<1>2. PICK c \in Colls, x \in Contexts, n \in Nat, w \in Seq(StepNames) :
           /\ c = Current(t) /\ x = Ctx(t) /\ n = ticket[t] /\ w = todo[t]
           /\ Current(t)' = c /\ Ctx(t)' = x /\ Call(c)' = Call(c)
           /\ (Coming(c) => Coming(c)') /\ (Synced(c) => Synced(c)')
           /\ \A q : Published(c, q) => Published(c, q)'
           /\ Between(w, c, x, n)
  BY <1>1, SelfFrame
<1>3. Coming(c)'
  BY <1>2 DEF Between, Calling, at
<1>4. Between(v, c, x, n)'
  BY <1>3, BetweenShort
<1>5. todo'[t] = v /\ ticket'[t] = n
  BY <1>1, <1>2 DEF Types, ThreadTypes
<1>6. ThreadInv(t)'
  BY <1>2, <1>4, <1>5 DEF ThreadInv
<1>. QED BY <1>6, WorksOK

(* A step that has nothing to do with the input *)
LEMMA QuietOK ==
  ASSUME Types, Types', InputInv, NEW t \in Threads, HostShape(t), Keeps(t), UNCHANGED <<happened, token>>,
         NEW K, K \subseteq Kinds \ {"ready", "wait_ready", "pcie"}, Extended(t, K), next(t),
         NEW step, at(t, step), step \notin {"call", "input", "input_wait", "sync_user"}
  PROVE  InputInv'
<1>1. Works(t, K)
  BY DEF Works
<1>2. todo[t] # <<>> /\ ~at(t, "call") /\ ~at(t, "input") /\ ~at(t, "input_wait") /\ ~at(t, "sync_user")
  BY DEF at
<1>. QED BY <1>1, <1>2, AdvanceOK

(* Steps that queue one operation that has nothing to do with the input    *)
LEMMA QuietEnqueueOK ==
  ASSUME Types, Types', InputInv, NEW t \in Threads, HostShape(t), HostStep(t), next(t),
         NEW step, at(t, step), step \notin {"call", "input", "input_wait", "sync_user"},
         NEW s \in Streams, NEW kind \in Kinds \ {"ready", "wait_ready", "pcie"},
         enqueue(s, item(kind, t)) \/ stream' = stream
  PROVE  InputInv'
<1>1. Keeps(t) /\ UNCHANGED <<happened, token>>
  BY DEF HostStep, Keeps, quiet, locals, sync, device
<1>2. Extended(t, {kind})
  BY ExtendedByOne, ExtendedByNone DEF Types
<1>. QED BY <1>1, <1>2, QuietOK

(* Steps that queue one operation that does not concern the input, or only *)
(* wait.                                                                   *)
LEMMA PlainStepOK ==
  ASSUME Types, Types', InputInv, NEW t \in Threads, HostShape(t),
         Pack(t) \/ FastPart(t) \/ WaitEventOnStream(t) \/ SyncPcieStream(t) \/ EnqueueCallback(t)
  PROVE  InputInv'
<1>0. Stream(t) \in Streams /\ PcieStream(t) \in Streams
  BY CurrentFacts DEF Types
<1>1. {"pack", "fast", "wait_event", "callback", "done", "wait_done"} \subseteq Kinds \ {"ready", "wait_ready", "pcie"}
  BY DEF Kinds
<1>2. CASE Pack(t)
  BY <1>0, <1>1, <1>2, QuietEnqueueOK DEF Pack
<1>3. CASE FastPart(t)
  BY <1>0, <1>1, <1>3, QuietEnqueueOK DEF FastPart
<1>4. CASE WaitEventOnStream(t)
  BY <1>0, <1>1, <1>4, QuietEnqueueOK DEF WaitEventOnStream
<1>5. CASE SyncPcieStream(t)
  BY <1>0, <1>1, <1>5, QuietEnqueueOK DEF SyncPcieStream
<1>6. CASE EnqueueCallback(t)
  BY <1>0, <1>1, <1>6, QuietEnqueueOK DEF EnqueueCallback
<1>. QED BY <1>2, <1>3, <1>4, <1>5, <1>6

(* The end of the PCIe part is a token, or an event. *)
LEMMA CompletionStepOK ==
  ASSUME Types, Types', InputInv, NEW t \in Threads, HostShape(t), EnqueueWrite(t) \/ EnqueueWait(t)
  PROVE  InputInv'
<1>0. Stream(t) \in Streams /\ PcieStream(t) \in Streams /\ StreamTypes
  BY CurrentFacts DEF Types
<1>1. {"done", "wait_done"} \subseteq Kinds \ {"ready", "wait_ready", "pcie"}
  BY DEF Kinds
<1>2. HostStep(t) /\ Keeps(t) /\ UNCHANGED <<happened, token>>
  BY DEF EnqueueWrite, EnqueueWait, HostStep, Keeps, quiet, locals, sync, device
<1>3. ASSUME stream' = stream
      PROVE  Works(t, {})
  BY <1>0, <1>2, <1>3, ExtendedByNone DEF Works
<1>4. CASE EnqueueWrite(t) /\ next(t) /\ enqueue(PcieStream(t), item("done", t))
  BY <1>0, <1>1, <1>2, <1>4, QuietEnqueueOK DEF EnqueueWrite
<1>5. CASE EnqueueWrite(t) /\ Instead(t, "event", 2) /\ stream' = stream
  <2>1. todo[t] # <<>> /\ Fallback(todo[t], "event", 2)
    BY <1>5 DEF EnqueueWrite, at, Fallback
  <2>. QED BY <1>2, <1>3, <1>5, <2>1, FallbackOK
<1>6. CASE EnqueueWait(t) /\ next(t) /\ enqueue(Stream(t), item("wait_done", t))
  BY <1>0, <1>1, <1>2, <1>6, QuietEnqueueOK DEF EnqueueWait
<1>7. CASE EnqueueWait(t) /\ Instead(t, "event", 1) /\ stream' = stream
  <2>1. todo[t] # <<>> /\ Fallback(todo[t], "event", 1)
    BY <1>7 DEF EnqueueWait, at, Fallback
  <2>. QED BY <1>2, <1>3, <1>7, <2>1, FallbackOK
<1>. QED BY <1>4, <1>5, <1>6, <1>7 DEF EnqueueWrite, EnqueueWait

(* Records, buffers and a build without tokens *)
LEMMA RecordStepOK ==
  ASSUME Types, Types', InputInv, NEW t \in Threads, HostShape(t),
         RegisterPending(t) \/ AttachTimers(t) \/ NoValueSync(t) \/ Allocate(t)
  PROVE  InputInv'
<1>1. Keeps(t) /\ UNCHANGED <<happened, token, stream>>
  BY DEF RegisterPending, AttachTimers, NoValueSync, Allocate, Keeps, quiet, locals, sync, device
<1>2. Extended(t, {})
  BY <1>1, ExtendedByNone DEF Types
<1>3. CASE next(t) /\ \E step \in {"register", "attach", "begin", "alloc"} : at(t, step)
  <2>1. PICK step \in {"register", "attach", "begin", "alloc"} : at(t, step)
    BY <1>3
  <2>. QED BY <1>1, <1>2, <1>3, <2>1, QuietOK
<1>4. CASE at(t, "alloc") /\ todo' = [todo EXCEPT ![t] = <<"fast">> \o Notify \o <<"return">>]
  <2>1. Works(t, {}) /\ ~at(t, "call")
    BY <1>1, <1>2, <1>4 DEF Works, at
  <2>. DEFINE v == <<"fast">> \o Notify \o <<"return">>
  <2>2. todo' = [todo EXCEPT ![t] = v] /\ v \in {<<"fast">> \o Notify \o <<"return">>, <<"return">>}
    BY <1>4
  <2>. HIDE DEF v
  <2>. QED BY <1>1, <2>1, <2>2, ShortOK
<1>. QED BY <1>3, <1>4 DEF RegisterPending, AttachTimers, NoValueSync, Allocate

(* The host's wait fails and nothing is submitted. *)
LEMMA FailStepOK ==
  ASSUME Types, Types', InputInv, NEW t \in Threads, HostShape(t), SynchronizeFails(t)
  PROVE  InputInv'
<1>1. Keeps(t) /\ UNCHANGED <<happened, token, stream>> /\ todo' = [todo EXCEPT ![t] = <<"return">>] /\ ~at(t, "call")
  BY DEF SynchronizeFails, Keeps, sync, device, at
<1>2. Extended(t, {})
  BY <1>1, ExtendedByNone DEF Types
<1>3. Works(t, {})
  BY <1>1, <1>2 DEF Works
<1>. DEFINE v == <<"return">>
<1>4. todo' = [todo EXCEPT ![t] = v] /\ v \in {<<"fast">> \o Notify \o <<"return">>, <<"return">>}
  BY <1>1
<1>. HIDE DEF v
<1>. QED BY <1>1, <1>3, <1>4, ShortOK

(* The copies out of the staging buffer and its release are queued behind  *)
(* the rest of the stream (EnqueueSegmentedMergeOnStream).                 *)
LEMMA MergeExtends ==
  ASSUME Types, Types', NEW t \in Threads, HostShape(t), Merge(t)
  PROVE  Extended(t, {"merge", "free"})
<1>0. StreamTypes /\ StreamTypes' /\ program' = program /\ Stream(t) \in Streams
  BY CurrentFacts DEF Types, HostShape
<1>1. PICK tail \in {<<>>, <<item("free", t)>>} :
        stream' = [stream EXCEPT ![Stream(t)] = @ \o <<item("merge", t)>> \o tail]
  BY DEF Merge
<1>. DEFINE s == Stream(t)
            before == stream[s]
            a == item("merge", t)
            b == item("free", t)
<1>2. PICK S : before \in Seq(S) /\ a \in S /\ b \in S
  <2>1. before \in Seq(ItemsOf(s))
    BY <1>0 DEF StreamTypes
  <2>2. {"merge", "free"} \subseteq Kinds /\ {"merge", "free"} \cap PcieKinds = {}
    BY DEF Kinds, PcieKinds
  <2>3. a \in ItemsOf(s) /\ b \in ItemsOf(s)
    BY <2>2, ItemFacts DEF Types
  <2>. QED BY <2>1, <2>3
<1>3. stream'[s] = before \o <<a>> \o tail /\ \A q \in Streams : q # s => stream'[q] = stream[q]
  BY <1>0, <1>1 DEF StreamTypes
<1>4. tail = <<>> \/ tail = <<b>>
  OBVIOUS
<1>. HIDE DEF before, a, b
<1>. DEFINE n == Len(before)
<1>5. /\ n \in Nat /\ n <= Len(stream'[s])
      /\ \A j \in 1 .. n : stream'[s][j] = before[j]
      /\ \A j \in n + 1 .. Len(stream'[s]) : stream'[s][j] = a \/ stream'[s][j] = b
  <2>1. CASE tail = <<>>
    BY <1>2, <1>3, <2>1
  <2>2. CASE tail = <<b>>
    BY <1>2, <1>3, <2>2
  <2>. QED BY <1>4, <2>1, <2>2
<1>. HIDE DEF n
<1>6. ASSUME NEW j \in n + 1 .. Len(stream'[s])
      PROVE  \E kind \in {"merge", "free"} : stream'[s][j] = item(kind, t)
  BY <1>5 DEF a, b
<1>7. ASSUME NEW q \in Streams, q # s
      PROVE  /\ Len(stream[q]) <= Len(stream'[q])
             /\ \A j \in 1 .. Len(stream[q]) : stream'[q][j] = stream[q][j]
             /\ \A j \in Len(stream[q]) + 1 .. Len(stream'[q]) : \E kind \in {"merge", "free"} : stream'[q][j] = item(kind, t)
  <2>1. Len(stream[q]) \in Nat /\ stream'[q] = stream[q]
    BY <1>0, <1>3, <1>7, StreamLengths
  <2>. QED BY <2>1
<1>. QED BY <1>5, <1>6, <1>7 DEF Extended, before, n

(* They do not concern the input. *)
LEMMA MergeStepOK ==
  ASSUME Types, Types', InputInv, NEW t \in Threads, HostShape(t), Merge(t)
  PROVE  InputInv'
<1>1. Keeps(t) /\ UNCHANGED <<happened, token>> /\ next(t) /\ at(t, "merge")
  BY DEF Merge, Keeps, locals, sync, device
<1>2. Extended(t, {"merge", "free"})
  BY MergeExtends
<1>3. {"merge", "free"} \subseteq Kinds \ {"ready", "wait_ready", "pcie"}
  BY DEF Kinds
<1>. QED BY <1>1, <1>2, <1>3, QuietOK

(* The first step is the lowest in rank. *)
LEMMA HeadFirst ==
  ASSUME NEW w \in Seq(StepNames), w # <<>>, InOrder(w)
  PROVE  /\ Has(w, Head(w))
         /\ \A step : Has(w, step) /\ step # Head(w) /\ Rank(Head(w)) # 0 /\ Rank(step) # 0 => Rank(Head(w)) < Rank(step)
<1>1. Has(w, Head(w))
  <2>1. 1 \in 1 .. Len(w) /\ w[1] = Head(w)
    OBVIOUS
  <2>. QED BY <2>1 DEF Has
<1>. QED BY <1>1, TailInOrder

(* The PCIe part of a collective is submitted behind the wait for its      *)
(* input, on the stream of the communicator.                               *)
LEMMA PcieStepOK ==
  ASSUME Types, Types', InputInv, NEW t \in Threads, HostShape(t), PciePart(t)
  PROVE  InputInv'
<1>0. ThreadTypes /\ PcieStream(t) \in Streams /\ StreamTypes
  BY CurrentFacts DEF Types
<1>1. Keeps(t) /\ UNCHANGED <<happened, token>> /\ next(t) /\ at(t, "pcie")
  BY DEF PciePart, Keeps, quiet, device, sync
<1>2. PICK kind \in {"pcie", "nothing"} : enqueue(PcieStream(t), item(kind, t))
  BY DEF PciePart
<1>3. Extended(t, {kind})
  BY <1>0, <1>2, ExtendedByOne
<1>4. Call(Current(t)).op = "AllToAll" \/ Synced(Current(t))
  <2>1. PICK w \in Seq(StepNames) : w = todo[t]
    BY <1>0 DEF ThreadTypes
  <2>2. w # <<>> /\ Head(w) = "pcie" /\ Between(w, Current(t), Ctx(t), ticket[t])
    BY <1>1, <2>1 DEF at, InputInv, ThreadInv
  <2>3. InOrder(w)
    BY <2>2 DEF Between
  <2>4. Has(w, "pcie") /\ ~Has(w, "input_wait") /\ ~Has(w, "sync_user")
    BY <2>2, <2>3, HeadFirst, RankValues
  <2>. QED BY <2>2, <2>4 DEF Between
<1>5. kind \in Kinds
  BY DEF Kinds
<1>6. Works(t, {kind})
  BY <1>1, <1>3, <1>4, <1>5 DEF Works
<1>. QED BY <1>1, <1>6, AdvanceOK DEF at

(* The token of a collective is queued behind the work that produces its   *)
(* input, with the ticket of the thread.                                   *)
LEMMA ReadyStepOK ==
  ASSUME Types, Types', InputInv, NEW t \in Threads, HostShape(t), EnqueueInputReady(t)
  PROVE  InputInv'
<1>0. ThreadTypes /\ Stream(t) \in Streams /\ StreamTypes
  BY CurrentFacts DEF Types
<1>1. Keeps(t) /\ UNCHANGED <<happened, token>> /\ at(t, "input") /\ todo[t] # <<>>
  BY DEF EnqueueInputReady, HostStep, Keeps, quiet, locals, device, sync, at
<1>2. CASE Granted(t) /\ enqueue(Stream(t), item("ready", t)) /\ next(t)
  <2>1. PICK kind \in Kinds : kind = "ready"
    BY DEF Kinds
  <2>2. /\ Extended(t, {kind}) /\ \A q \in Streams : Len(stream'[q]) <= Len(stream[q]) + 1
        /\ stream'[Stream(t)][Len(stream[Stream(t)]) + 1] = item(kind, t)
        /\ Len(stream'[Stream(t)]) = Len(stream[Stream(t)]) + 1
    BY <1>0, <1>2, <2>1, ExtendedByOne
  <2>3. PICK c \in Colls, n \in Nat, s \in Streams : c = Current(t) /\ n = ticket[t] /\ s = Stream(t) /\ s = Call(c).stream
    BY <1>0, CurrentFacts DEF ThreadTypes
  <2>4. PICK w \in Seq(StepNames) : w = todo[t]
    BY <1>0 DEF ThreadTypes
  <2>5. w # <<>> /\ Head(w) = "input" /\ Between(w, c, Ctx(t), n)
    BY <1>1, <2>3, <2>4 DEF at, InputInv, ThreadInv
  <2>6. Has(w, "input")
    BY <2>5, HeadFirst DEF Between
  <2>7. Coming(c) /\ Unused(Ctx(t), n)
    BY <1>2, <2>3, <2>5, <2>6 DEF Between, Calling, Granted
  <2>8. Works(t, {kind})
    BY <1>1, <1>2, <2>1, <2>2, <2>3, <2>7 DEF Works
  <2>9. Published(c, n)'
    <3>1. Len(stream[s]) \in Nat /\ program' = program
      BY <1>0, StreamLengths DEF HostShape
    <3>2. Len(stream[s]) + 1 \in 1 .. Len(stream'[s]) /\ stream'[s][Len(stream[s]) + 1] = item(kind, t)
      BY <2>2, <2>3, <3>1
    <3>3. item(kind, t).kind = "ready" /\ item(kind, t).coll = c /\ item(kind, t).seq = n
      BY <2>1, <2>3 DEF item
    <3>4. Call(c)'.stream = s
      BY <2>3, <3>1 DEF Call
    <3>. QED BY <3>2, <3>3, <3>4 DEF Published
  <2>. QED BY <1>1, <1>2, <2>3, <2>8, <2>9, AdvanceOK DEF at
<1>3. CASE Instead(t, "sync_user", 2) /\ stream' = stream
  <2>1. Fallback(todo[t], "sync_user", 2)
    BY <1>1 DEF at, Fallback
  <2>2. Works(t, {})
    BY <1>0, <1>1, <1>3, ExtendedByNone DEF Works
  <2>. QED BY <1>1, <1>3, <2>1, <2>2, FallbackOK
<1>. QED BY <1>2, <1>3 DEF EnqueueInputReady

(* The stream of the communicator is made to wait for a token that is      *)
(* queued.                                                                 *)
LEMMA WaitStepOK ==
  ASSUME Types, Types', InputInv, NEW t \in Threads, HostShape(t), EnqueueInputWait(t)
  PROVE  InputInv'
<1>0. ThreadTypes /\ PcieStream(t) \in Streams /\ StreamTypes
  BY CurrentFacts DEF Types
<1>1. Keeps(t) /\ UNCHANGED <<happened, token>> /\ at(t, "input_wait") /\ todo[t] # <<>>
  BY DEF EnqueueInputWait, HostStep, Keeps, quiet, locals, device, sync, at
<1>2. CASE enqueue(PcieStream(t), item("wait_ready", t)) /\ next(t)
  <2>1. PICK kind \in Kinds : kind = "wait_ready"
    BY DEF Kinds
  <2>2. /\ Extended(t, {kind})
        /\ stream'[PcieStream(t)][Len(stream[PcieStream(t)]) + 1] = item(kind, t)
        /\ Len(stream'[PcieStream(t)]) = Len(stream[PcieStream(t)]) + 1
    BY <1>0, <1>2, <2>1, ExtendedByOne
  <2>3. PICK c \in Colls, n \in Nat, s \in Streams :
          c = Current(t) /\ n = ticket[t] /\ s = PcieStream(t) /\ s = PcieStream(c[1])
    BY <1>0, CurrentFacts DEF ThreadTypes
  <2>4. PICK w \in Seq(StepNames) : w = todo[t]
    BY <1>0 DEF ThreadTypes
  <2>5. w # <<>> /\ Head(w) = "input_wait" /\ Between(w, c, Ctx(t), n)
    BY <1>1, <2>3, <2>4 DEF at, InputInv, ThreadInv
  <2>6. Has(w, "input_wait") /\ ~Has(w, "input")
    BY <2>5, HeadFirst, RankValues DEF Between
  <2>7. Published(c, n)
    BY <2>5, <2>6 DEF Between
  <2>8. Works(t, {kind})
    BY <1>1, <2>1, <2>2, <2>3, <2>7 DEF Works
  <2>9. Synced(c)'
    <3>1. Len(stream[s]) \in Nat /\ program' = program
      BY <1>0, StreamLengths DEF HostShape
    <3>2. Len(stream[s]) + 1 \in 1 .. Len(stream'[s]) /\ stream'[s][Len(stream[s]) + 1] = item(kind, t)
      BY <2>2, <2>3, <3>1
    <3>3. item(kind, t).kind = "wait_ready" /\ item(kind, t).coll = c
      BY <2>1, <2>3 DEF item
    <3>4. PcieStream(c[1])' = s
      BY <2>3, <3>1 DEF PcieStream
    <3>. QED BY <3>2, <3>3, <3>4 DEF Synced
  <2>. QED BY <1>1, <1>2, <2>1, <2>3, <2>8, <2>9, AdvanceOK DEF at
<1>3. CASE Instead(t, "sync_user", 1) /\ stream' = stream
  <2>1. Fallback(todo[t], "sync_user", 1)
    BY <1>1 DEF at, Fallback
  <2>2. Works(t, {})
    BY <1>0, <1>1, <1>3, ExtendedByNone DEF Works
  <2>. QED BY <1>1, <1>3, <2>1, <2>2, FallbackOK
<1>. QED BY <1>2, <1>3 DEF EnqueueInputWait

(* The host waited until nothing is queued on the stream of the call.      *)
LEMMA SynchronizedOK ==
  ASSUME Types, Types', InputInv, NEW t \in Threads, HostShape(t), SynchronizeUser(t)
  PROVE  InputInv'
<1>0. ThreadTypes /\ Stream(t) \in Streams /\ StreamTypes
  BY CurrentFacts DEF Types
<1>1. Keeps(t) /\ UNCHANGED <<happened, token, stream>> /\ at(t, "sync_user") /\ next(t) /\ stream[Stream(t)] = <<>>
  BY DEF SynchronizeUser, HostStep, Keeps, quiet, locals, device, sync
<1>2. Works(t, {})
  BY <1>0, <1>1, ExtendedByNone DEF Works
<1>3. PICK c \in Colls : c = Current(t) /\ Stream(t) = Call(c).stream
  BY <1>0, CurrentFacts
<1>4. Coming(c)
  BY <1>1, <1>3 DEF InputInv, ThreadInv, Between, Calling, at
<1>5. Produced(c)
  <2>1. Len(stream[Call(c).stream]) = 0
    BY <1>1, <1>3
  <2>. QED BY <1>4, <2>1 DEF Coming
<1>6. Synced(c)'
  BY <1>1, <1>5 DEF Synced, Produced
<1>. QED BY <1>1, <1>2, <1>3, <1>6, AdvanceOK DEF at

(* A ticket is above every ticket of its context that is queued or         *)
(* written.                                                                *)
LEMMA TicketStepOK ==
  ASSUME Types, Types', InputInv, NEW t \in Threads, HostShape(t), BeginValueSync(t)
  PROVE  InputInv'
<1>0. ThreadTypes /\ StreamTypes /\ SyncTypes
  BY DEF Types
<1>1. /\ Takes(t) /\ UNCHANGED <<happened, token, stream>> /\ next(t) /\ at(t, "begin")
      /\ index' = index /\ ticket' = [ticket EXCEPT ![t] = sequence[Ctx(t)]]
  BY DEF BeginValueSync, Takes, quiet, locals, device
<1>2. Works(t, {})
  BY <1>0, <1>1, ExtendedByNone DEF Works
<1>3. PICK c \in Colls, x \in Contexts, n \in Nat, w \in Seq(StepNames) :
           /\ c = Current(t) /\ x = Ctx(t) /\ n = ticket[t] /\ w = todo[t]
           /\ Current(t)' = c /\ Ctx(t)' = x /\ Call(c)' = Call(c)
           /\ (Coming(c) => Coming(c)') /\ (Synced(c) => Synced(c)')
           /\ \A q : Published(c, q) => Published(c, q)'
           /\ Between(w, c, x, n)
  BY <1>1, <1>2, SelfFrame
<1>4. PICK m \in Nat : m = sequence[x]
  BY <1>0, <1>3 DEF SyncTypes
<1>5. Unused(x, m)
  <2>1. ASSUME NEW s \in Streams, NEW j \in 1 .. Len(stream[s]), stream[s][j].kind = "ready", stream[s][j].ctx = x
        PROVE  stream[s][j].seq < m
    BY <1>4, <2>1 DEF InputInv, ItemsInv, ItemInv, TicketInv
  <2>2. \A k \in Slots : token[x].input[k] < m
    BY <1>4 DEF InputInv, TokensInv
  <2>. QED BY <2>1, <2>2 DEF Unused
<1>6. Unused(x, m)'
  BY <1>2, <1>5, UnusedStays
<1>7. w # <<>> /\ Head(w) = "begin"
  BY <1>1, <1>3 DEF at
<1>8. Between(Tail(w), c, x, m)'
  BY <1>3, <1>6, <1>7, BetweenTail
<1>9. todo'[t] = Tail(w) /\ ticket'[t] = m
  BY <1>0, <1>1, <1>3, <1>4 DEF next, ThreadTypes
<1>10. ThreadInv(t)'
  BY <1>3, <1>8, <1>9 DEF ThreadInv
<1>. QED BY <1>2, <1>10, WorksOK

(* The collective returns, and the next one has yet to begin. *)
LEMMA ReturnStepOK ==
  ASSUME Types, Types', InputInv, NEW t \in Threads, HostShape(t), Return(t)
  PROVE  InputInv'
<1>0. ThreadTypes /\ StreamTypes /\ Stream(t) \in Streams
  BY CurrentFacts DEF Types
<1>1. /\ GivesBack(t) /\ UNCHANGED <<happened, token>> /\ at(t, "return")
      /\ ticket' = [ticket EXCEPT ![t] = NoTicket]
      /\ stream' = stream \/ enqueue(Stream(t), item("consume", t))
      /\ todo' = [todo EXCEPT ![t] = <<"call">>] \/ (index' = index /\ next(t))
  BY DEF Return, GivesBack, quiet, device
<1>2. PICK kind \in Kinds \ {"ready", "wait_ready", "pcie"} : kind = "consume"
  BY DEF Kinds
<1>3. Extended(t, {kind})
  BY <1>0, <1>1, <1>2, ExtendedByOne, ExtendedByNone
<1>4. Works(t, {kind})
  BY <1>1, <1>3 DEF Works
<1>5. ticket'[t] = NoTicket
  BY <1>0, <1>1 DEF ThreadTypes
<1>6. CASE todo' = [todo EXCEPT ![t] = <<"call">>]
  <2>0. <<"call">> \in Seq(StepNames)
    BY DEF StepNames
  <2>1. PICK w \in Seq(StepNames) : w = <<"call">>
    BY <2>0
  <2>2. todo'[t] = w
    BY <1>0, <1>6, <2>1 DEF ThreadTypes
  <2>3. Len(w) = 1 /\ w[1] = "call" /\ Head(w) = "call" /\ w # <<>>
    BY <2>1
  <2>4. InOrder(w) /\ \A step : Has(w, step) => step = "call"
    BY <2>3 DEF InOrder, Ranked, Paired, Has
  <2>5. ThreadInv(t)'
    BY <1>5, <2>2, <2>3, <2>4 DEF ThreadInv, Between, Calling, NoTicket
  <2>. QED BY <1>4, <2>5, WorksOK
<1>7. CASE index' = index /\ next(t)
  <2>1. PICK c \in Colls, x \in Contexts, n \in Nat, w \in Seq(StepNames) :
             /\ c = Current(t) /\ x = Ctx(t) /\ n = ticket[t] /\ w = todo[t]
             /\ Current(t)' = c /\ Ctx(t)' = x /\ Call(c)' = Call(c)
             /\ (Coming(c) => Coming(c)') /\ (Synced(c) => Synced(c)')
             /\ \A q : Published(c, q) => Published(c, q)'
             /\ Between(w, c, x, n)
    BY <1>4, <1>7, SelfFrame
  <2>2. w # <<>> /\ Head(w) = "return"
    BY <1>1, <2>1 DEF at
  <2>3. PICK m \in Nat : m = NoTicket
    BY DEF NoTicket
  <2>4. Between(Tail(w), c, x, m)'
    BY <2>1, <2>2, <2>3, BetweenTail
  <2>5. todo'[t] = Tail(w) /\ ticket'[t] = m
    BY <1>0, <1>5, <1>7, <2>1, <2>3 DEF next, ThreadTypes
  <2>6. ThreadInv(t)'
    BY <2>1, <2>4, <2>5 DEF ThreadInv
  <2>. QED BY <1>4, <2>6, WorksOK
<1>. QED BY <1>1, <1>6, <1>7

(* The application queues the work that produces the input, and calls. *)
LEMMA CallStepOK ==
  ASSUME Types, Types', InputInv, NEW t \in Threads, HostShape(t), StartCall(t)
  PROVE  InputInv'
<1>0. ThreadTypes /\ StreamTypes /\ Stream(t) \in Streams
  BY CurrentFacts DEF Types
<1>1. /\ Keeps(t) /\ UNCHANGED <<happened, token>> /\ at(t, "call") /\ index' = index /\ ticket' = ticket
      /\ enqueue(Stream(t), item("produce", t))
      /\ todo' = [todo EXCEPT ![t] = StepsOf(Call(Current(t)).op, LaunchPlan(Current(t))) \o <<"return">>]
  BY DEF StartCall, Keeps, device, sync
<1>2. PICK kind \in Kinds \ {"ready", "wait_ready", "pcie"} : kind = "produce"
  BY DEF Kinds
<1>3. /\ Extended(t, {kind})
      /\ stream'[Stream(t)][Len(stream[Stream(t)]) + 1] = item(kind, t)
      /\ Len(stream'[Stream(t)]) = Len(stream[Stream(t)]) + 1
  BY <1>0, <1>1, <1>2, ExtendedByOne
<1>4. Works(t, {kind})
  BY <1>1, <1>3 DEF Works
<1>5. PICK c \in Colls, x \in Contexts, n \in Nat, w \in Seq(StepNames) :
           /\ c = Current(t) /\ x = Ctx(t) /\ n = ticket[t] /\ w = todo[t]
           /\ Current(t)' = c /\ Ctx(t)' = x /\ Call(c)' = Call(c)
           /\ (Coming(c) => Coming(c)') /\ (Synced(c) => Synced(c)')
           /\ \A q : Published(c, q) => Published(c, q)'
           /\ Between(w, c, x, n)
  BY <1>1, <1>4, SelfFrame
<1>6. n = NoTicket
  <2>1. w # <<>> /\ Head(w) = "call"
    BY <1>1, <1>5 DEF at
  <2>. QED BY <1>5, <2>1, HeadFirst DEF Between
<1>7. Coming(c)'
  <2>1. PICK s \in Streams : s = Stream(t) /\ s = Call(c).stream
    BY <1>0, <1>5, CurrentFacts
  <2>2. Len(stream[s]) \in Nat
    BY <1>0, StreamLengths
  <2>3. Len(stream[s]) + 1 \in 1 .. Len(stream'[s]) /\ stream'[s][Len(stream[s]) + 1] = item(kind, t)
    BY <1>3, <2>1, <2>2
  <2>4. item(kind, t).kind = "produce" /\ item(kind, t).coll = c
    BY <1>2, <1>5 DEF item
  <2>5. Call(c)'.stream = s
    BY <1>5, <2>1
  <2>. QED BY <2>3, <2>4, <2>5 DEF Coming
<1>8. PICK p, v : p = LaunchPlan(c) /\ v = StepsOf(Call(c).op, p) \o <<"return">>
  OBVIOUS
<1>9. Between(v, c, x, n)'
  <2>1. Call(c).op \in {"AllReduce", "AllGather", "ReduceScatter", "AllToAll"}
    BY <1>0, CollFacts DEF ThreadTypes
  <2>2. v = StepsOf(Call(c).op, p) \o <<"return">> /\ Call(c)' = Call(c)
    BY <1>5, <1>8
  <2>. QED BY <1>6, <1>7, <2>1, <2>2, BetweenStart
<1>10. todo'[t] = v /\ ticket'[t] = n
  BY <1>0, <1>1, <1>5, <1>6, <1>8 DEF ThreadTypes
<1>11. ThreadInv(t)'
  BY <1>5, <1>9, <1>10 DEF ThreadInv, NoTicket
<1>. QED BY <1>4, <1>11, WorksOK

(* No step of a host thread breaks the order of the two streams. *)
LEMMA HostStepOK ==
  ASSUME Types, InputInv, NEW t \in Threads, HostNext(t)
  PROVE  Types' /\ InputInv'
<1>1. Types' /\ HostShape(t)
  BY HostOK
<1>2. CASE StartCall(t) \/ BeginValueSync(t) \/ Return(t)
  BY <1>1, <1>2, CallStepOK, TicketStepOK, ReturnStepOK
<1>3. CASE EnqueueInputReady(t) \/ EnqueueInputWait(t) \/ SynchronizeUser(t) \/ SynchronizeFails(t)
  BY <1>1, <1>3, ReadyStepOK, WaitStepOK, SynchronizedOK, FailStepOK
<1>4. CASE Pack(t) \/ FastPart(t) \/ WaitEventOnStream(t) \/ SyncPcieStream(t) \/ EnqueueCallback(t)
  BY <1>1, <1>4, PlainStepOK
<1>5. CASE PciePart(t) \/ EnqueueWrite(t) \/ EnqueueWait(t) \/ Merge(t)
  BY <1>1, <1>5, PcieStepOK, CompletionStepOK, MergeStepOK
<1>6. CASE RegisterPending(t) \/ AttachTimers(t) \/ NoValueSync(t) \/ Allocate(t)
  BY <1>1, <1>6, RecordStepOK
<1>. QED BY <1>1, <1>2, <1>3, <1>4, <1>5, <1>6 DEF HostNext

-----------------------------------------------------------------------------
(* What the device executes *)

(* The first operation of stream s is taken off it. *)
Executes(s) ==
  /\ stream[s] # <<>> /\ executed(s) /\ program' = program
  /\ UNCHANGED <<todo, index, ticket, lock, sequence>>

(* How far the places of stream q move *)
Shift(q, s) == IF q = s THEN 1 ELSE 0

(* Every operation of stream q has moved d places to the front, the first  *)
(* of stream s is gone.                                                    *)
Moved(q, s, d) ==
  /\ Len(stream[q]) \in Nat /\ d \in 0 .. 1
  /\ \A j \in 1 .. Len(stream'[q]) : j + d \in 1 .. Len(stream[q]) /\ stream'[q][j] = stream[q][j + d]
  /\ \A j \in 1 .. Len(stream[q]) : j > d => j - d \in 1 .. Len(stream'[q]) /\ stream'[q][j - d] = stream[q][j]
  /\ \A j \in 1 .. Len(stream[q]) : j <= d => q = s /\ j = 1 /\ stream[q][j] = Head(stream[s])
  /\ 1 \in 1 .. Len(stream[s]) /\ stream[s][1] = Head(stream[s])

(* The places of a stream once its first operation is executed. *)
LEMMA ShiftFacts ==
  ASSUME StreamTypes, NEW s \in Streams, stream[s] # <<>>, executed(s), NEW q \in Streams
  PROVE  Moved(q, s, Shift(q, s))
<1>1. stream[s] \in Seq(ItemsOf(s)) /\ stream[q] \in Seq(ItemsOf(q))
  BY DEF StreamTypes
<1>2. stream'[q] = IF q = s THEN Tail(stream[s]) ELSE stream[q]
  BY DEF executed, StreamTypes
<1>3. 1 \in 1 .. Len(stream[s]) /\ stream[s][1] = Head(stream[s])
  BY <1>1
<1>4. CASE q = s
  <2>1. /\ Len(Tail(stream[s])) = Len(stream[s]) - 1 /\ Len(stream[s]) \in Nat \ {0}
        /\ \A j \in 1 .. Len(stream[s]) - 1 : Tail(stream[s])[j] = stream[s][j + 1]
    BY <1>1
  <2>. DEFINE n == Len(stream[s])
              u == stream[s]
              v == stream'[s]
  <2>2. n \in Nat \ {0} /\ Len(v) = n - 1 /\ (\A j \in 1 .. n - 1 : v[j] = u[j + 1]) /\ u[1] = Head(u)
    BY <1>2, <1>3, <1>4, <2>1
  <2>. HIDE DEF n, u, v
  <2>3. /\ \A j \in 1 .. Len(v) : j + 1 \in 1 .. n /\ v[j] = u[j + 1]
        /\ \A j \in 1 .. n : j > 1 => j - 1 \in 1 .. Len(v) /\ v[j - 1] = u[j]
        /\ \A j \in 1 .. n : j <= 1 => j = 1 /\ u[j] = Head(u)
    BY <2>2
  <2>. QED BY <1>3, <1>4, <2>2, <2>3 DEF Moved, Shift, n, u, v
<1>5. CASE q # s
  <2>1. Len(stream[q]) \in Nat /\ stream'[q] = stream[q]
    BY <1>1, <1>2, <1>5
  <2>. QED BY <1>3, <1>5, <2>1 DEF Moved, Shift
<1>. QED BY <1>4, <1>5

(* The device produces the input, before it publishes the token, before    *)
(* it goes on where the token is awaited.                                  *)
Faithful(s) ==
  LET o == Head(stream[s])
  IN /\ \A c \in Colls : Produced(c) => Produced(c)'
     /\ o.kind = "produce" => "produce" \in happened'[o.coll]
     /\ o.kind = "wait_ready" => Produced(o.coll)
     /\ \A x \in Contexts, k \in Slots :
          \/ token'[x].input[k] = token[x].input[k]
          \/ o.kind = "ready" /\ x = o.ctx /\ token'[x].input[k] = o.seq

(* What is executed counts as done. *)
LEMMA QueuedOrDone ==
  ASSUME Types, ItemsInv, NEW s \in Streams, Executes(s), Faithful(s), NEW c \in Colls
  PROVE  /\ (Coming(c) => Coming(c)') /\ (Synced(c) => Synced(c)')
         /\ \A q : Published(c, q) => Published(c, q)'
<1>0. StreamTypes /\ stream[s] # <<>> /\ executed(s) /\ program' = program
  BY DEF Types, Executes
<1>1. Call(c)' = Call(c) /\ PcieStream(c[1])' = PcieStream(c[1]) /\ (Produced(c) => Produced(c)')
  BY <1>0 DEF Call, PcieStream, Faithful
<1>2. PICK u \in Streams, v \in Streams : u = Call(c).stream /\ v = PcieStream(c[1])
  BY CollFacts DEF Types, ThreadTypes
<1>3. \A q \in Streams : \A j \in 1 .. Len(stream[q]) :
        \/ \E i \in 1 .. Len(stream'[q]) : stream'[q][i] = stream[q][j]
        \/ q = s /\ j = 1 /\ stream[q][j] = Head(stream[s])
  <2>. TAKE q \in Streams
  <2>. TAKE j \in 1 .. Len(stream[q])
  <2>1. PICK d : d = Shift(q, s)
    OBVIOUS
  <2>2. /\ d \in 0 .. 1
        /\ \A i \in 1 .. Len(stream[q]) : i > d => i - d \in 1 .. Len(stream'[q]) /\ stream'[q][i - d] = stream[q][i]
        /\ \A i \in 1 .. Len(stream[q]) : i <= d => q = s /\ i = 1 /\ stream[q][i] = Head(stream[s])
    <3>1. Moved(q, s, d)
      BY <1>0, <2>1, ShiftFacts
    <3>. QED BY <3>1 DEF Moved
  <2>3. CASE j > d
    BY <2>2, <2>3
  <2>4. CASE ~(j > d)
    <3>1. j <= d
      BY <2>2, <2>4
    <3>. QED BY <2>2, <3>1
  <2>. QED BY <2>3, <2>4
<1>4. /\ Head(stream[s]).kind = "produce" => "produce" \in happened'[Head(stream[s]).coll]
      /\ Head(stream[s]).kind = "wait_ready" => Produced(Head(stream[s]).coll)
  BY DEF Faithful
<1>5. Head(stream[s]).kind = "ready" => Produced(Head(stream[s]).coll)
  <2>1. 1 \in 1 .. Len(stream[s]) /\ stream[s][1] = Head(stream[s])
    BY <1>0, ShiftFacts DEF Moved
  <2>2. ReadyInv(s, 1)
    BY <2>1 DEF ItemsInv, ItemInv
  <2>. QED BY <2>1, <2>2 DEF ReadyInv
<1>6. Coming(c) => Coming(c)'
  <2>. SUFFICES ASSUME NEW j \in 1 .. Len(stream[u]), stream[u][j].kind = "produce", stream[u][j].coll = c
                PROVE  Coming(c)'
    BY <1>1, <1>2 DEF Coming
  <2>1. CASE \E i \in 1 .. Len(stream'[u]) : stream'[u][i] = stream[u][j]
    BY <1>1, <1>2, <2>1 DEF Coming
  <2>2. CASE stream[u][j] = Head(stream[s])
    BY <1>4, <2>2 DEF Coming, Produced
  <2>. QED BY <1>3, <2>1, <2>2
<1>7. Synced(c) => Synced(c)'
  <2>. SUFFICES ASSUME NEW j \in 1 .. Len(stream[v]), stream[v][j].kind = "wait_ready", stream[v][j].coll = c
                PROVE  Synced(c)'
    BY <1>1, <1>2 DEF Synced
  <2>1. CASE \E i \in 1 .. Len(stream'[v]) : stream'[v][i] = stream[v][j]
    BY <1>1, <1>2, <2>1 DEF Synced
  <2>2. CASE stream[v][j] = Head(stream[s])
    BY <1>1, <1>4, <2>2 DEF Synced
  <2>. QED BY <1>3, <2>1, <2>2
<1>8. ASSUME NEW q, Published(c, q)
      PROVE  Published(c, q)'
  <2>. SUFFICES ASSUME NEW j \in 1 .. Len(stream[u]), stream[u][j].kind = "ready", stream[u][j].coll = c,
                       stream[u][j].seq = q
                PROVE  Published(c, q)'
    BY <1>1, <1>2, <1>8 DEF Published
  <2>1. CASE \E i \in 1 .. Len(stream'[u]) : stream'[u][i] = stream[u][j]
    BY <1>1, <1>2, <2>1 DEF Published
  <2>2. CASE stream[u][j] = Head(stream[s])
    BY <1>1, <1>5, <2>2 DEF Published
  <2>. QED BY <1>3, <2>1, <2>2
<1>. QED BY <1>6, <1>7, <1>8

(* What stays queued is where the invariant wants it. *)
LEMMA ItemsShift ==
  ASSUME Types, Types', DeviceTypes, DeviceTypes', ItemsInv, NEW s \in Streams, Executes(s), Faithful(s)
  PROVE  ItemsInv'
<1>0. StreamTypes /\ stream[s] # <<>> /\ executed(s) /\ program' = program /\ SameProgram /\ sequence' = sequence
  BY ProgramStays DEF Types, Executes
<1>. SUFFICES ASSUME NEW q \in Streams, NEW j \in 1 .. Len(stream'[q])
              PROVE  ItemInv(q, j)'
  BY <1>0 DEF ItemsInv, SameProgram
<1>1. PICK o : o = Head(stream[s])
  OBVIOUS
<1>2. PICK d \in 0 .. 1 : d = Shift(q, s)
  BY DEF Shift
<1>3. /\ Len(stream[q]) \in Nat /\ j + d \in 1 .. Len(stream[q])
      /\ \A i \in 1 .. Len(stream'[q]) : stream'[q][i] = stream[q][i + d]
      /\ \A i \in 1 .. Len(stream[q]) : i > d => i - d \in 1 .. Len(stream'[q]) /\ stream'[q][i - d] = stream[q][i]
      /\ \A i \in 1 .. Len(stream[q]) : i <= d => q = s /\ i = 1 /\ stream[q][i] = o
      /\ 1 \in 1 .. Len(stream[s]) /\ stream[s][1] = o
  <2>1. Moved(q, s, d)
    BY <1>0, <1>2, ShiftFacts
  <2>. QED BY <1>1, <2>1 DEF Moved
<1>4. PICK y : y = stream[q][j + d] /\ y = stream'[q][j]
  BY <1>3
<1>5. y \in ItemsOf(q) /\ o \in ItemsOf(s)
  BY <1>0, <1>3, <1>4, StreamLengths
<1>6. PICK c \in Colls, x \in Contexts, n \in Nat : c = y.coll /\ x = y.ctx /\ n = y.seq
  BY <1>5 DEF ItemsOf, Items
<1>7. ItemInv(q, j + d)
  BY <1>3 DEF ItemsInv
<1>8. \A i \in 1 .. (j + d) - 1 :
        (i - d \in 1 .. j - 1 /\ stream'[q][i - d] = stream[q][i]) \/ stream[q][i] = o
  <2>. TAKE i \in 1 .. (j + d) - 1
  <2>1. i \in 1 .. Len(stream[q])
    BY <1>3
  <2>2. CASE i > d
    <3>1. i - d \in 1 .. j - 1
      BY <2>2
    <3>. QED BY <1>3, <2>1, <2>2, <3>1
  <2>3. CASE i <= d
    BY <1>3, <2>1, <2>3
  <2>. QED BY <2>2, <2>3
<1>9. Produced(c) => Produced(c)'
  BY DEF Faithful
<1>10. /\ o.kind = "produce" => "produce" \in happened'[o.coll]
       /\ o.kind = "wait_ready" => Produced(o.coll)
  BY <1>1 DEF Faithful
<1>11. ReadyInv(q, j)'
  <2>. SUFFICES ASSUME y.kind = "ready"
                PROVE  Produced(c)' \/ \E i \in 1 .. j - 1 : stream'[q][i].kind = "produce" /\ stream'[q][i].coll = c
    BY <1>4, <1>6 DEF ReadyInv
  <2>1. CASE Produced(c)
    BY <1>9, <2>1
  <2>2. CASE \E i \in 1 .. (j + d) - 1 : stream[q][i].kind = "produce" /\ stream[q][i].coll = c
    <3>1. PICK i \in 1 .. (j + d) - 1 : stream[q][i].kind = "produce" /\ stream[q][i].coll = c
      BY <2>2
    <3>2. CASE i - d \in 1 .. j - 1 /\ stream'[q][i - d] = stream[q][i]
      BY <3>1, <3>2
    <3>3. CASE stream[q][i] = o
      BY <1>10, <3>1, <3>3 DEF Produced
    <3>. QED BY <1>8, <3>2, <3>3
  <2>. QED BY <1>4, <1>6, <1>7, <2>1, <2>2 DEF ItemInv, ReadyInv
<1>12. PcieInv(q, j)'
  <2>. SUFFICES ASSUME y.kind = "pcie", Call(c).op # "AllToAll"
                PROVE  Produced(c)' \/ \E i \in 1 .. j - 1 : stream'[q][i].kind = "wait_ready" /\ stream'[q][i].coll = c
    BY <1>0, <1>4, <1>6 DEF PcieInv, Call
  <2>1. CASE Produced(c)
    BY <1>9, <2>1
  <2>2. CASE \E i \in 1 .. (j + d) - 1 : stream[q][i].kind = "wait_ready" /\ stream[q][i].coll = c
    <3>1. PICK i \in 1 .. (j + d) - 1 : stream[q][i].kind = "wait_ready" /\ stream[q][i].coll = c
      BY <2>2
    <3>2. CASE i - d \in 1 .. j - 1 /\ stream'[q][i - d] = stream[q][i]
      BY <3>1, <3>2
    <3>3. CASE stream[q][i] = o
      BY <1>9, <1>10, <3>1, <3>3
    <3>. QED BY <1>8, <3>2, <3>3
  <2>. QED BY <1>4, <1>6, <1>7, <2>1, <2>2 DEF ItemInv, PcieInv
<1>13. WaitInv(q, j)'
  <2>. SUFFICES ASSUME y.kind = "wait_ready"
                PROVE  Published(c, n)'
    BY <1>4, <1>6 DEF WaitInv
  <2>1. Published(c, n)
    BY <1>4, <1>6, <1>7 DEF ItemInv, WaitInv
  <2>. QED BY <2>1, QueuedOrDone
<1>14. TicketInv(q, j)'
  <2>. SUFFICES ASSUME y.kind = "ready"
                PROVE  /\ n < sequence'[x]
                       /\ \A k \in Slots : token'[x].input[k] < n
                       /\ \A i \in 1 .. j - 1 : stream'[q][i].kind = "ready" /\ stream'[q][i].ctx = x =>
                                                  stream'[q][i].seq < n
    BY <1>4, <1>6 DEF TicketInv, Slots
  <2>1. /\ n < sequence[x] /\ (\A k \in Slots : token[x].input[k] < n)
        /\ \A i \in 1 .. (j + d) - 1 : stream[q][i].kind = "ready" /\ stream[q][i].ctx = x => stream[q][i].seq < n
    BY <1>4, <1>6, <1>7 DEF ItemInv, TicketInv
  <2>2. \A i \in 1 .. j - 1 : i + d \in 1 .. (j + d) - 1 /\ stream'[q][i] = stream[q][i + d]
    BY <1>3
  <2>3. ASSUME NEW k \in Slots
        PROVE  token'[x].input[k] < n
    <3>1. token'[x].input[k] = token[x].input[k] \/ (o.kind = "ready" /\ x = o.ctx /\ token'[x].input[k] = o.seq)
      BY <1>1 DEF Faithful
    <3>2. CASE o.kind = "ready" /\ x = o.ctx
      <4>0. ASSUME NEW r, NEW z, z \in ItemsOf(r), z.kind = "ready"
            PROVE  r = z.ctx[2]
        BY <4>0 DEF ItemsOf, Place, CtxOf, PcieKinds
      <4>1. q = y.ctx[2]
        BY <1>5, <4>0
      <4>2. s = o.ctx[2]
        BY <1>5, <3>2, <4>0
      <4>3. q = s
        BY <1>6, <3>2, <4>1, <4>2
      <4>4. d = 1
        BY <1>2, <4>3 DEF Shift
      <4>5. 1 \in 1 .. (j + d) - 1
        BY <4>4
      <4>6. o.seq < n
        BY <1>3, <2>1, <3>2, <4>3, <4>5
      <4>. QED BY <2>1, <3>1, <4>6
    <3>. QED BY <2>1, <3>1, <3>2
  <2>. QED BY <1>0, <2>1, <2>2, <2>3
<1>. QED BY <1>11, <1>12, <1>13, <1>14 DEF ItemInv

(* It is enough to look at what is executed. *)
LEMMA ExecutesOK ==
  ASSUME Types, Types', InputInv, DeviceTypes', NEW s \in Streams, Executes(s), Faithful(s)
  PROVE  InputInv'
<1>0. /\ ThreadTypes /\ StreamTypes /\ stream[s] # <<>> /\ executed(s) /\ program' = program /\ SameProgram
      /\ UNCHANGED <<todo, index, ticket, lock, sequence>> /\ DeviceTypes /\ ItemsInv
  BY ProgramStays DEF Types, Executes, InputInv
<1>1. PICK o : o = Head(stream[s])
  OBVIOUS
<1>2. 1 \in 1 .. Len(stream[s]) /\ stream[s][1] = o
  BY <1>0, <1>1, ShiftFacts DEF Moved
<1>3. \A x \in Contexts, k \in Slots :
        \/ token'[x].input[k] = token[x].input[k]
        \/ o.kind = "ready" /\ x = o.ctx /\ token'[x].input[k] = o.seq
  BY <1>1 DEF Faithful
<1>4. ItemsInv'
  BY <1>0, ItemsShift
<1>5. TokensInv'
  <2>. SUFFICES ASSUME NEW x \in Contexts, NEW k \in Slots
                PROVE  token'[x].input[k] < sequence[x]
    BY <1>0 DEF TokensInv, SameProgram, Slots
  <2>1. token[x].input[k] < sequence[x]
    BY DEF InputInv, TokensInv
  <2>2. o.kind = "ready" => o.seq < sequence[o.ctx]
    BY <1>0, <1>2 DEF ItemsInv, ItemInv, TicketInv
  <2>. QED BY <1>3, <2>1, <2>2
<1>6. ASSUME NEW t \in Threads
      PROVE  ThreadInv(t)'
  <2>1. PICK c \in Colls, x \in Contexts, n \in Nat, w \in Seq(StepNames) :
          c = Current(t) /\ x = Ctx(t) /\ n = ticket[t] /\ w = todo[t]
    BY <1>0, CurrentFacts DEF ThreadTypes
  <2>2. Current(t)' = c /\ Ctx(t)' = x /\ ticket'[t] = n /\ todo'[t] = w /\ Call(c)' = Call(c)
    BY <1>0, <2>1 DEF Current, Ctx, Stream, Call
  <2>3. Between(w, c, x, n)
    BY <2>1 DEF InputInv, ThreadInv
  <2>4. (Coming(c) => Coming(c)') /\ (Synced(c) => Synced(c)') /\ (Published(c, n) => Published(c, n)')
    BY <1>0, QueuedOrDone
  <2>5. ASSUME Unused(x, n)
        PROVE  Unused(x, n)'
    <3>1. ASSUME NEW q \in Streams, NEW j \in 1 .. Len(stream'[q]), stream'[q][j].kind = "ready", stream'[q][j].ctx = x
          PROVE  stream'[q][j].seq < n
      <4>1. PICK i \in 1 .. Len(stream[q]) : stream'[q][j] = stream[q][i]
        <5>1. Moved(q, s, Shift(q, s))
          BY <1>0, ShiftFacts
        <5>. QED BY <5>1 DEF Moved
      <4>. QED BY <2>5, <3>1, <4>1 DEF Unused
    <3>2. ASSUME NEW k \in Slots
          PROVE  token'[x].input[k] < n
      <4>1. token[x].input[k] < n
        BY <2>5 DEF Unused
      <4>2. o.kind = "ready" /\ x = o.ctx => o.seq < n
        BY <1>2, <2>5 DEF Unused
      <4>. QED BY <1>3, <4>1, <4>2
    <3>. QED BY <1>0, <3>1, <3>2 DEF Unused, SameProgram, Slots
  <2>6. Between(w, c, x, n)'
    BY <2>2, <2>3, <2>4, <2>5, BetweenStays
  <2>. QED BY <2>2, <2>6 DEF ThreadInv
<1>7. LockInv'
  <2>1. \A t \in Threads : Ctx(t)' = Ctx(t) /\ Granted(t)' = Granted(t)
    BY <1>0 DEF Ctx, Stream, Call, Current, Granted
  <2>. QED BY <1>0, <2>1 DEF InputInv, LockInv, SameProgram
<1>. QED BY <1>0, <1>4, <1>5, <1>6, <1>7 DEF InputInv, SameProgram

(* A token that is waited for and found was written by its own collective: *)
(* what a slot holds is below every ticket that is still queued.           *)
LEMMA WaitEnds ==
  ASSUME Types, InputInv, NEW s \in Streams, stream[s] # <<>>, NEW o, o = Head(stream[s]), o.kind = "wait_ready",
         token[o.ctx].input[Slot(o)] >= o.seq
  PROVE  Produced(o.coll)
<1>0. StreamTypes /\ ThreadTypes /\ ItemsInv /\ DeviceTypes
  BY DEF Types, InputInv
<1>1. 1 \in 1 .. Len(stream[s]) /\ stream[s][1] = o
  <2>1. stream[s] \in Seq(ItemsOf(s))
    BY <1>0 DEF StreamTypes
  <2>. QED BY <2>1
<1>2. o \in ItemsOf(s)
  BY <1>0, <1>1, StreamLengths
<1>3. PICK c \in Colls, x \in Contexts, n \in Nat : c = o.coll /\ x = o.ctx /\ n = o.seq /\ x = CtxOf(c)
  BY <1>2 DEF ItemsOf, Items
<1>4. PICK k \in Slots : k = Slot(o)
  <2>1. RingSize \in Nat \ {0}
    BY CollectiveAssumption
  <2>2. n % RingSize \in 0 .. RingSize - 1
    BY <2>1
  <2>. QED BY <1>3, <2>2 DEF Slots, Slot
<1>5. Published(c, n)
  BY <1>0, <1>1, <1>3 DEF ItemsInv, ItemInv, WaitInv
<1>6. PICK u \in Streams : u = Call(c).stream
  BY <1>0, CollFacts DEF ThreadTypes
<1>7. ASSUME NEW j \in 1 .. Len(stream[u]), stream[u][j].kind = "ready", stream[u][j].coll = c, stream[u][j].seq = n
      PROVE  FALSE
  <2>1. stream[u][j] \in ItemsOf(u)
    BY <1>0, StreamLengths
  <2>2. stream[u][j].ctx = x
    BY <1>3, <1>7, <2>1 DEF ItemsOf
  <2>3. token[x].input[k] < n
    BY <1>0, <1>7, <2>2 DEF ItemsInv, ItemInv, TicketInv
  <2>4. token[x].input[k] \in Nat /\ token[x].input[k] >= n
    BY <1>0, <1>3, <1>4 DEF DeviceTypes
  <2>. QED BY <2>3, <2>4
<1>. QED BY <1>3, <1>5, <1>6, <1>7 DEF Published

(* The events K happen to collective c. *)
Happens(c, K) == happened' = [happened EXCEPT ![c] = @ \cup K]

(* What happened stays on the record. *)
LEMMA HappenedGrows ==
  ASSUME DeviceTypes, program' = program, token' = token,
         happened' = happened \/ \E c \in Colls, K \in SUBSET Events : Happens(c, K)
  PROVE  DeviceTypes' /\ \A c \in Colls : Produced(c) => Produced(c)'
<1>0. SameProgram
  BY ProgramStays
<1>1. happened' \in [Colls -> SUBSET Events] /\ \A c \in Colls : happened[c] \subseteq happened'[c]
  <2>1. CASE happened' = happened
    BY <2>1 DEF DeviceTypes
  <2>2. CASE \E c \in Colls, K \in SUBSET Events : Happens(c, K)
    <3>1. PICK c \in Colls, K \in SUBSET Events : Happens(c, K)
      BY <2>2
    <3>2. happened[c] \cup K \in SUBSET Events
      BY DEF DeviceTypes
    <3>3. \A q \in Colls : happened'[q] = IF q = c THEN happened[c] \cup K ELSE happened[q]
      BY <3>1 DEF DeviceTypes, Happens
    <3>4. happened' \in [Colls -> SUBSET Events]
      BY <3>1, <3>2 DEF DeviceTypes, Happens
    <3>. QED BY <3>3, <3>4
  <2>. QED BY <2>1, <2>2
<1>. QED BY <1>0, <1>1 DEF DeviceTypes, SameProgram, Produced, Events, Slots, Kinds

(* A device that changes no token *)
LEMMA EventOK ==
  ASSUME Types, Types', InputInv, NEW s \in Streams, Executes(s), token' = token,
         happened' = happened \/ \E c \in Colls, K \in SUBSET Events : Happens(c, K),
         Head(stream[s]).kind = "produce" => "produce" \in happened'[Head(stream[s]).coll],
         Head(stream[s]).kind = "wait_ready" => Produced(Head(stream[s]).coll)
  PROVE  InputInv'
<1>1. DeviceTypes' /\ \A c \in Colls : Produced(c) => Produced(c)'
  BY HappenedGrows DEF InputInv, Executes
<1>2. Faithful(s)
  BY <1>1 DEF Faithful
<1>. QED BY <1>1, <1>2, ExecutesOK

(* A token is written with the ticket of its collective: above what the    *)
(* slots hold and below what is still queued.                              *)
LEMMA TokenStepOK ==
  ASSUME Types, Types', InputInv, NEW s \in Streams, WriteToken(s)
  PROVE  InputInv'
<1>0. StreamTypes /\ DeviceTypes
  BY DEF Types, InputInv
<1>1. Executes(s) /\ happened' = happened /\ program' = program
  BY DEF WriteToken, Executes, DeviceStep, host, device
<1>2. PICK o : o = Head(stream[s])
  OBVIOUS
<1>3. o \in ItemsOf(s)
  BY <1>0, <1>1, <1>2, ShiftFacts, StreamLengths DEF Executes, Moved
<1>4. PICK x \in Contexts, n \in Nat : x = o.ctx /\ n = o.seq
  BY <1>3 DEF ItemsOf, Items
<1>5. PICK i \in Slots : i = Slot(o)
  <2>1. RingSize \in Nat \ {0}
    BY CollectiveAssumption
  <2>2. n % RingSize \in 0 .. RingSize - 1
    BY <2>1
  <2>. QED BY <1>4, <2>2 DEF Slots, Slot
<1>6. \/ o.kind = "ready" /\ token' = [token EXCEPT ![x].input[i] = n]
      \/ o.kind = "done" /\ token' = [token EXCEPT ![x].done[i] = n]
  BY <1>2, <1>4, <1>5 DEF WriteToken
<1>7. PICK T : T = [input : [Slots -> Nat], done : [Slots -> Nat]]
  OBVIOUS
<1>8. token \in [Contexts -> T] /\ token[x] \in T
  BY <1>0, <1>7 DEF DeviceTypes
<1>9. /\ token' \in [Contexts -> T]
      /\ \A y \in Contexts, k \in Slots :
           \/ token'[y].input[k] = token[y].input[k]
           \/ o.kind = "ready" /\ y = o.ctx /\ token'[y].input[k] = o.seq
  <2>1. CASE o.kind = "ready" /\ token' = [token EXCEPT ![x].input[i] = n]
    <3>1. [token[x] EXCEPT !.input[i] = n] \in T
      BY <1>7, <1>8
    <3>2. token' \in [Contexts -> T]
      BY <1>8, <2>1, <3>1
    <3>3. \A y \in Contexts, k \in Slots :
            token'[y].input[k] = token[y].input[k] \/ (y = x /\ token'[y].input[k] = n)
      BY <1>7, <1>8, <2>1
    <3>. QED BY <1>4, <2>1, <3>2, <3>3
  <2>2. CASE o.kind = "done" /\ token' = [token EXCEPT ![x].done[i] = n]
    <3>1. [token[x] EXCEPT !.done[i] = n] \in T
      BY <1>7, <1>8
    <3>2. token' \in [Contexts -> T]
      BY <1>8, <2>2, <3>1
    <3>3. \A y \in Contexts, k \in Slots : token'[y].input[k] = token[y].input[k]
      BY <1>7, <1>8, <2>2
    <3>. QED BY <3>2, <3>3
  <2>. QED BY <1>6, <2>1, <2>2
<1>10. DeviceTypes'
  <2>1. SameProgram /\ Slots' = Slots /\ Events' = Events
    BY <1>1, ProgramStays DEF Slots, Events, Kinds
  <2>. QED BY <1>0, <1>1, <1>7, <1>9, <2>1 DEF DeviceTypes, SameProgram
<1>11. Faithful(s)
  <2>1. \A c \in Colls : Produced(c) => Produced(c)'
    BY <1>1 DEF Produced
  <2>2. o.kind # "produce" /\ o.kind # "wait_ready"
    BY <1>6
  <2>. QED BY <1>2, <1>9, <2>1, <2>2 DEF Faithful
<1>. QED BY <1>1, <1>10, <1>11, ExecutesOK

(* Every step of the device *)
LEMMA DeviceStepOK ==
  ASSUME Types, InputInv, NEW s \in Streams, DeviceNext(s)
  PROVE  Types' /\ InputInv'
<1>0. Types' /\ program' = program /\ StreamTypes
  BY DeviceOK DEF Types
<1>1. CASE WriteToken(s)
  BY <1>0, <1>1, TokenStepOK
<1>2. CASE WaitToken(s)
  <2>1. Executes(s) /\ token' = token /\ happened' = happened
    BY <1>2 DEF WaitToken, Executes, DeviceStep, host, device, sync
  <2>2. PICK o : o = Head(stream[s])
    OBVIOUS
  <2>3. o.kind # "produce"
    BY <1>2, <2>2 DEF WaitToken
  <2>4. o.kind = "wait_ready" => Produced(o.coll)
    BY <1>2, <2>2, WaitEnds DEF WaitToken
  <2>. QED BY <1>0, <2>1, <2>2, <2>3, <2>4, EventOK
<1>3. CASE WaitEvent(s) \/ FreeAsync(s)
  <2>1. Executes(s) /\ token' = token /\ happened' = happened /\ Head(stream[s]).kind \in {"wait_event", "free"}
    BY <1>3 DEF WaitEvent, FreeAsync, Executes, DeviceStep, host, device, sync, head
  <2>. QED BY <1>0, <2>1, EventOK
<1>4. ASSUME NEW c \in Colls, NEW K \in SUBSET Events, Happens(c, K),
             Executes(s), token' = token, Head(stream[s]).kind # "wait_ready",
             Head(stream[s]).kind = "produce" => "produce" \in K /\ c = Head(stream[s]).coll
      PROVE  InputInv'
  <2>1. Head(stream[s]).kind = "produce" => "produce" \in happened'[Head(stream[s]).coll]
    BY <1>4 DEF InputInv, DeviceTypes, Happens
  <2>. QED BY <1>0, <1>4, <2>1, EventOK
<1>5. PICK o : o = Head(stream[s])
  OBVIOUS
<1>6. stream[s] # <<>> => o.coll \in Colls /\ o.kind \in Kinds
  <2>. SUFFICES ASSUME stream[s] # <<>>
                PROVE  o \in ItemsOf(s)
    BY DEF ItemsOf, Items
  <2>1. stream[s] \in Seq(ItemsOf(s))
    BY <1>0 DEF StreamTypes
  <2>. QED BY <1>5, <2>1
<1>7. CASE Compute(s)
  <2>1. Executes(s) /\ token' = token /\ o.kind \in {"produce", "consume", "merge"}
        /\ happened' = [happened EXCEPT ![o.coll] = @ \cup {o.kind}]
    BY <1>5, <1>7 DEF Compute, mark, Executes, DeviceStep, host, sync
  <2>2. {o.kind} \in SUBSET Events /\ o.coll \in Colls
    BY <1>6, <2>1 DEF Events, Executes
  <2>3. PICK c \in Colls, K \in SUBSET Events : c = o.coll /\ K = {o.kind}
    BY <2>2
  <2>4. Happens(c, K)
    BY <2>1, <2>3 DEF Happens
  <2>. QED BY <1>0, <1>4, <1>5, <2>1, <2>3, <2>4
<1>8. CASE FillBuffer(s)
  <2>1. Executes(s) /\ token' = token /\ o.kind \in {"pack", "fast"}
        /\ happened' = [happened EXCEPT ![o.coll] = @ \cup {o.kind}]
    BY <1>5, <1>8 DEF FillBuffer, mark, Executes, DeviceStep, host, sync
  <2>2. {o.kind} \in SUBSET Events /\ o.coll \in Colls
    BY <1>6, <2>1 DEF Events, Executes
  <2>3. PICK c \in Colls, K \in SUBSET Events : c = o.coll /\ K = {o.kind}
    BY <2>2
  <2>4. Happens(c, K)
    BY <2>1, <2>3 DEF Happens
  <2>. QED BY <1>0, <1>4, <1>5, <2>1, <2>3, <2>4
<1>9. CASE RunPcie(s)
  <2>1. Executes(s) /\ token' = token /\ o.kind \in {"pcie", "nothing"}
        /\ happened' = [happened EXCEPT ![o.coll] = @ \cup {o.kind, "ended"}]
    BY <1>5, <1>9 DEF RunPcie, Executes, DeviceStep, host, sync
  <2>2. {o.kind, "ended"} \in SUBSET Events /\ o.coll \in Colls
    BY <1>6, <2>1 DEF Events, Executes
  <2>3. PICK c \in Colls, K \in SUBSET Events : c = o.coll /\ K = {o.kind, "ended"}
    BY <2>2
  <2>4. Happens(c, K)
    BY <2>1, <2>3 DEF Happens
  <2>. QED BY <1>0, <1>4, <1>5, <2>1, <2>3, <2>4
<1>10. CASE HostCompletion(s)
  <2>1. Executes(s) /\ token' = token /\ o.kind = "callback"
    BY <1>5, <1>10 DEF HostCompletion, Executes, host, sync, head
  <2>2. CASE happened' = happened
    BY <1>0, <1>5, <2>1, <2>2, EventOK
  <2>3. CASE pending[s] # <<>> /\ mark(Head(pending[s]).coll, "merge")
    <3>1. s \in UserStreams
      <4>1. stream[s] \in Seq(ItemsOf(s)) /\ stream[s] # <<>>
        BY <1>0, <2>1 DEF StreamTypes, Executes
      <4>2. o \in ItemsOf(s)
        BY <1>5, <4>1
      <4>3. s = Call(o.coll).stream /\ o.coll \in Colls
        BY <2>1, <4>2 DEF ItemsOf, Items, Place, PcieKinds
      <4>. QED BY <4>3, CollFacts DEF Types, ThreadTypes
    <3>2. Head(pending[s]) \in Records(s)
      <4>1. pending[s] \in Seq(Records(s)) /\ pending[s] # <<>>
        BY <1>0, <2>3, <3>1 DEF StreamTypes
      <4>. QED BY <4>1
    <3>3. PICK c \in Colls : c = Head(pending[s]).coll
      BY <3>2 DEF Records
    <3>4. PICK K \in SUBSET Events : K = {"merge"}
      BY DEF Events, Kinds
    <3>5. Happens(c, K)
      BY <2>3, <3>3, <3>4 DEF mark, Happens
    <3>6. Head(stream[s]).kind # "wait_ready" /\ Head(stream[s]).kind # "produce"
      BY <1>5, <2>1
    <3>. QED BY <1>0, <1>4, <2>1, <3>4, <3>5, <3>6
  <2>. QED BY <1>10, <2>2, <2>3 DEF HostCompletion
<1>. QED BY <1>0, <1>1, <1>2, <1>3, <1>7, <1>8, <1>9, <1>10 DEF DeviceNext

-----------------------------------------------------------------------------
(* The two halves meet *)

(* Before the first call nothing is queued and no ticket was drawn. *)
LEMMA InputInit ==
  ASSUME Init, Types
  PROVE  InputInv
<1>1. DeviceTypes
  <2>1. happened \in [Colls -> SUBSET Events]
    BY DEF Init
  <2>. DEFINE zero == [k \in Slots |-> 0]
  <2>2. zero \in [Slots -> Nat]
    OBVIOUS
  <2>3. token = [x \in Contexts |-> [input |-> zero, done |-> zero]]
    BY DEF Init, Slots
  <2>. HIDE DEF zero
  <2>4. token \in [Contexts -> [input : [Slots -> Nat], done : [Slots -> Nat]]]
    BY <2>2, <2>3
  <2>. QED BY <2>1, <2>4 DEF DeviceTypes
<1>2. ItemsInv
  BY DEF Init, ItemsInv
<1>3. TokensInv
  <2>. SUFFICES ASSUME NEW x \in Contexts, NEW k \in Slots
                PROVE  token[x].input[k] < sequence[x]
    BY DEF TokensInv
  <2>1. token[x].input = [i \in Slots |-> 0]
    BY DEF Init, Slots
  <2>2. token[x].input[k] = 0
    BY <2>1
  <2>3. sequence[x] = 1
    BY DEF Init
  <2>. QED BY <2>2, <2>3
<1>4. ASSUME NEW t \in Threads PROVE ThreadInv(t)
  <2>1. PICK w : w = <<"call">>
    OBVIOUS
  <2>2. todo[t] = w /\ ticket[t] = NoTicket
    BY <2>1 DEF Init
  <2>3. Len(w) = 1 /\ w[1] = "call" /\ Head(w) = "call" /\ w # <<>>
    BY <2>1
  <2>4. InOrder(w) /\ \A step : Has(w, step) => step = "call"
    BY <2>3 DEF InOrder, Ranked, Paired, Has
  <2>. QED BY <2>2, <2>3, <2>4 DEF ThreadInv, Between, Calling
<1>5. LockInv
  BY DEF Init, LockInv, Granted
<1>. QED BY <1>1, <1>2, <1>3, <1>4, <1>5 DEF InputInv

(* Nothing changes where nothing happens. *)
LEMMA InputStutter ==
  ASSUME Types, InputInv, UNCHANGED vars
  PROVE  InputInv'
<1>1. UNCHANGED <<program, todo, index, ticket, stream, lock, sequence, token, happened>> /\ SameProgram
  BY ProgramStays DEF vars, host, sync, device
<1>2. \A c : Call(c)' = Call(c) /\ PcieStream(c[1])' = PcieStream(c[1]) /\ Produced(c)' = Produced(c)
  BY <1>1 DEF Call, PcieStream, Produced
<1>3. \A c : Coming(c)' = Coming(c) /\ Synced(c)' = Synced(c)
  BY <1>1, <1>2 DEF Coming, Synced
<1>4. \A c, q : Published(c, q)' = Published(c, q)
  BY <1>1, <1>2 DEF Published
<1>5. DeviceTypes' /\ TokensInv'
  BY <1>1 DEF InputInv, DeviceTypes, TokensInv, SameProgram, Events, Slots, Kinds
<1>6. ItemsInv'
  BY <1>1, <1>2, <1>4 DEF InputInv, ItemsInv, ItemInv, ReadyInv, PcieInv, WaitInv, TicketInv, SameProgram, Slots
<1>7. \A t \in Threads : Current(t)' = Current(t) /\ Ctx(t)' = Ctx(t) /\ Granted(t)' = Granted(t)
  BY <1>1 DEF Current, Ctx, Stream, Call, Granted
<1>8. ASSUME NEW t \in Threads PROVE ThreadInv(t)'
  <2>1. PICK c, x, n, w : c = Current(t) /\ x = Ctx(t) /\ n = ticket[t] /\ w = todo[t]
    OBVIOUS
  <2>2. Between(w, c, x, n)
    BY <2>1 DEF InputInv, ThreadInv
  <2>3. Unused(x, n) => Unused(x, n)'
    BY <1>1 DEF Unused, SameProgram, Slots
  <2>4. Between(w, c, x, n)'
    BY <1>2, <1>3, <1>4, <2>2, <2>3, BetweenStays
  <2>. QED BY <1>1, <1>7, <2>1, <2>4 DEF ThreadInv
<1>9. LockInv'
  BY <1>1, <1>7 DEF InputInv, LockInv, SameProgram
<1>. QED BY <1>1, <1>5, <1>6, <1>8, <1>9 DEF InputInv, SameProgram

(* Two streams that nothing else orders meet at the input: when the PCIe   *)
(* library reads the input of a collective, the work that the application  *)
(* queued before has produced it, whatever the threads, the contexts they  *)
(* share and the size of the ring, and whichever submissions fail          *)
(* (stream_synchronizer.cc: the tokens, and the host's wait without them). *)
THEOREM InputsAreProduced == Spec => []PcieReadsProduced
<1>1. Init => Types /\ InputInv
  BY InitOK, InputInit
<1>2. Types /\ InputInv /\ [Next]_vars => Types' /\ InputInv'
  <2>. SUFFICES ASSUME Types, InputInv, [Next]_vars PROVE Types' /\ InputInv'
    OBVIOUS
  <2>1. ASSUME NEW t \in Threads, HostNext(t)
        PROVE  Types' /\ InputInv'
    BY <2>1, HostStepOK
  <2>2. ASSUME NEW s \in Streams, DeviceNext(s)
        PROVE  Types' /\ InputInv'
    BY <2>2, DeviceStepOK
  <2>3. CASE UNCHANGED vars
    BY <2>3, StutterOK, InputStutter
  <2>. QED BY <2>1, <2>2, <2>3 DEF Next, Work
<1>3. Types /\ InputInv => PcieReadsProduced
  <2>. SUFFICES ASSUME Types, InputInv, NEW c \in Colls, Call(c).op # "AllToAll", NEW s \in Streams,
                       head(s, "pcie"), Head(stream[s]).coll = c
                PROVE  "produce" \in happened[c]
    BY DEF PcieReadsProduced, ReadsProduced
  <2>1. stream[s] \in Seq(ItemsOf(s)) /\ stream[s] # <<>>
    BY DEF Types, StreamTypes, head
  <2>2. 1 \in 1 .. Len(stream[s]) /\ stream[s][1] = Head(stream[s])
    BY <2>1
  <2>3. PcieInv(s, 1)
    BY <2>2 DEF InputInv, ItemsInv, ItemInv
  <2>. QED BY <2>2, <2>3 DEF PcieInv, Produced, head
<1>. QED BY <1>1, <1>2, <1>3, PTL DEF Spec

-----------------------------------------------------------------------------
(* The order of the steps behind the PCIe part *)

Fills == {"pack", "fast", "merge"}     \* use the staging buffer of a call
Parts == {"pcie", "nothing"}
Ways  == {"wait_done", "wait_event"}   \* order a stream behind a PCIe part
Early == {"input", "input_wait", "sync_user"}

(* The steps of w come in the order of the numbers that R gives them, each *)
(* number once unless it is in T; those with the number 0 anywhere.        *)
Sorted(w, R, T) ==
  \A i, j \in 1 .. Len(w) : i < j /\ R[w[i]] # 0 /\ R[w[j]] # 0 =>
    R[w[i]] < R[w[j]] \/ (R[w[i]] = R[w[j]] /\ R[w[i]] \in T)

(* The report of a collective comes after its work; a buffer is filled     *)
(* after the input was waited for, and merged after it was filled.         *)
Stage == [step \in StepNames |->
  CASE step = "register" -> 2 [] step = "attach" -> 3 [] step = "callback" -> 4 [] step = "return" -> 5
    [] OTHER -> 1]
Filling == [step \in StepNames |->
  CASE step \in Early -> 1 [] step \in {"pack", "fast"} -> 2 [] step = "merge" -> 3 [] OTHER -> 0]

(* Steps that are always followed by others *)
Follows(w) ==
  /\ Has(w, "pcie") => Has(w, "write_done")
  /\ \A step \in Early \cup {"alloc"} : Has(w, step) => Has(w, "pcie")
  /\ Has(w, "alloc") => Has(w, "fast")
  /\ Has(w, "register") => Has(w, "attach")
  /\ Has(w, "attach") => Has(w, "callback")
Coupled(w) == \A i \in 1 .. Len(w) : w[i] = "write_done" => i + 1 \in 1 .. Len(w) /\ w[i + 1] = "wait_done"
FirstAlloc(w) == \A i \in 1 .. Len(w) : w[i] = "alloc" => i = 1
Reports(w) == Has(w, "callback") => Has(w, "register") \/ \A i \in 1 .. Len(w) : Stage[w[i]] >= 2

Script(w) ==
  Sorted(w, Stage, {1}) /\ Sorted(w, Filling, {1, 2}) /\ FirstAlloc(w) /\ Coupled(w) /\ Follows(w) /\ Reports(w)

(* The numbers of the steps, one by one. *)
LEMMA StageValues ==
  /\ Stage["register"] = 2 /\ Stage["attach"] = 3 /\ Stage["callback"] = 4 /\ Stage["return"] = 5
  /\ \A step \in StepNames : Stage[step] \in 1 .. 5
  /\ \A step \in StepNames \ {"register", "attach", "callback", "return"} : Stage[step] = 1
<1>1. {"register", "attach", "callback", "return"} \subseteq StepNames
  BY DEF StepNames
<1>2. \A step \in StepNames : Stage[step] =
        CASE step = "register" -> 2 [] step = "attach" -> 3 [] step = "callback" -> 4 [] step = "return" -> 5
          [] OTHER -> 1
  BY DEF Stage
<1>. QED BY <1>1, <1>2

(* The fillings of the steps, one by one. *)
LEMMA FillingValues ==
  /\ \A step \in Early : Filling[step] = 1
  /\ Filling["pack"] = 2 /\ Filling["fast"] = 2 /\ Filling["merge"] = 3
  /\ \A step \in StepNames : Filling[step] \in 0 .. 3
  /\ \A step \in StepNames \ (Early \cup Fills) : Filling[step] = 0
<1>1. Early \cup Fills \subseteq StepNames
  BY DEF StepNames, Early, Fills
<1>2. \A step \in StepNames : Filling[step] =
        CASE step \in Early -> 1 [] step \in {"pack", "fast"} -> 2 [] step = "merge" -> 3 [] OTHER -> 0
  BY DEF Filling
<1>. QED BY <1>1, <1>2 DEF Early, Fills

Numbered(R) == R \in [StepNames -> Nat]

(* Both orders number every step. *)
LEMMA NumberedOrders == Numbered(Stage) /\ Numbered(Filling)
BY DEF Numbered, Stage, Filling

(* A step is taken off, and others come after it. *)
LEMMA SortedTail ==
  ASSUME NEW w \in Seq(StepNames), w # <<>>, NEW R, NEW T, Numbered(R), Sorted(w, R, T)
  PROVE  /\ Sorted(Tail(w), R, T)
         /\ \A step : Has(Tail(w), step) /\ R[Head(w)] # 0 /\ R[step] # 0 =>
              R[Head(w)] < R[step] \/ (R[Head(w)] = R[step] /\ R[step] \in T)
<1>1. /\ Len(Tail(w)) = Len(w) - 1 /\ Len(w) \in Nat \ {0} /\ Head(w) = w[1]
      /\ \A i \in 1 .. Len(w) - 1 : Tail(w)[i] = w[i + 1]
  OBVIOUS
<1>. DEFINE v == Tail(w)
            n == Len(w)
<1>. HIDE DEF v, n
<1>2. Sorted(v, R, T)
  <2>. SUFFICES ASSUME NEW i \in 1 .. Len(v), NEW j \in 1 .. Len(v), i < j, R[v[i]] # 0, R[v[j]] # 0
                PROVE  R[v[i]] < R[v[j]] \/ (R[v[i]] = R[v[j]] /\ R[v[i]] \in T)
    BY DEF Sorted
  <2>1. i + 1 \in 1 .. n /\ j + 1 \in 1 .. n /\ i + 1 < j + 1 /\ v[i] = w[i + 1] /\ v[j] = w[j + 1]
    BY <1>1 DEF v, n
  <2>. QED BY <2>1 DEF Sorted, n
<1>3. ASSUME NEW step, Has(v, step), R[w[1]] # 0, R[step] # 0
      PROVE  R[w[1]] < R[step] \/ (R[w[1]] = R[step] /\ R[step] \in T)
  <2>1. PICK i \in 1 .. Len(v) : v[i] = step
    BY <1>3 DEF Has
  <2>2. i + 1 \in 1 .. n /\ 1 \in 1 .. n /\ 1 < i + 1 /\ w[i + 1] = step
    BY <1>1, <2>1 DEF v, n
  <2>. QED BY <1>3, <2>2 DEF Sorted, n
<1>. QED BY <1>1, <1>2, <1>3 DEF v

(* Two parts one after the other, the numbers of the first up to n and of  *)
(* the second from n on *)
LEMMA SortedJoin ==
  ASSUME NEW u \in Seq(StepNames), NEW v \in Seq(StepNames), NEW R, NEW T, Numbered(R),
         Sorted(u, R, T), Sorted(v, R, T), NEW n \in Nat,
         \A i \in 1 .. Len(u) : R[u[i]] <= n,
         \A i \in 1 .. Len(v) : R[v[i]] = 0 \/ R[v[i]] > n \/ (R[v[i]] = n /\ n \in T)
  PROVE  Sorted(u \o v, R, T)
<1>. DEFINE w == u \o v
            a == Len(u)
            b == Len(v)
<1>1. /\ w \in Seq(StepNames) /\ Len(w) = a + b /\ a \in Nat /\ b \in Nat
      /\ \A i \in 1 .. a + b : w[i] = IF i <= a THEN u[i] ELSE v[i - a]
  BY ConcatProperties
<1>2. /\ \A i \in 1 .. a : u[i] \in StepNames
      /\ \A i \in 1 .. b : v[i] \in StepNames
  OBVIOUS
<1>. HIDE DEF w, a, b
<1>. SUFFICES ASSUME NEW i \in 1 .. a + b, NEW j \in 1 .. a + b, i < j, R[w[i]] # 0, R[w[j]] # 0
              PROVE  R[w[i]] < R[w[j]] \/ (R[w[i]] = R[w[j]] /\ R[w[i]] \in T)
  BY <1>1 DEF Sorted, w
<1>3. CASE j <= a
  <2>1. i \in 1 .. a /\ j \in 1 .. a /\ w[i] = u[i] /\ w[j] = u[j]
    BY <1>1, <1>3
  <2>. QED BY <2>1 DEF Sorted, a
<1>4. CASE i > a
  <2>1. i - a \in 1 .. b /\ j - a \in 1 .. b /\ w[i] = v[i - a] /\ w[j] = v[j - a] /\ i - a < j - a
    BY <1>1, <1>4
  <2>. QED BY <2>1 DEF Sorted, b
<1>5. CASE i <= a /\ j > a
  <2>1. i \in 1 .. a /\ j - a \in 1 .. b /\ w[i] = u[i] /\ w[j] = v[j - a]
    BY <1>1, <1>5
  <2>2. R[w[i]] <= n /\ (R[w[j]] > n \/ (R[w[j]] = n /\ n \in T))
    BY <2>1 DEF a, b
  <2>3. R[w[i]] \in Nat /\ R[w[j]] \in Nat
    BY <1>2, <2>1 DEF Numbered
  <2>. QED BY <2>2, <2>3
<1>. QED BY <1>1, <1>3, <1>4, <1>5

(* What is in two parts *)
LEMMA HasJoin ==
  ASSUME NEW u \in Seq(StepNames), NEW v \in Seq(StepNames)
  PROVE  u \o v \in Seq(StepNames) /\ \A step : Has(u \o v, step) <=> Has(u, step) \/ Has(v, step)
<1>. DEFINE w == u \o v
            a == Len(u)
            b == Len(v)
<1>1. /\ w \in Seq(StepNames) /\ Len(w) = a + b /\ a \in Nat /\ b \in Nat
      /\ \A i \in 1 .. a + b : w[i] = IF i <= a THEN u[i] ELSE v[i - a]
  BY ConcatProperties
<1>. HIDE DEF w, a, b
<1>2. ASSUME NEW step, Has(w, step) PROVE Has(u, step) \/ Has(v, step)
  <2>1. PICK i \in 1 .. a + b : w[i] = step
    BY <1>1, <1>2 DEF Has
  <2>2. CASE i <= a
    BY <1>1, <2>1, <2>2 DEF Has, a
  <2>3. CASE i > a
    <3>1. i - a \in 1 .. b /\ v[i - a] = step
      BY <1>1, <2>1, <2>3
    <3>. QED BY <3>1 DEF Has, b
  <2>. QED BY <1>1, <2>2, <2>3
<1>3. ASSUME NEW step, Has(u, step) PROVE Has(w, step)
  <2>1. PICK i \in 1 .. a : u[i] = step
    BY <1>3 DEF Has, a
  <2>2. i \in 1 .. a + b /\ w[i] = step
    BY <1>1, <2>1
  <2>. QED BY <1>1, <2>2 DEF Has
<1>4. ASSUME NEW step, Has(v, step) PROVE Has(w, step)
  <2>1. PICK i \in 1 .. b : v[i] = step
    BY <1>4 DEF Has, b
  <2>2. a + i \in 1 .. a + b /\ w[a + i] = step
    BY <1>1, <2>1
  <2>. QED BY <1>1, <2>2 DEF Has
<1>. QED BY <1>1, <1>2, <1>3, <1>4 DEF w

(* The places of the steps of two parts *)
LEMMA JoinPlaces ==
  ASSUME NEW u \in Seq(StepNames), NEW v \in Seq(StepNames)
  PROVE  /\ Len(u \o v) = Len(u) + Len(v) /\ Len(v) \in Nat
         /\ \A i \in 1 .. Len(u) + Len(v) : (u \o v)[i] = IF i <= Len(u) THEN u[i] ELSE v[i - Len(u)]
BY ConcatProperties

(* What is left of a script is a script. *)
LEMMA ScriptTail ==
  ASSUME NEW w \in Seq(StepNames), w # <<>>, InOrder(w), Script(w)
  PROVE  /\ Script(Tail(w)) /\ ~Has(Tail(w), "alloc")
         /\ \A step : Has(Tail(w), step) /\ Stage[Head(w)] # 1 => step \in StepNames /\ Stage[Head(w)] < Stage[step]
         /\ Has(w, "callback") /\ Stage[Head(w)] = 1 => Has(Tail(w), "register")
<1>. DEFINE v == Tail(w)
            h == Head(w)
<1>1. /\ v \in Seq(StepNames) /\ Len(v) = Len(w) - 1 /\ Len(w) \in Nat \ {0} /\ h = w[1] /\ h \in StepNames
      /\ \A i \in 1 .. Len(w) - 1 : v[i] = w[i + 1] /\ i + 1 \in 1 .. Len(w) /\ i + 1 # 1
  OBVIOUS
<1>2. /\ \A step : Has(v, step) => Has(w, step) /\ step \in StepNames
      /\ \A step : Has(w, step) /\ step # h => Has(v, step)
      /\ \A step : Has(v, step) /\ Rank(h) # 0 /\ Rank(step) # 0 => Rank(h) < Rank(step)
      /\ Has(w, h)
  <2>1. \A step : Has(v, step) => step \in StepNames
    BY <1>1 DEF Has
  <2>2. Has(w, h)
    BY <1>1 DEF Has
  <2>. QED BY <2>1, <2>2, TailInOrder
<1>3. Sorted(v, Stage, {1}) /\ Sorted(v, Filling, {1, 2})
  BY SortedTail, NumberedOrders DEF Script
<1>4. \A step : Has(v, step) /\ Stage[h] # 1 => step \in StepNames /\ Stage[h] < Stage[step]
  <2>. SUFFICES ASSUME NEW step, Has(v, step), Stage[h] # 1
                PROVE  step \in StepNames /\ Stage[h] < Stage[step]
    OBVIOUS
  <2>1. step \in StepNames /\ Stage[h] # 0 /\ Stage[step] # 0
    BY <1>1, <1>2, StageValues
  <2>2. Stage[h] < Stage[step] \/ (Stage[h] = Stage[step] /\ Stage[step] \in {1})
    BY <2>1, SortedTail, NumberedOrders DEF Script
  <2>. QED BY <2>1, <2>2
<1>5. ~Has(v, "alloc")
  BY <1>1 DEF Has, Script, FirstAlloc
<1>. HIDE DEF h
<1>6. Coupled(v)
  <2>. SUFFICES ASSUME NEW i \in 1 .. Len(v), v[i] = "write_done"
                PROVE  i + 1 \in 1 .. Len(v) /\ v[i + 1] = "wait_done"
    BY DEF Coupled
  <2>1. i + 1 \in 1 .. Len(w) /\ w[i + 1] = "write_done"
    BY <1>1
  <2>2. i + 1 + 1 \in 1 .. Len(w) /\ w[i + 1 + 1] = "wait_done"
    BY <2>1 DEF Script, Coupled
  <2>3. i + 1 \in 1 .. Len(w) - 1
    BY <1>1, <2>2
  <2>. QED BY <1>1, <2>2, <2>3
<1>7. Follows(v)
  <2>1. Has(v, "pcie") => Has(v, "write_done")
    BY <1>2, RankValues DEF Script, Follows
  <2>2. \A step \in Early \cup {"alloc"} : Has(v, step) => Has(v, "pcie")
    <3>1. ASSUME NEW step \in Early, Has(v, step) PROVE Has(v, "pcie")
      <4>1. Has(w, "pcie")
        BY <1>2, <3>1 DEF Script, Follows
      <4>2. Rank(step) \in {2, 3}
        BY RankValues DEF Early
      <4>3. h # "pcie"
        BY <1>2, <3>1, <4>2, RankValues
      <4>. QED BY <1>2, <4>1, <4>3
    <3>. QED BY <1>5, <3>1
  <2>3. Has(v, "register") => Has(v, "attach")
    BY <1>2, <1>4, StageValues DEF Script, Follows
  <2>4. Has(v, "attach") => Has(v, "callback")
    BY <1>2, <1>4, StageValues DEF Script, Follows
  <2>. QED BY <1>5, <2>1, <2>2, <2>3, <2>4 DEF Follows
<1>8. Reports(v)
  <2>. SUFFICES ASSUME Has(v, "callback"), ~Has(v, "register")
                PROVE  \A i \in 1 .. Len(v) : Stage[v[i]] >= 2
    BY DEF Reports
  <2>1. CASE Has(w, "register")
    <3>1. h = "register"
      BY <1>2, <2>1
    <3>2. \A i \in 1 .. Len(v) : Has(v, v[i]) /\ v[i] \in StepNames
      BY <1>1 DEF Has
    <3>3. \A i \in 1 .. Len(v) : 2 < Stage[v[i]] /\ Stage[v[i]] \in 1 .. 5
      BY <1>4, <3>1, <3>2, StageValues
    <3>. QED BY <3>3
  <2>2. CASE ~Has(w, "register")
    <3>1. \A i \in 1 .. Len(w) : Stage[w[i]] >= 2
      BY <1>2, <2>2 DEF Script, Reports
    <3>. QED BY <1>1, <3>1
  <2>. QED BY <2>1, <2>2
<1>9. Has(w, "callback") /\ Stage[h] = 1 => Has(v, "register")
  <2>. SUFFICES ASSUME Has(w, "callback"), Stage[h] = 1 PROVE Has(v, "register")
    OBVIOUS
  <2>1. ~(\A i \in 1 .. Len(w) : Stage[w[i]] >= 2)
    BY <1>1 DEF h
  <2>2. Has(w, "register") /\ h # "register"
    BY <2>1, StageValues DEF Script, Reports
  <2>. QED BY <1>2, <2>2
<1>10. FirstAlloc(v)
  BY <1>5 DEF Has, FirstAlloc
<1>. QED BY <1>3, <1>4, <1>5, <1>6, <1>7, <1>8, <1>9, <1>10 DEF Script, h

(* A fallback in front of a script *)
LEMMA ScriptFront ==
  ASSUME NEW v \in Seq(StepNames), Script(v), ~Has(v, "alloc"), Has(v, "callback") => Has(v, "register"),
         NEW step \in {"sync_user", "event"}, step = "sync_user" => Has(v, "pcie"),
         NEW u \in Seq(StepNames), Len(u) = 1, u[1] = step
  PROVE  Script(u \o v)
<1>. DEFINE w == u \o v
<1>1. u \in Seq(StepNames) /\ Len(u) = 1 /\ u[1] = step
  OBVIOUS
<1>2. \A x : Has(u, x) <=> x = step
  BY <1>1 DEF Has
<1>3. w \in Seq(StepNames) /\ \A x : Has(w, x) <=> x = step \/ Has(v, x)
  BY <1>1, <1>2, HasJoin
<1>4. /\ Len(w) = Len(v) + 1 /\ Len(v) \in Nat /\ w[1] = step
      /\ \A i \in 1 .. Len(w) : i = 1 \/ (i - 1 \in 1 .. Len(v) /\ w[i] = v[i - 1])
  <2>1. /\ Len(w) = 1 + Len(v) /\ Len(v) \in Nat
        /\ \A i \in 1 .. 1 + Len(v) : w[i] = IF i <= 1 THEN u[i] ELSE v[i - 1]
    BY JoinPlaces, ZenonT(30)
  <2>. QED BY <1>1, <2>1
<1>5. Sorted(u, Stage, {1}) /\ Sorted(u, Filling, {1, 2})
  BY <1>1 DEF Sorted
<1>6. Sorted(w, Stage, {1})
  <2>1. Stage[step] = 1
    BY StageValues DEF StepNames
  <2>2. \A i \in 1 .. Len(v) : Stage[v[i]] = 0 \/ Stage[v[i]] > 1 \/ (Stage[v[i]] = 1 /\ 1 \in {1})
    <3>1. \A i \in 1 .. Len(v) : Stage[v[i]] \in 1 .. 5
      BY StageValues
    <3>. QED BY <3>1
  <2>3. \A i \in 1 .. Len(u) : Stage[u[i]] <= 1
    BY <1>1, <2>1
  <2>. QED BY <1>1, <1>5, <2>2, <2>3, NumberedOrders, SortedJoin DEF Script
<1>7. Sorted(w, Filling, {1, 2})
  <2>1. Filling[step] <= 1
    BY FillingValues DEF StepNames, Early, Fills
  <2>2. \A i \in 1 .. Len(v) : Filling[v[i]] = 0 \/ Filling[v[i]] > 1 \/ (Filling[v[i]] = 1 /\ 1 \in {1, 2})
    <3>1. \A i \in 1 .. Len(v) : Filling[v[i]] \in 0 .. 3
      BY FillingValues
    <3>. QED BY <3>1
  <2>3. \A i \in 1 .. Len(u) : Filling[u[i]] <= 1
    BY <1>1, <2>1
  <2>. QED BY <1>1, <1>5, <2>2, <2>3, NumberedOrders, SortedJoin DEF Script
<1>. HIDE DEF w
<1>8. FirstAlloc(w)
  BY <1>4 DEF FirstAlloc, Has
<1>9. Coupled(w)
  <2>. SUFFICES ASSUME NEW i \in 1 .. Len(w), w[i] = "write_done"
                PROVE  i + 1 \in 1 .. Len(w) /\ w[i + 1] = "wait_done"
    BY DEF Coupled
  <2>1. i - 1 \in 1 .. Len(v) /\ v[i - 1] = "write_done"
    BY <1>4
  <2>2. i - 1 + 1 \in 1 .. Len(v) /\ v[i - 1 + 1] = "wait_done"
    BY <2>1 DEF Script, Coupled
  <2>3. i + 1 \in 1 .. Len(w) /\ i - 1 + 1 = i + 1 - 1 /\ i + 1 # 1
    BY <1>4, <2>2
  <2>4. w[i + 1] = v[i + 1 - 1]
    BY <1>4, <2>3
  <2>. QED BY <2>2, <2>3, <2>4
<1>10. Follows(w)
  <2>1. Follows(v)
    BY DEF Script
  <2>. QED BY <1>3, <2>1 DEF Follows, Early
<1>11. Reports(w)
  BY <1>3 DEF Reports
<1>. QED BY <1>6, <1>7, <1>8, <1>9, <1>10, <1>11 DEF Script, w

(* What a fallback leaves of the script w *)
Remains(r, w, step) ==
  /\ r \in Seq(StepNames) /\ Script(r) /\ ~Has(r, "alloc") /\ (Has(r, "callback") => Has(r, "register"))
  /\ \A x : Has(r, x) => Has(w, x)
  /\ \A x : Has(w, x) /\ x \notin {"input", "input_wait", "write_done", "wait_done"} => Has(r, x)
  /\ step = "event" => ~Has(r, "pcie") /\ ~Has(r, "write_done") /\ ~Has(r, "wait_done")
  /\ step = "sync_user" => /\ Has(r, "pcie") /\ (Has(w, "write_done") => Has(r, "write_done"))
                           /\ (Has(w, "wait_done") => Has(r, "wait_done"))

(* What a fallback leaves to do is a script, with the fallback in place of *)
(* what it skips.                                                          *)
LEMMA ScriptFallback ==
  ASSUME NEW w \in Seq(StepNames), w # <<>>, InOrder(w), Script(w), NEW step, NEW n, Fallback(w, step, n)
  PROVE  LET v == <<step>> \o SubSeq(w, 1 + n, Len(w))
         IN /\ Script(v) /\ v \in Seq(StepNames) /\ Has(v, step)
            /\ \A x : Has(v, x) /\ x # step => Has(w, x)
            /\ \A x : Has(w, x) /\ x \notin {"input", "input_wait", "write_done", "wait_done"} => Has(v, x)
            /\ step = "sync_user" => /\ Has(v, "pcie") /\ (Has(w, "write_done") => Has(v, "write_done"))
                                     /\ (Has(w, "wait_done") => Has(v, "wait_done"))
            /\ step = "event" => ~Has(v, "pcie") /\ ~Has(v, "write_done") /\ ~Has(v, "wait_done")
<1>. DEFINE r == Tail(w)
            rest == SubSeq(w, 1 + n, Len(w))
            v == <<step>> \o rest
<1>1. /\ r \in Seq(StepNames) /\ Len(r) = Len(w) - 1 /\ Len(w) \in Nat \ {0} /\ Head(w) = w[1]
      /\ \A i \in 1 .. Len(w) - 1 : r[i] = w[i + 1]
  OBVIOUS
<1>2. /\ InOrder(r) /\ Script(r) /\ ~Has(r, "alloc")
      /\ \A x : Has(r, x) => Has(w, x)
      /\ \A x : Has(w, x) /\ x # Head(w) => Has(r, x)
      /\ \A x : Has(r, x) /\ Rank(Head(w)) # 0 /\ Rank(x) # 0 => Rank(Head(w)) < Rank(x)
      /\ Has(w, "callback") /\ Stage[Head(w)] = 1 => Has(r, "register")
      /\ Has(w, Head(w))
  BY TailInOrder, ScriptTail, HeadFirst
<1>3. Stage[Head(w)] = 1 /\ Rank(Head(w)) # 0
  BY StageValues, RankValues DEF Fallback, StepNames
<1>4. n = 1 => rest = r
  BY TailIsSubSeq
<1>5. ASSUME n = 2 PROVE Remains(rest, w, step)
  <2>1. 2 \in 1 .. Len(w) /\ (Head(w) = "input" => w[2] = "input_wait") /\ (Head(w) = "write_done" => w[2] = "wait_done")
    BY <1>1, <1>5 DEF Fallback, InOrder, Paired, Script, Coupled
  <2>2. r # <<>> /\ Head(r) = w[2]
    <3>1. 1 \in 1 .. Len(w) - 1 /\ r[1] = w[2] /\ Len(r) > 0
      BY <1>1, <2>1
    <3>2. \A u \in Seq(StepNames) : Len(u) > 0 => u # <<>> /\ Head(u) = u[1]
      OBVIOUS
    <3>. HIDE DEF r
    <3>. QED BY <1>1, <3>1, <3>2
  <2>3. rest = Tail(r)
    <3>1. r = SubSeq(w, 2, Len(w)) /\ Tail(SubSeq(w, 2, Len(w))) = SubSeq(w, 2 + 1, Len(w))
      BY <1>1, <2>1, TailIsSubSeq, HeadTailOfSubSeq
    <3>. QED BY <1>5, <3>1
  <2>. HIDE DEF r, rest
  <2>4. /\ InOrder(rest) /\ Script(rest) /\ ~Has(rest, "alloc") /\ rest \in Seq(StepNames)
        /\ \A x : Has(rest, x) => Has(r, x)
        /\ \A x : Has(r, x) /\ x # Head(r) => Has(rest, x)
        /\ \A x : Has(rest, x) /\ Rank(Head(r)) # 0 /\ Rank(x) # 0 => Rank(Head(r)) < Rank(x)
    <3>1. /\ InOrder(Tail(r)) /\ Script(Tail(r)) /\ ~Has(Tail(r), "alloc") /\ Tail(r) \in Seq(StepNames)
          /\ \A x : Has(Tail(r), x) => Has(r, x)
          /\ \A x : Has(r, x) /\ x # Head(r) => Has(Tail(r), x)
          /\ \A x : Has(Tail(r), x) /\ Rank(Head(r)) # 0 /\ Rank(x) # 0 => Rank(Head(r)) < Rank(x)
      BY <1>1, <1>2, <2>2, TailInOrder, ScriptTail
    <3>. QED BY <2>3, <3>1
  <2>5. /\ \A x : Has(rest, x) => Has(w, x)
        /\ \A x : Has(w, x) /\ x # Head(w) /\ x # w[2] => Has(rest, x)
        /\ Has(w, "callback") => Has(rest, "register")
    BY <1>2, <1>3, <2>1, <2>2, <2>4, <1>5 DEF Fallback
  <2>6. step = "event" => ~Has(rest, "pcie") /\ ~Has(rest, "write_done") /\ ~Has(rest, "wait_done")
    <3>. SUFFICES ASSUME step = "event", NEW x \in {"pcie", "write_done", "wait_done"}, Has(rest, x) PROVE FALSE
      OBVIOUS
    <3>1. Head(r) = "wait_done" /\ Rank(x) # 0
      BY <1>5, <2>1, <2>2, RankValues DEF Fallback
    <3>2. Rank("wait_done") < Rank(x)
      BY <2>4, <3>1, RankValues
    <3>. QED BY <3>2, RankValues
  <2>7. step = "sync_user" => Has(rest, "pcie") /\ Head(w) = "input" /\ w[2] = "input_wait"
    BY <1>2, <1>5, <2>1, <2>5 DEF Fallback, Script, Follows, Early
  <2>. HIDE DEF v
  <2>8. Remains(rest, w, step)
    BY <1>5, <2>1, <2>4, <2>5, <2>6, <2>7 DEF Fallback, Remains
  <2>. QED BY <2>8
<1>6. ASSUME n = 1 PROVE Remains(rest, w, step)
  <2>. HIDE DEF r
  <2>1. step = "event" => ~Has(r, "pcie") /\ ~Has(r, "write_done") /\ ~Has(r, "wait_done")
    <3>. SUFFICES ASSUME step = "event", NEW x \in {"pcie", "write_done", "wait_done"}, Has(r, x) PROVE FALSE
      OBVIOUS
    <3>1. Head(w) = "wait_done" /\ Rank(x) # 0
      BY <1>6, RankValues DEF Fallback
    <3>2. Rank("wait_done") < Rank(x)
      BY <1>2, <3>1, RankValues
    <3>. QED BY <3>2, RankValues
  <2>2. step = "sync_user" => Has(r, "pcie") /\ Head(w) = "input_wait"
    BY <1>2, <1>6 DEF Fallback, Script, Follows, Early
  <2>3. Remains(r, w, step)
    BY <1>1, <1>2, <1>3, <1>6, <2>1, <2>2 DEF Fallback, Remains
  <2>. QED BY <1>4, <1>6, <2>3
<1>7. Remains(rest, w, step)
  <2>1. n = 1 \/ n = 2
    BY DEF Fallback
  <2>. QED BY <1>5, <1>6, <2>1
<1>8. step \in {"sync_user", "event"} /\ step \in StepNames
  BY DEF Fallback, StepNames
<1>9. PICK u \in Seq(StepNames) : u = <<step>>
  <2>1. <<step>> \in Seq(StepNames)
    BY <1>8
  <2>. QED BY <2>1
<1>10. Len(u) = 1 /\ u[1] = step /\ \A x : Has(u, x) <=> x = step
  BY <1>9 DEF Has
<1>. HIDE DEF rest
<1>11. Script(u \o rest)
  BY <1>7, <1>8, <1>10, ScriptFront DEF Remains
<1>12. u \o rest \in Seq(StepNames) /\ \A x : Has(u \o rest, x) <=> x = step \/ Has(rest, x)
  BY <1>7, <1>10, HasJoin DEF Remains
<1>13. v = u \o rest
  BY <1>9
<1>. HIDE DEF v
<1>14. /\ Script(v) /\ v \in Seq(StepNames) /\ Has(v, step)
       /\ \A x : Has(v, x) /\ x # step => Has(w, x)
       /\ \A x : Has(w, x) /\ x \notin {"input", "input_wait", "write_done", "wait_done"} => Has(v, x)
       /\ step = "sync_user" => /\ Has(v, "pcie") /\ (Has(w, "write_done") => Has(v, "write_done"))
                                /\ (Has(w, "wait_done") => Has(v, "wait_done"))
       /\ step = "event" => ~Has(v, "pcie") /\ ~Has(v, "write_done") /\ ~Has(v, "wait_done")
  BY <1>7, <1>8, <1>11, <1>12, <1>13 DEF Remains
<1>. QED BY <1>14 DEF v, rest

(* The work of a collective, without its report *)
Body(u) ==
  /\ u \in Seq(StepNames) /\ \A i \in 1 .. Len(u) : Stage[u[i]] = 1
  /\ Sorted(u, Filling, {1, 2}) /\ FirstAlloc(u) /\ Coupled(u)
  /\ Has(u, "pcie") => Has(u, "write_done")
  /\ \A step \in Early \cup {"alloc"} : Has(u, step) => Has(u, "pcie")
  /\ Has(u, "alloc") => Has(u, "fast")

(* The beginning of the work, up to the submission to PCIe *)
Opening(u) ==
  /\ u \in Seq(StepNames) /\ \A i \in 1 .. Len(u) : Stage[u[i]] = 1 /\ Filling[u[i]] <= 2 /\ u[i] # "write_done"
  /\ Sorted(u, Filling, {1, 2}) /\ FirstAlloc(u) /\ Has(u, "pcie") /\ Has(u, "begin") /\ ~Has(u, "merge")
  /\ Has(u, "alloc") => Has(u, "fast")

(* Places of an allocation and of tokens, in two parts *)
LEMMA CoupledJoin ==
  ASSUME NEW u \in Seq(StepNames), NEW v \in Seq(StepNames), Coupled(u), Coupled(v), FirstAlloc(u), ~Has(v, "alloc")
  PROVE  Coupled(u \o v) /\ FirstAlloc(u \o v)
<1>. DEFINE w == u \o v
            a == Len(u)
            b == Len(v)
<1>1. /\ Len(w) = a + b /\ a \in Nat /\ b \in Nat
      /\ \A i \in 1 .. a + b : w[i] = IF i <= a THEN u[i] ELSE v[i - a]
  BY JoinPlaces
<1>. HIDE DEF w, a, b
<1>2. /\ \A i \in 1 .. a : u[i] = "write_done" => i + 1 \in 1 .. a /\ u[i + 1] = "wait_done"
      /\ \A i \in 1 .. b : v[i] = "write_done" => i + 1 \in 1 .. b /\ v[i + 1] = "wait_done"
      /\ \A i \in 1 .. a : u[i] = "alloc" => i = 1
      /\ \A i \in 1 .. b : v[i] # "alloc"
  BY DEF Coupled, FirstAlloc, Has, a, b
<1>3. ASSUME NEW i \in 1 .. a + b, w[i] = "write_done"
      PROVE  i + 1 \in 1 .. a + b /\ w[i + 1] = "wait_done"
  <2>1. CASE i <= a
    <3>1. i \in 1 .. a /\ u[i] = "write_done"
      BY <1>1, <1>3, <2>1
    <3>2. i + 1 \in 1 .. a /\ u[i + 1] = "wait_done"
      BY <1>2, <3>1
    <3>3. i + 1 \in 1 .. a + b /\ i + 1 <= a
      BY <1>1, <3>2
    <3>. QED BY <1>1, <3>2, <3>3
  <2>2. CASE i > a
    <3>1. i - a \in 1 .. b /\ v[i - a] = "write_done"
      BY <1>1, <1>3, <2>2
    <3>2. i - a + 1 \in 1 .. b /\ v[i - a + 1] = "wait_done"
      BY <1>2, <3>1
    <3>3. i + 1 \in 1 .. a + b /\ ~(i + 1 <= a) /\ i + 1 - a = i - a + 1
      BY <1>1, <2>2, <3>2
    <3>. QED BY <1>1, <3>2, <3>3
  <2>. QED BY <1>1, <2>1, <2>2
<1>4. ASSUME NEW i \in 1 .. a + b, w[i] = "alloc"
      PROVE  i = 1
  <2>1. i <= a
    <3>. SUFFICES ASSUME i > a PROVE FALSE
      BY <1>1
    <3>1. i - a \in 1 .. b /\ v[i - a] = "alloc"
      BY <1>1, <1>4
    <3>. QED BY <1>2, <3>1
  <2>. QED BY <1>1, <1>2, <1>4, <2>1
<1>. QED BY <1>1, <1>3, <1>4 DEF Coupled, FirstAlloc, w

(* What ends the PCIe part, and the copies out of a staging buffer, as one *)
LEMMA FinishFacts ==
  \A v \in {Finish, Finish \o <<"merge">>} :
    /\ v \in Seq(StepNames) /\ Coupled(v) /\ ~Has(v, "alloc") /\ Sorted(v, Filling, {1, 2})
    /\ \A i \in 1 .. Len(v) : Stage[v[i]] = 1 /\ (Filling[v[i]] = 0 \/ Filling[v[i]] > 2)
    /\ Has(v, "write_done") /\ \A step \in Early \cup {"pcie", "alloc", "fast"} : ~Has(v, step)
<1>2. /\ {"write_done", "wait_done", "sync_pcie", "merge"} \subseteq StepNames
      /\ \A step \in {"write_done", "wait_done", "sync_pcie", "merge"} : Stage[step] = 1
      /\ \A step \in {"write_done", "wait_done", "sync_pcie"} : Filling[step] = 0
      /\ Filling["merge"] = 3
  <2>1. {"write_done", "wait_done", "sync_pcie", "merge"} \subseteq StepNames
    BY DEF StepNames
  <2>. QED BY <2>1, StageValues, FillingValues DEF Early, Fills
<1>3. ASSUME NEW v \in {Finish, Finish \o <<"merge">>}
      PROVE  /\ v \in Seq(StepNames) /\ Len(v) \in 3 .. 4 /\ v[1] = "write_done" /\ v[2] = "wait_done" /\ v[3] = "sync_pcie"
             /\ Len(v) = 4 => v[4] = "merge"
  <2>1. /\ Finish \in Seq(StepNames) /\ Len(Finish) = 3
        /\ Finish[1] = "write_done" /\ Finish[2] = "wait_done" /\ Finish[3] = "sync_pcie"
    BY <1>2 DEF Finish
  <2>2. CASE v = Finish
    BY <2>1, <2>2
  <2>3. CASE v = Finish \o <<"merge">>
    <3>1. PICK f \in Seq(StepNames), m \in Seq(StepNames) : f = Finish /\ m = <<"merge">>
      <4>1. <<"merge">> \in Seq(StepNames)
        BY <1>2
      <4>. QED BY <2>1, <4>1
    <3>2. Len(m) = 1 /\ m[1] = "merge" /\ v = f \o m
      BY <2>3, <3>1
    <3>3. PICK g : g = f \o m
      OBVIOUS
    <3>4. /\ Len(g) = Len(f) + Len(m)
          /\ \A i \in 1 .. Len(f) + Len(m) : g[i] = IF i <= Len(f) THEN f[i] ELSE m[i - Len(f)]
      BY <3>3, JoinPlaces
    <3>5. Len(f) = 3
      BY <2>1, <3>1
    <3>6. Len(g) = 4 /\ g[1] = f[1] /\ g[2] = f[2] /\ g[3] = f[3] /\ g[4] = m[1]
      BY <3>2, <3>4, <3>5
    <3>7. g \in Seq(StepNames)
      BY <3>3, HasJoin
    <3>8. v = g
      BY <3>2, <3>3
    <3>. QED BY <2>1, <3>1, <3>2, <3>6, <3>7, <3>8
  <2>. QED BY <2>2, <2>3
<1>. TAKE v \in {Finish, Finish \o <<"merge">>}
<1>4. \A i \in 1 .. Len(v) : i \in {1, 2, 3} \/ (i = 4 /\ v[4] = "merge")
  BY <1>3
<1>5. \A i \in 1 .. Len(v) : v[i] \in {"write_done", "wait_done", "sync_pcie", "merge"}
                             /\ (v[i] = "write_done" => i = 1) /\ (v[i] = "merge" => i = 4)
  BY <1>3, <1>4
<1>6. Coupled(v)
  BY <1>3, <1>5 DEF Coupled
<1>7. Sorted(v, Filling, {1, 2})
  BY <1>2, <1>3, <1>5 DEF Sorted
<1>8. Has(v, "write_done")
  BY <1>3 DEF Has
<1>9. \A step \in Early \cup {"pcie", "alloc", "fast"} : ~Has(v, step)
  BY <1>5 DEF Has, Early
<1>10. \A i \in 1 .. Len(v) : Stage[v[i]] = 1 /\ (Filling[v[i]] = 0 \/ Filling[v[i]] > 2)
  BY <1>2, <1>5
<1>. QED BY <1>3, <1>6, <1>7, <1>8, <1>9, <1>10

(* The beginning and the end of the work are the work. *)
LEMMA OpeningFinish ==
  ASSUME NEW u, Opening(u), NEW v \in {Finish, Finish \o <<"merge">>}
  PROVE  /\ Body(u \o v) /\ Has(u \o v, "pcie") /\ Has(u \o v, "begin")
         /\ v = Finish => ~Has(u \o v, "merge")
<1>1. /\ v \in Seq(StepNames) /\ Coupled(v) /\ ~Has(v, "alloc") /\ Sorted(v, Filling, {1, 2})
      /\ \A i \in 1 .. Len(v) : Stage[v[i]] = 1 /\ (Filling[v[i]] = 0 \/ Filling[v[i]] > 2)
      /\ Has(v, "write_done") /\ \A step \in Early \cup {"pcie", "alloc", "fast"} : ~Has(v, step)
  BY FinishFacts
<1>2. u \in Seq(StepNames) /\ Coupled(u) /\ FirstAlloc(u)
  BY DEF Opening, Coupled
<1>. DEFINE w == u \o v
<1>3. Coupled(w) /\ FirstAlloc(w)
  BY <1>1, <1>2, CoupledJoin
<1>4. w \in Seq(StepNames) /\ \A x : Has(w, x) <=> Has(u, x) \/ Has(v, x)
  BY <1>1, <1>2, HasJoin
<1>5. Sorted(w, Filling, {1, 2})
  <2>1. PICK n \in Nat : n = 2
    OBVIOUS
  <2>2. \A i \in 1 .. Len(u) : Filling[u[i]] <= n
    BY <2>1 DEF Opening
  <2>3. \A i \in 1 .. Len(v) : Filling[v[i]] = 0 \/ Filling[v[i]] > n \/ (Filling[v[i]] = n /\ n \in {1, 2})
    BY <1>1, <2>1
  <2>4. Sorted(u, Filling, {1, 2})
    BY DEF Opening
  <2>. QED BY <1>1, <1>2, <2>2, <2>3, <2>4, NumberedOrders, SortedJoin
<1>6. \A i \in 1 .. Len(w) : Stage[w[i]] = 1
  <2>. SUFFICES ASSUME NEW i \in 1 .. Len(w) PROVE Stage[w[i]] = 1
    OBVIOUS
  <2>1. Has(w, w[i])
    BY DEF Has
  <2>2. \A x : Has(u, x) \/ Has(v, x) => Stage[x] = 1
    BY <1>1 DEF Has, Opening
  <2>. QED BY <1>4, <2>1, <2>2
<1>7. v = Finish => ~Has(v, "merge")
  BY DEF Finish, Has
<1>. HIDE DEF w
<1>. QED BY <1>1, <1>3, <1>4, <1>5, <1>6, <1>7 DEF Body, Opening, w

(* The report of a collective, and its return *)
LEMMA ReportPlaces ==
  LET v == Notify \o <<"return">>
  IN /\ v \in Seq(StepNames) /\ Len(v) = 4
     /\ v[1] = "register" /\ v[2] = "attach" /\ v[3] = "callback" /\ v[4] = "return"
<1>1. PICK f \in Seq(StepNames), m \in Seq(StepNames) : f = Notify /\ m = <<"return">>
  <2>1. <<"return">> \in Seq(StepNames)
    BY DEF StepNames
  <2>. QED BY <2>1, NotifyFacts
<1>2. Len(m) = 1 /\ m[1] = "return" /\ Len(f) = 3 /\ f[1] = "register" /\ f[2] = "attach" /\ f[3] = "callback"
  BY <1>1 DEF Notify
<1>3. PICK g : g = f \o m
  OBVIOUS
<1>4. /\ Len(g) = Len(f) + Len(m)
      /\ \A i \in 1 .. Len(f) + Len(m) : g[i] = IF i <= Len(f) THEN f[i] ELSE m[i - Len(f)]
  BY <1>3, JoinPlaces
<1>5. Len(g) = 4 /\ g[1] = f[1] /\ g[2] = f[2] /\ g[3] = f[3] /\ g[4] = m[1]
  BY <1>2, <1>4
<1>6. g \in Seq(StepNames)
  BY <1>3, HasJoin
<1>7. Notify \o <<"return">> = g
  BY <1>1, <1>3
<1>. QED BY <1>2, <1>5, <1>6, <1>7

(* The places of a report. *)
LEMMA UpToFour ==
  ASSUME NEW n \in {1, 4}
  PROVE  \A i \in 1 .. n : i \in {1, 2, 3, 4} /\ (i # 1 => n = 4)
OBVIOUS

(* The work of a collective, then its report and its return *)
LEMMA BodyScript ==
  ASSUME NEW u, Body(u)
  PROVE  \A v \in {<<"return">>, Notify \o <<"return">>} :
           /\ Script(u \o v) /\ u \o v \in Seq(StepNames)
           /\ \A step : Has(u \o v, step) <=> Has(u, step) \/ Has(v, step)
<1>. TAKE v \in {<<"return">>, Notify \o <<"return">>}
<1>1. /\ v \in Seq(StepNames)
      /\ \/ Len(v) = 1 /\ v[1] = "return"
         \/ Len(v) = 4 /\ v[1] = "register" /\ v[2] = "attach" /\ v[3] = "callback" /\ v[4] = "return"
  <2>1. {"register", "attach", "callback", "return"} \subseteq StepNames
    BY DEF StepNames
  <2>2. CASE v = <<"return">>
    BY <2>1, <2>2
  <2>3. CASE v = Notify \o <<"return">>
    BY <2>3, ReportPlaces
  <2>. QED BY <2>2, <2>3
<1>2. \A i \in 1 .. Len(v) : /\ Stage[v[i]] > 1 /\ Filling[v[i]] = 0
                             /\ v[i] \in {"register", "attach", "callback", "return"}
  <2>1. /\ {"register", "attach", "callback", "return"} \subseteq StepNames
        /\ \A step \in {"register", "attach", "callback", "return"} : Stage[step] > 1 /\ Filling[step] = 0
    <3>1. {"register", "attach", "callback", "return"} \subseteq StepNames
      BY DEF StepNames
    <3>. QED BY <3>1, StageValues, FillingValues DEF Early, Fills
  <2>2. PICK g : g = v
    OBVIOUS
  <2>3. \A i \in 1 .. Len(g) : g[i] \in {"register", "attach", "callback", "return"}
    <3>1. Len(g) = 1 \/ Len(g) = 4
      BY <1>1, <2>2
    <3>2. \A i \in 1 .. Len(g) : i \in {1, 2, 3, 4} /\ (i # 1 => Len(g) = 4)
      BY <3>1, UpToFour
    <3>. QED BY <1>1, <2>2, <3>2
  <2>. QED BY <2>1, <2>2, <2>3
<1>3. Sorted(v, Stage, {1}) /\ Sorted(v, Filling, {1, 2}) /\ Coupled(v)
  <2>1. PICK g : g = v
    OBVIOUS
  <2>2. \A i \in 1 .. Len(g) : i \in {1, 2, 3, 4} /\ (i # 1 => Len(g) = 4)
    <3>1. Len(g) = 1 \/ Len(g) = 4
      BY <1>1, <2>1
    <3>. QED BY <3>1, UpToFour
  <2>3. Stage["register"] = 2 /\ Stage["attach"] = 3 /\ Stage["callback"] = 4 /\ Stage["return"] = 5
    BY StageValues
  <2>4. Sorted(g, Stage, {1})
    <3>1. CASE Len(g) = 4
      <4>1. \A i \in 1 .. Len(g) : Stage[g[i]] = i + 1
        BY <1>1, <2>1, <2>2, <2>3, <3>1
      <4>. QED BY <4>1 DEF Sorted
    <3>2. CASE Len(g) # 4
      BY <2>2, <3>2 DEF Sorted
    <3>. QED BY <3>1, <3>2
  <2>. QED BY <1>2, <2>1, <2>4 DEF Sorted, Coupled
<1>4. /\ Has(v, "register") <=> Len(v) = 4
      /\ Has(v, "attach") <=> Len(v) = 4
      /\ Has(v, "callback") <=> Len(v) = 4
      /\ \A step : Has(v, step) => step \in {"register", "attach", "callback", "return"}
  <2>1. Len(v) = 4 => Has(v, "register") /\ Has(v, "attach") /\ Has(v, "callback")
    BY <1>1 DEF Has
  <2>2. \A step : Has(v, step) => step \in {"register", "attach", "callback", "return"}
    BY <1>2 DEF Has
  <2>3. Len(v) # 4 => ~Has(v, "register") /\ ~Has(v, "attach") /\ ~Has(v, "callback")
    BY <1>1 DEF Has
  <2>. QED BY <2>1, <2>2, <2>3
<1>. DEFINE w == u \o v
<1>5. u \in Seq(StepNames)
  BY DEF Body
<1>6. w \in Seq(StepNames) /\ \A x : Has(w, x) <=> Has(u, x) \/ Has(v, x)
  BY <1>1, <1>5, HasJoin
<1>7. Coupled(w) /\ FirstAlloc(w)
  BY <1>1, <1>3, <1>4, <1>5, CoupledJoin DEF Body
<1>8. Sorted(w, Stage, {1})
  <2>1. PICK n \in Nat : n = 1
    OBVIOUS
  <2>2. \A i \in 1 .. Len(u) : Stage[u[i]] <= n
    BY <2>1 DEF Body
  <2>3. \A i \in 1 .. Len(v) : Stage[v[i]] = 0 \/ Stage[v[i]] > n \/ (Stage[v[i]] = n /\ n \in {1})
    BY <1>2, <2>1
  <2>4. Sorted(u, Stage, {1})
    BY DEF Body, Sorted
  <2>. QED BY <1>1, <1>3, <1>5, <2>2, <2>3, <2>4, NumberedOrders, SortedJoin
<1>9. Sorted(w, Filling, {1, 2})
  <2>1. PICK n \in Nat : n = 3
    OBVIOUS
  <2>2. \A i \in 1 .. Len(u) : Filling[u[i]] <= n
    <3>1. \A i \in 1 .. Len(u) : Filling[u[i]] \in 0 .. 3
      BY <1>5, FillingValues
    <3>. QED BY <2>1, <3>1
  <2>3. \A i \in 1 .. Len(v) : Filling[v[i]] = 0 \/ Filling[v[i]] > n \/ (Filling[v[i]] = n /\ n \in {1, 2})
    BY <1>2
  <2>4. Sorted(u, Filling, {1, 2})
    BY DEF Body
  <2>. QED BY <1>1, <1>3, <1>5, <2>2, <2>3, <2>4, NumberedOrders, SortedJoin
<1>10. \A step \in {"register", "attach", "callback"} : ~Has(u, step)
  <2>1. \A step : Has(u, step) => Stage[step] = 1
    BY DEF Body, Has
  <2>. QED BY <2>1, StageValues
<1>. HIDE DEF w
<1>11. Follows(w)
  <2>1. \A step \in Early \cup {"alloc", "pcie", "write_done", "fast"} : ~Has(v, step)
    BY <1>4 DEF Early
  <2>. QED BY <1>4, <1>6, <1>10, <2>1 DEF Follows, Body
<1>12. Reports(w)
  BY <1>4, <1>6, <1>10 DEF Reports
<1>. QED BY <1>6, <1>7, <1>8, <1>9, <1>11, <1>12 DEF Script, w

(* The beginnings of the virtual collectives *)
LEMMA OpeningFacts ==
  \A u \in {<<"begin", "input", "input_wait", "fast", "pcie">>, <<"begin", "input", "input_wait", "pcie">>,
            <<"alloc", "begin", "input", "input_wait", "fast", "pcie">>,
            <<"alloc", "begin", "input", "input_wait", "pack", "fast", "pcie">>,
            <<"begin", "pcie">>, <<"fast", "begin", "pcie">>, <<"alloc", "pack", "fast", "begin", "pcie">>} :
    Opening(u)
<1>. DEFINE Steps == {"alloc", "begin", "input", "input_wait", "pack", "fast", "pcie"}
<1>1. /\ \A step \in Steps : step \in StepNames /\ Stage[step] = 1 /\ Filling[step] <= 2
      /\ Filling["alloc"] = 0 /\ Filling["begin"] = 0 /\ Filling["pcie"] = 0 /\ Filling["input"] = 1
      /\ Filling["input_wait"] = 1 /\ Filling["pack"] = 2 /\ Filling["fast"] = 2
  <2>1. Steps \subseteq StepNames
    BY DEF StepNames
  <2>. QED BY <2>1, StageValues, FillingValues DEF Early, Fills
<1>2. ASSUME NEW u, u = <<"begin", "input", "input_wait", "fast", "pcie">> PROVE Opening(u)
  BY <1>1, <1>2 DEF Opening, Sorted, FirstAlloc, Has
<1>3. ASSUME NEW u, u = <<"begin", "input", "input_wait", "pcie">> PROVE Opening(u)
  BY <1>1, <1>3 DEF Opening, Sorted, FirstAlloc, Has
<1>4. ASSUME NEW u, u = <<"alloc", "begin", "input", "input_wait", "fast", "pcie">> PROVE Opening(u)
  BY <1>1, <1>4 DEF Opening, Sorted, FirstAlloc, Has
<1>5. ASSUME NEW u, u = <<"alloc", "begin", "input", "input_wait", "pack", "fast", "pcie">> PROVE Opening(u)
  BY <1>1, <1>5 DEF Opening, Sorted, FirstAlloc, Has
<1>6. ASSUME NEW u, u = <<"begin", "pcie">> PROVE Opening(u)
  BY <1>1, <1>6 DEF Opening, Sorted, FirstAlloc, Has
<1>7. ASSUME NEW u, u = <<"fast", "begin", "pcie">> PROVE Opening(u)
  BY <1>1, <1>7 DEF Opening, Sorted, FirstAlloc, Has
<1>8. ASSUME NEW u, u = <<"alloc", "pack", "fast", "begin", "pcie">> PROVE Opening(u)
  BY <1>1, <1>8 DEF Opening, Sorted, FirstAlloc, Has
<1>. QED BY <1>2, <1>3, <1>4, <1>5, <1>6, <1>7, <1>8

(* The fast part alone, with a report or without *)
LEMMA FastBody ==
  Body(<<"fast">>) /\ \A step : Has(<<"fast">>, step) <=> step = "fast"
<1>1. ASSUME NEW u, u = <<"fast">> PROVE Body(u) /\ \A step : Has(u, step) <=> step = "fast"
  <2>1. u \in Seq(StepNames) /\ Len(u) = 1 /\ u[1] = "fast" /\ Stage["fast"] = 1
    BY <1>1, StageValues DEF StepNames
  <2>2. \A step : Has(u, step) <=> step = "fast"
    BY <2>1 DEF Has
  <2>. QED BY <2>1, <2>2 DEF Body, Sorted, FirstAlloc, Coupled, Early
<1>. QED BY <1>1

(* What a virtual collective leaves to do when it starts *)
Starts(w, op) ==
  /\ w \in Seq(StepNames) /\ Script(w)
  /\ Has(w, "fast") \/ Has(w, "pcie")
  /\ Has(w, "merge") => op = "AllGather"
  /\ Has(w, "callback") => Has(w, "begin") \/ program.log

(* The scripts of a collective that the fast library runs alone. *)
LEMMA ShortStarts ==
  /\ \A op : Starts(<<"fast">> \o <<"return">>, op)
  /\ LET w == <<"fast">> \o Notify \o <<"return">>
     IN /\ Script(w) /\ w \in Seq(StepNames) /\ Has(w, "fast") /\ ~Has(w, "merge")
        /\ \A step \in Early \cup {"pcie", "alloc", "write_done", "wait_done", "event", "begin"} : ~Has(w, step)
        /\ \A step : Has(w, step) => step \in {"fast", "return"} \cup {"register", "attach", "callback"}
<1>1. PICK u : u = <<"fast">>
  OBVIOUS
<1>2. Body(u) /\ (\A step : Has(u, step) <=> step = "fast") /\ u \in Seq(StepNames)
  BY <1>1, FastBody DEF Body
<1>3. \A v \in {<<"return">>, Notify \o <<"return">>} :
           /\ Script(u \o v) /\ u \o v \in Seq(StepNames)
           /\ \A step : Has(u \o v, step) <=> Has(u, step) \/ Has(v, step)
  BY <1>2, BodyScript
<1>4. \A op : Starts(u \o <<"return">>, op)
  <2>1. ~Has(<<"return">>, "merge") /\ ~Has(<<"return">>, "callback")
    BY DEF Has
  <2>. QED BY <1>2, <1>3, <2>1 DEF Starts
<1>5. u \o Notify \o <<"return">> = u \o (Notify \o <<"return">>)
  <2>1. <<"return">> \in Seq(StepNames)
    BY DEF StepNames
  <2>. QED BY <1>2, <2>1, NotifyFacts, ConcatAssociative
<1>6. \A step : Has(Notify \o <<"return">>, step) => step \in {"register", "attach", "callback", "return"}
  <2>1. PICK v : v = Notify \o <<"return">>
    OBVIOUS
  <2>2. Len(v) = 4 /\ v[1] = "register" /\ v[2] = "attach" /\ v[3] = "callback" /\ v[4] = "return"
    BY <2>1, ReportPlaces
  <2>3. \A i \in 1 .. Len(v) : i \in {1, 2, 3, 4}
    BY <2>2
  <2>4. \A step : Has(v, step) => step \in {"register", "attach", "callback", "return"}
    BY <2>2, <2>3 DEF Has
  <2>. QED BY <2>1, <2>4
<1>7. \A op : Starts(<<"fast">> \o <<"return">>, op)
  BY <1>1, <1>4
<1>8. PICK v : v = Notify \o <<"return">>
  OBVIOUS
<1>9. PICK w : w = u \o v
  OBVIOUS
<1>10. Script(w) /\ w \in Seq(StepNames) /\ \A step : Has(w, step) <=> step = "fast" \/ Has(v, step)
  BY <1>2, <1>3, <1>8, <1>9
<1>11. \A step : Has(w, step) => step \in {"fast", "register", "attach", "callback", "return"}
  BY <1>6, <1>8, <1>10
<1>12. Has(w, "fast") /\ ~Has(w, "merge")
       /\ \A step \in Early \cup {"pcie", "alloc", "write_done", "wait_done", "event", "begin"} : ~Has(w, step)
  BY <1>10, <1>11 DEF Early
<1>13. <<"fast">> \o Notify \o <<"return">> = w
  BY <1>1, <1>5, <1>8, <1>9
<1>. QED BY <1>7, <1>10, <1>11, <1>12, <1>13

(* Every virtual collective is such a script. *)
LEMMA WholeScript ==
  ASSUME NEW op \in {"AllReduce", "AllGather", "ReduceScatter", "AllToAll"}, NEW p
  PROVE  Starts(StepsOf(op, p) \o <<"return">>, op)
<1>0. <<"return">> \in Seq(StepNames) /\ Notify \in Seq(StepNames)
  BY NotifyFacts DEF StepNames
<1>1. ASSUME NEW u, Body(u), Has(u, "pcie"), Has(u, "begin"), Has(u, "merge") => op = "AllGather"
      PROVE  Starts(u \o Notify \o <<"return">>, op)
  <2>1. u \in Seq(StepNames)
    BY <1>1 DEF Body
  <2>2. u \o Notify \o <<"return">> = u \o (Notify \o <<"return">>)
    BY <1>0, <2>1, ConcatAssociative
  <2>. DEFINE v == Notify \o <<"return">>
              w == u \o v
  <2>3. Script(w) /\ w \in Seq(StepNames) /\ \A step : Has(w, step) <=> Has(u, step) \/ Has(v, step)
    BY <1>1, BodyScript
  <2>4. ~Has(v, "merge")
    <3>1. v \in Seq(StepNames) /\ Len(v) = 4 /\ v[1] = "register" /\ v[2] = "attach" /\ v[3] = "callback" /\ v[4] = "return"
      BY ReportPlaces
    <3>. HIDE DEF v
    <3>2. \A i \in 1 .. Len(v) : i \in {1, 2, 3, 4}
      BY <3>1
    <3>. QED BY <3>1, <3>2 DEF Has
  <2>. HIDE DEF w, v
  <2>5. Starts(w, op)
    BY <1>1, <2>3, <2>4 DEF Starts
  <2>. QED BY <2>2, <2>5 DEF w, v
<1>2. ASSUME NEW u, Opening(u)
      PROVE  /\ Starts(u \o Finish \o Notify \o <<"return">>, op)
             /\ op = "AllGather" => Starts(u \o Finish \o <<"merge">> \o Notify \o <<"return">>, op)
  <2>1. u \in Seq(StepNames) /\ Finish \in Seq(StepNames) /\ <<"merge">> \in Seq(StepNames)
    BY <1>2, FinishFacts, NotifyFacts DEF Opening
  <2>2. u \o Finish \o <<"merge">> = u \o (Finish \o <<"merge">>)
    BY <2>1, ConcatAssociative
  <2>3. \A v \in {Finish, Finish \o <<"merge">>} :
          /\ Body(u \o v) /\ Has(u \o v, "pcie") /\ Has(u \o v, "begin")
          /\ v = Finish => ~Has(u \o v, "merge")
    BY <1>2, OpeningFinish
  <2>4. Starts(u \o Finish \o Notify \o <<"return">>, op)
    BY <1>1, <2>3
  <2>5. ASSUME op = "AllGather" PROVE Starts(u \o Finish \o <<"merge">> \o Notify \o <<"return">>, op)
    BY <1>1, <2>2, <2>3, <2>5
  <2>. QED BY <2>4, <2>5
<1>3. Starts(FastOnly \o <<"return">>, op)
  <2>1. CASE ~program.log
    BY <2>1, ShortStarts DEF FastOnly
  <2>2. CASE program.log
    <3>1. FastOnly = <<"fast">> \o Notify
      BY <2>2 DEF FastOnly
    <3>2. Starts(<<"fast">> \o Notify \o <<"return">>, op)
      BY <2>2, ShortStarts DEF Starts
    <3>. QED BY <3>1, <3>2
  <2>. QED BY <2>1, <2>2
<1>4. /\ Starts(SplitInPlace \o <<"return">>, op) /\ Starts(PcieOnly \o <<"return">>, op)
      /\ Starts(ReduceScatterStaged \o <<"return">>, op)
      /\ Starts(AllToAllPcie \o <<"return">>, op) /\ Starts(AllToAllV \o <<"return">>, op)
      /\ Starts(AllToAllStaged \o <<"return">>, op)
      /\ op = "AllGather" => Starts(AllGatherStaged \o <<"return">>, op)
  BY <1>2, OpeningFacts DEF SplitInPlace, PcieOnly, AllGatherStaged, ReduceScatterStaged, AllToAllPcie, AllToAllV,
                            AllToAllStaged
<1>5. \/ StepsOf(op, p) \in {FastOnly, SplitInPlace, PcieOnly, ReduceScatterStaged, AllToAllPcie, AllToAllV, AllToAllStaged}
      \/ op = "AllGather" /\ StepsOf(op, p) = AllGatherStaged
  BY DEF StepsOf, AllReduce, AllGather, ReduceScatter, AllToAll
<1>. QED BY <1>3, <1>4, <1>5

(* No script is left, or the next call. *)
LEMMA RestScripts ==
  \A w \in {<<>>, <<"call">>, <<"return">>} : Script(w) /\ \A step \in StepNames \ {"call", "return"} : ~Has(w, step)
<1>1. ASSUME NEW w \in {<<>>, <<"call">>, <<"return">>}
      PROVE  \A i \in 1 .. Len(w) : i = 1 /\ w[1] \in {"call", "return"}
  <2>1. ASSUME w = <<>> PROVE Len(w) = 0
    BY <2>1
  <2>2. ASSUME w = <<"call">> PROVE Len(w) = 1 /\ w[1] = "call"
    BY <2>2
  <2>3. ASSUME w = <<"return">> PROVE Len(w) = 1 /\ w[1] = "return"
    BY <2>3
  <2>4. Len(w) = 0 \/ (Len(w) = 1 /\ w[1] \in {"call", "return"})
    BY <2>1, <2>2, <2>3
  <2>5. PICK g : g = w
    OBVIOUS
  <2>6. \A i \in 1 .. Len(g) : i = 1 /\ Len(g) = 1
    BY <2>4, <2>5
  <2>. QED BY <2>4, <2>5, <2>6
<1>. TAKE w \in {<<>>, <<"call">>, <<"return">>}
<1>2. \A step \in StepNames \ {"call", "return"} : ~Has(w, step)
  BY <1>1 DEF Has
<1>3. Early \cup {"pcie", "alloc", "register", "attach", "callback", "write_done"} \subseteq StepNames \ {"call", "return"}
  BY DEF Early, StepNames
<1>4. Follows(w) /\ Reports(w)
  BY <1>2, <1>3 DEF Follows, Reports
<1>5. Sorted(w, Stage, {1}) /\ Sorted(w, Filling, {1, 2}) /\ FirstAlloc(w) /\ Coupled(w)
  BY <1>1 DEF Sorted, FirstAlloc, Coupled
<1>. QED BY <1>2, <1>4, <1>5 DEF Script

-----------------------------------------------------------------------------
(* The steps of a host thread, by what they do to its script *)

(* What a step queues when it is taken *)
QueuedBy(step) ==
  CASE step = "call" -> {"produce"}
    [] step = "input" -> {"ready"}
    [] step = "input_wait" -> {"wait_ready"}
    [] step = "pack" -> {"pack"}
    [] step = "fast" -> {"fast"}
    [] step = "pcie" -> Parts
    [] step = "write_done" -> {"done"}
    [] step = "wait_done" -> {"wait_done"}
    [] step = "event" -> {"wait_event"}
    [] step = "merge" -> {"merge", "free"}
    [] step = "callback" -> {"callback"}
    [] step = "return" -> {"consume"}
    [] OTHER -> {}

(* What the steps queue, one by one. *)
LEMMA QueuedByValues ==
  /\ QueuedBy("call") = {"produce"} /\ QueuedBy("input") = {"ready"} /\ QueuedBy("input_wait") = {"wait_ready"}
  /\ QueuedBy("pack") = {"pack"} /\ QueuedBy("fast") = {"fast"} /\ QueuedBy("pcie") = Parts
  /\ QueuedBy("write_done") = {"done"} /\ QueuedBy("wait_done") = {"wait_done"} /\ QueuedBy("event") = {"wait_event"}
  /\ QueuedBy("merge") = {"merge", "free"} /\ QueuedBy("callback") = {"callback"} /\ QueuedBy("return") = {"consume"}
  /\ \A step \in {"alloc", "begin", "sync_user", "sync_pcie", "register", "attach"} : QueuedBy(step) = {}
BY DEF QueuedBy

(* Thread t queues an operation where it belongs. *)
Adds(t, kind) ==
  LET s == IF kind \in PcieKinds THEN PcieStream(t) ELSE Stream(t)
  IN /\ s \in Streams /\ Len(stream[s]) \in Nat /\ Len(stream'[s]) = Len(stream[s]) + 1
     /\ stream'[s][Len(stream[s]) + 1] = item(kind, t)

(* The next step is taken, replaced by a fallback, or given up with the    *)
(* rest; a collective begins, or the thread goes on to the next.           *)
Advance(t, w) ==
  /\ next(t) /\ Head(w) # "call" /\ index' = index
  /\ Keeps(t) \/ (Head(w) = "begin" /\ Takes(t)) \/ (Head(w) = "return" /\ GivesBack(t))
  /\ Head(w) = "write_done" => Granted(t)
  /\ Head(w) \in {"pack", "fast", "pcie", "write_done", "wait_done", "event", "callback"} =>
       \E kind \in QueuedBy(Head(w)) : Adds(t, kind)
FallsBack(t, w) ==
  /\ \E step, k : Fallback(w, step, k) /\ Instead(t, step, k)
  /\ stream' = stream /\ Keeps(t) /\ UNCHANGED <<pending, freed, buffer, ok>>
CutsShort(t, w) ==
  /\ stream' = stream /\ Keeps(t) /\ UNCHANGED <<pending, buffer>>
  /\ \/ Head(w) = "alloc" /\ todo' = [todo EXCEPT ![t] = <<"fast">> \o Notify \o <<"return">>]
     \/ Head(w) = "sync_user" /\ todo' = [todo EXCEPT ![t] = <<"return">>]
StartsCall(t, w) ==
  /\ Head(w) = "call" /\ Keeps(t) /\ UNCHANGED <<pending, freed, buffer>>
  /\ todo' = [todo EXCEPT ![t] = StepsOf(Call(Current(t)).op, LaunchPlan(Current(t))) \o <<"return">>]
GoesOn(t, w) ==
  /\ Head(w) = "return" /\ GivesBack(t) /\ index' = [index EXCEPT ![t] = @ + 1] /\ todo' = [todo EXCEPT ![t] = <<"call">>]

Moves(t, w) ==
  \/ Advance(t, w) \/ FallsBack(t, w) \/ CutsShort(t, w) \/ StartsCall(t, w) \/ GoesOn(t, w)

(* The step that a thread is at says which action it takes. *)
LEMMA ActionHeads ==
  ASSUME NEW t
  PROVE  /\ (StartCall(t) => at(t, "call")) /\ (Allocate(t) => at(t, "alloc"))
         /\ (BeginValueSync(t) => at(t, "begin")) /\ (NoValueSync(t) => at(t, "begin"))
         /\ (EnqueueInputReady(t) => at(t, "input")) /\ (EnqueueInputWait(t) => at(t, "input_wait"))
         /\ (SynchronizeUser(t) => at(t, "sync_user")) /\ (SynchronizeFails(t) => at(t, "sync_user"))
         /\ (Pack(t) => at(t, "pack")) /\ (FastPart(t) => at(t, "fast")) /\ (PciePart(t) => at(t, "pcie"))
         /\ (EnqueueWrite(t) => at(t, "write_done")) /\ (EnqueueWait(t) => at(t, "wait_done"))
         /\ (WaitEventOnStream(t) => at(t, "event")) /\ (SyncPcieStream(t) => at(t, "sync_pcie"))
         /\ (Merge(t) => at(t, "merge")) /\ (RegisterPending(t) => at(t, "register"))
         /\ (AttachTimers(t) => at(t, "attach")) /\ (EnqueueCallback(t) => at(t, "callback"))
         /\ (Return(t) => at(t, "return"))
<1>1. /\ (StartCall(t) => at(t, "call")) /\ (Allocate(t) => at(t, "alloc"))
      /\ (BeginValueSync(t) => at(t, "begin")) /\ (NoValueSync(t) => at(t, "begin"))
  BY DEF StartCall, Allocate, BeginValueSync, NoValueSync
<1>2. /\ (EnqueueInputReady(t) => at(t, "input")) /\ (EnqueueInputWait(t) => at(t, "input_wait"))
      /\ (SynchronizeUser(t) => at(t, "sync_user")) /\ (SynchronizeFails(t) => at(t, "sync_user"))
  BY DEF EnqueueInputReady, EnqueueInputWait, SynchronizeUser, SynchronizeFails
<1>3. /\ (Pack(t) => at(t, "pack")) /\ (FastPart(t) => at(t, "fast")) /\ (PciePart(t) => at(t, "pcie"))
      /\ (EnqueueWrite(t) => at(t, "write_done")) /\ (EnqueueWait(t) => at(t, "wait_done"))
  BY DEF Pack, FastPart, PciePart, EnqueueWrite, EnqueueWait
<1>4. /\ (WaitEventOnStream(t) => at(t, "event")) /\ (SyncPcieStream(t) => at(t, "sync_pcie"))
      /\ (Merge(t) => at(t, "merge")) /\ (RegisterPending(t) => at(t, "register"))
  BY DEF WaitEventOnStream, SyncPcieStream, Merge, RegisterPending
<1>5. /\ (AttachTimers(t) => at(t, "attach")) /\ (EnqueueCallback(t) => at(t, "callback"))
      /\ (Return(t) => at(t, "return"))
  BY DEF AttachTimers, EnqueueCallback, Return
<1>. QED BY <1>1, <1>2, <1>3, <1>4, <1>5

(* What every step of a host thread does to the streams *)
HostEffect(t) ==
  /\ todo[t] # <<>> /\ HostShape(t) /\ UNCHANGED <<happened, token, holder>>
  /\ Extended(t, QueuedBy(Head(todo[t]))) /\ Moves(t, todo[t])

(* A step that queues one operation and is taken *)
LEMMA AddsOne ==
  ASSUME Types, Types', NEW t \in Threads, HostShape(t), NEW kind \in Kinds,
         enqueue(IF kind \in PcieKinds THEN PcieStream(t) ELSE Stream(t), item(kind, t))
  PROVE  Extended(t, {kind}) /\ Adds(t, kind)
<1>. DEFINE s == IF kind \in PcieKinds THEN PcieStream(t) ELSE Stream(t)
<1>1. s \in Streams /\ StreamTypes
  BY CurrentFacts DEF Types
<1>2. enqueue(s, item(kind, t))
  OBVIOUS
<1>3. Len(stream[s]) \in Nat
  BY <1>1, StreamLengths
<1>. HIDE DEF s
<1>4. Extended(t, {kind}) /\ stream'[s][Len(stream[s]) + 1] = item(kind, t) /\ Len(stream'[s]) = Len(stream[s]) + 1
  BY <1>1, <1>2, ExtendedByOne
<1>. QED BY <1>1, <1>3, <1>4 DEF Adds, s

(* More kinds may be said to be queued than are. *)
LEMMA ExtendedMore ==
  ASSUME NEW t, NEW K, NEW L, K \subseteq L, Extended(t, K)
  PROVE  Extended(t, L)
BY DEF Extended

(* Steps that queue one operation each, and those that queue none *)
LEMMA EffectOfQueueing ==
  ASSUME Types, Types', NEW t \in Threads, HostShape(t),
         Pack(t) \/ FastPart(t) \/ PciePart(t) \/ WaitEventOnStream(t) \/ EnqueueCallback(t)
  PROVE  HostEffect(t)
<1>1. /\ Keeps(t) /\ index' = index /\ next(t) /\ UNCHANGED <<happened, token, holder>>
  BY DEF Pack, FastPart, PciePart, WaitEventOnStream, EnqueueCallback, HostStep, Keeps, quiet, locals, sync, device
<1>2. {"pack", "fast", "pcie", "nothing", "wait_event", "callback"} \subseteq Kinds
      /\ "pcie" \in PcieKinds /\ "nothing" \in PcieKinds
      /\ {"pack", "fast", "wait_event", "callback"} \cap PcieKinds = {}
  BY DEF Kinds, PcieKinds
<1>. DEFINE Q(step, kind) ==
              /\ at(t, step) /\ step \in {"pack", "fast", "pcie", "event", "callback"}
              /\ kind \in Kinds /\ kind \in QueuedBy(step)
              /\ enqueue(IF kind \in PcieKinds THEN PcieStream(t) ELSE Stream(t), item(kind, t))
<1>3. PICK step, kind : Q(step, kind)
  <2>1. Pack(t) => Q("pack", "pack")
    BY <1>2, QueuedByValues DEF Pack
  <2>2. FastPart(t) => Q("fast", "fast")
    BY <1>2, QueuedByValues DEF FastPart
  <2>3. PciePart(t) => Q("pcie", "pcie") \/ Q("pcie", "nothing")
    BY <1>2, QueuedByValues DEF PciePart, Parts
  <2>4. WaitEventOnStream(t) => Q("event", "wait_event")
    BY <1>2, QueuedByValues DEF WaitEventOnStream
  <2>5. EnqueueCallback(t) => Q("callback", "callback")
    BY <1>2, QueuedByValues DEF EnqueueCallback
  <2>. HIDE DEF Q
  <2>. QED BY <2>1, <2>2, <2>3, <2>4, <2>5
<1>4. Extended(t, {kind}) /\ Adds(t, kind)
  BY <1>3, AddsOne
<1>5. todo[t] # <<>> /\ Head(todo[t]) = step
  BY <1>3 DEF at
<1>6. Extended(t, QueuedBy(step))
  BY <1>3, <1>4, ExtendedMore
<1>7. Advance(t, todo[t])
  BY <1>1, <1>3, <1>4, <1>5 DEF Advance
<1>. QED BY <1>1, <1>5, <1>6, <1>7 DEF HostEffect, Moves

(* The steps that queue tokens and waits, or fall back *)
LEMMA EffectOfSync ==
  ASSUME Types, Types', NEW t \in Threads, HostShape(t),
         EnqueueInputReady(t) \/ EnqueueInputWait(t) \/ EnqueueWrite(t) \/ EnqueueWait(t)
  PROVE  HostEffect(t)
<1>1. /\ Keeps(t) /\ index' = index /\ UNCHANGED <<happened, token, holder>> /\ UNCHANGED <<pending, freed, buffer, ok>>
  BY DEF EnqueueInputReady, EnqueueInputWait, EnqueueWrite, EnqueueWait, HostStep, Keeps, quiet, locals, sync, device
<1>2. /\ {"ready", "wait_ready", "done", "wait_done"} \subseteq Kinds
      /\ "done" \in PcieKinds /\ "wait_ready" \in PcieKinds /\ "ready" \notin PcieKinds /\ "wait_done" \notin PcieKinds
  BY DEF Kinds, PcieKinds
<1>. DEFINE Falls == stream' = stream /\ \E x, k : Fallback(todo[t], x, k) /\ Instead(t, x, k)
            Q(step, kind) ==
              /\ at(t, step) /\ step \in {"input", "input_wait", "write_done", "wait_done"}
              /\ kind \in Kinds /\ QueuedBy(step) = {kind}
              /\ \/ /\ enqueue(IF kind \in PcieKinds THEN PcieStream(t) ELSE Stream(t), item(kind, t)) /\ next(t)
                    /\ step = "write_done" => Granted(t)
                 \/ Falls
<1>3. PICK step, kind : Q(step, kind)
  <2>1. EnqueueInputReady(t) => Q("input", "ready")
    <3>1. at(t, "input") /\ stream' = stream /\ Instead(t, "sync_user", 2) => Falls
      BY DEF Fallback, at
    <3>. QED BY <1>2, <3>1, QueuedByValues DEF EnqueueInputReady
  <2>2. EnqueueInputWait(t) => Q("input_wait", "wait_ready")
    <3>1. at(t, "input_wait") /\ stream' = stream /\ Instead(t, "sync_user", 1) => Falls
      BY DEF Fallback, at
    <3>. QED BY <1>2, <3>1, QueuedByValues DEF EnqueueInputWait
  <2>3. EnqueueWrite(t) => Q("write_done", "done")
    <3>1. at(t, "write_done") /\ stream' = stream /\ Instead(t, "event", 2) => Falls
      BY DEF Fallback, at
    <3>. QED BY <1>2, <3>1, QueuedByValues DEF EnqueueWrite
  <2>4. EnqueueWait(t) => Q("wait_done", "wait_done")
    <3>1. at(t, "wait_done") /\ stream' = stream /\ Instead(t, "event", 1) => Falls
      BY DEF Fallback, at
    <3>. QED BY <1>2, <3>1, QueuedByValues DEF EnqueueWait
  <2>. HIDE DEF Q
  <2>. QED BY <2>1, <2>2, <2>3, <2>4
<1>4. todo[t] # <<>> /\ Head(todo[t]) = step
  BY <1>3 DEF at
<1>5. CASE /\ enqueue(IF kind \in PcieKinds THEN PcieStream(t) ELSE Stream(t), item(kind, t)) /\ next(t)
           /\ step = "write_done" => Granted(t)
  <2>1. Extended(t, {kind}) /\ Adds(t, kind)
    BY <1>3, <1>5, AddsOne
  <2>2. Advance(t, todo[t])
    BY <1>1, <1>3, <1>4, <1>5, <2>1 DEF Advance
  <2>. QED BY <1>1, <1>3, <1>4, <2>1, <2>2 DEF HostEffect, Moves
<1>6. CASE stream' = stream /\ \E x, k : Fallback(todo[t], x, k) /\ Instead(t, x, k)
  <2>1. Extended(t, QueuedBy(step))
    BY <1>6, ExtendedByNone DEF Types
  <2>2. FallsBack(t, todo[t])
    BY <1>1, <1>6 DEF FallsBack
  <2>. QED BY <1>1, <1>4, <2>1, <2>2 DEF HostEffect, Moves
<1>. QED BY <1>3, <1>5, <1>6

(* The steps that queue nothing *)
LEMMA EffectOfOthers ==
  ASSUME Types, Types', NEW t \in Threads, HostShape(t),
         \/ Allocate(t) \/ BeginValueSync(t) \/ NoValueSync(t) \/ SynchronizeUser(t) \/ SynchronizeFails(t)
         \/ SyncPcieStream(t) \/ RegisterPending(t) \/ AttachTimers(t)
  PROVE  HostEffect(t)
<1>1. /\ index' = index /\ UNCHANGED <<happened, token, holder>> /\ stream' = stream
      /\ Keeps(t) \/ (at(t, "begin") /\ Takes(t))
  BY DEF Allocate, BeginValueSync, NoValueSync, SynchronizeUser, SynchronizeFails, SyncPcieStream, RegisterPending,
         AttachTimers, HostStep, Keeps, Takes, quiet, locals, sync, device
<1>2. PICK step \in {"alloc", "begin", "sync_user", "sync_pcie", "register", "attach"} :
        /\ at(t, step)
        /\ \/ next(t)
           \/ step = "alloc" /\ todo' = [todo EXCEPT ![t] = <<"fast">> \o Notify \o <<"return">>] /\ UNCHANGED <<pending, buffer>>
           \/ step = "sync_user" /\ todo' = [todo EXCEPT ![t] = <<"return">>] /\ UNCHANGED <<pending, buffer>>
  <2>1. CASE Allocate(t)
    BY <2>1 DEF Allocate
  <2>2. CASE BeginValueSync(t) \/ NoValueSync(t)
    BY <2>2 DEF BeginValueSync, NoValueSync
  <2>3. CASE SynchronizeUser(t) \/ SyncPcieStream(t)
    BY <2>3 DEF SynchronizeUser, SyncPcieStream
  <2>4. CASE SynchronizeFails(t)
    BY <2>4 DEF SynchronizeFails
  <2>5. CASE RegisterPending(t) \/ AttachTimers(t)
    BY <2>5 DEF RegisterPending, AttachTimers
  <2>. QED BY <2>1, <2>2, <2>3, <2>4, <2>5
<1>3. todo[t] # <<>> /\ Head(todo[t]) = step /\ (at(t, "begin") => step = "begin")
  BY <1>2 DEF at
<1>4. Extended(t, QueuedBy(step))
  BY <1>1, ExtendedByNone DEF Types
<1>5. CASE next(t)
  <2>1. Advance(t, todo[t])
    BY <1>1, <1>3, <1>5 DEF Advance
  <2>. QED BY <1>1, <1>3, <1>4, <2>1 DEF HostEffect, Moves
<1>6. CASE ~next(t)
  <2>1. step # "begin"
    BY <1>2, <1>6
  <2>2. CutsShort(t, todo[t])
    BY <1>1, <1>2, <1>3, <1>6, <2>1 DEF CutsShort
  <2>. QED BY <1>1, <1>3, <1>4, <2>2 DEF HostEffect, Moves
<1>. QED BY <1>5, <1>6

(* Every step of a host thread is of one of these forms. *)
LEMMA EffectOfHost ==
  ASSUME Types, NEW t \in Threads, HostNext(t)
  PROVE  HostEffect(t) /\ Types'
<1>1. Types' /\ HostShape(t)
  BY HostOK
<1>2. CASE StartCall(t)
  <2>1. /\ Keeps(t) /\ at(t, "call") /\ UNCHANGED <<happened, token, holder>> /\ UNCHANGED <<pending, freed, buffer>>
        /\ enqueue(Stream(t), item("produce", t))
        /\ todo' = [todo EXCEPT ![t] = StepsOf(Call(Current(t)).op, LaunchPlan(Current(t))) \o <<"return">>]
    BY <1>2 DEF StartCall, Keeps, device, sync
  <2>2. "produce" \in Kinds /\ "produce" \notin PcieKinds
    BY DEF Kinds, PcieKinds
  <2>3. Extended(t, QueuedBy("call"))
    BY <1>1, <2>1, <2>2, AddsOne, QueuedByValues
  <2>4. todo[t] # <<>> /\ Head(todo[t]) = "call"
    BY <2>1 DEF at
  <2>5. StartsCall(t, todo[t])
    BY <2>1, <2>4 DEF StartsCall
  <2>. QED BY <1>1, <2>1, <2>3, <2>4, <2>5 DEF HostEffect, Moves
<1>3. CASE Merge(t)
  <2>1. Keeps(t) /\ index' = index /\ UNCHANGED <<happened, token, holder>> /\ next(t) /\ at(t, "merge")
    BY <1>3 DEF Merge, Keeps, locals, sync, device
  <2>2. Extended(t, QueuedBy("merge"))
    BY <1>1, <1>3, MergeExtends, QueuedByValues
  <2>3. todo[t] # <<>> /\ Head(todo[t]) = "merge"
    BY <2>1 DEF at
  <2>4. Advance(t, todo[t])
    BY <2>1, <2>3 DEF Advance
  <2>. QED BY <1>1, <2>1, <2>2, <2>3, <2>4 DEF HostEffect, Moves
<1>4. CASE Return(t)
  <2>1. /\ GivesBack(t) /\ UNCHANGED <<happened, token, holder>> /\ at(t, "return")
        /\ stream' = stream \/ enqueue(Stream(t), item("consume", t))
        /\ \/ index' = [index EXCEPT ![t] = @ + 1] /\ todo' = [todo EXCEPT ![t] = <<"call">>]
           \/ index' = index /\ next(t)
    BY <1>4 DEF Return, GivesBack, quiet, device
  <2>2. "consume" \in Kinds /\ "consume" \notin PcieKinds
    BY DEF Kinds, PcieKinds
  <2>3. Extended(t, QueuedBy("return"))
    <3>1. CASE stream' = stream
      BY <3>1, ExtendedByNone DEF Types
    <3>2. CASE enqueue(Stream(t), item("consume", t))
      BY <1>1, <2>2, <3>2, AddsOne, QueuedByValues
    <3>. QED BY <2>1, <3>1, <3>2
  <2>4. todo[t] # <<>> /\ Head(todo[t]) = "return"
    BY <2>1 DEF at
  <2>5. Advance(t, todo[t]) \/ GoesOn(t, todo[t])
    BY <2>1, <2>4 DEF Advance, GoesOn
  <2>. QED BY <1>1, <2>1, <2>3, <2>4, <2>5 DEF HostEffect, Moves
<1>. QED BY <1>1, <1>2, <1>3, <1>4, EffectOfQueueing, EffectOfSync, EffectOfOthers DEF HostNext

=============================================================================
