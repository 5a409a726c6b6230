-------------------------- MODULE ParamStoreProofs --------------------------
(***************************************************************************)
(* Proofs about ParamStore for any number of ranks, any programs and any   *)
(* outcome of the submissions, on a segment that is new or was left behind *)
(* by a job that ended cleanly.                                            *)
(*                                                                         *)
(* The argument.  The sense barrier keeps all ranks in the same round: the *)
(* number of barriers a rank has been let through, Passed, is the same for *)
(* all.  So a rank reads the parameters only between rank 0's signal and   *)
(* its own decrement of the same round, rank 0 writes only outside of that *)
(* window, and every rank takes over the same entry once per round.  The   *)
(* caches then agree whenever a barrier is passed, and with them the plans *)
(* made from them.  With one collective in flight, the slots that are      *)
(* valid are those of the last collective that rank 0 has launched.        *)
(***************************************************************************)
EXTENDS ParamStore, FiniteSetTheorems, SequenceTheorems, TLAPS

-----------------------------------------------------------------------------
(* Queues *)

(* What Append makes of a sequence. *)
LEMMA Pushed ==
  ASSUME NEW S, NEW s \in Seq(S), NEW e \in S
  PROVE  /\ Append(s, e) \in Seq(S)
         /\ Len(s) \in Nat /\ Len(Append(s, e)) = Len(s) + 1
         /\ \A i \in 1 .. Len(s) : Append(s, e)[i] = s[i] /\ s[i] \in S
         /\ Append(s, e)[Len(s) + 1] = e
OBVIOUS

(* What Tail leaves of a sequence. *)
LEMMA Popped ==
  ASSUME NEW S, NEW s \in Seq(S), s # <<>>
  PROVE  /\ Tail(s) \in Seq(S)
         /\ Len(s) \in Nat \ {0} /\ Len(Tail(s)) = Len(s) - 1
         /\ \A i \in 1 .. Len(s) - 1 : Tail(s)[i] = s[i + 1] /\ i + 1 \in 1 .. Len(s)
         /\ Head(s) = s[1] /\ Head(s) \in S
OBVIOUS

-----------------------------------------------------------------------------

LauncherStates ==
  {"app", "attach", "consumed", "any", "all", "clear", "epoch", "write", "version", "signal",
   "read", "snapshot", "recheck", "consume", "sense", "arrive", "wait", "reset", "flip", "plan"}
WriterStates == {"consumed", "any", "all", "clear", "epoch", "write", "version", "signal"}

StatSlot == [epoch : Nat, coll : Nat, ok : BOOLEAN, valid : BOOLEAN]
Measured == [coll : Nat, ok : BOOLEAN]
Plan == [alpha : Nat, split : BOOLEAN]

(* What the variables hold. *)
SegmentTypes ==
  /\ magic \in BOOLEAN /\ stat_epoch \in Nat /\ slots \in [Ranks -> StatSlot]
  /\ param_read_count \in Int /\ barrier_count \in Int /\ barrier_sense \in {0, 1}
  /\ entries \in Entries /\ pver \in Nat

LaunchTypes ==
  /\ program \in Programs
  /\ pc \in [Ranks -> LauncherStates]
  /\ attached \in [Ranks -> BOOLEAN] /\ begun \in [Ranks -> Nat] /\ launched \in [Ranks -> Nat]
  /\ my_sense \in [Ranks -> {0, 1}] /\ v1 \in [Ranks -> Nat]
  /\ used \in [Ranks -> Seq(Plan)]

ParamTypes ==
  /\ cache \in [Ranks -> [Keys -> Values]] /\ snapshot \in [Ranks -> Entries]
  /\ agg \in [key : Keys \cup {"none"}, ok : BOOLEAN]

CallbackTypes == pending \in [Ranks -> Seq(Measured)] /\ callback \in [Ranks -> Measured]

Types == SegmentTypes /\ LaunchTypes /\ ParamTypes /\ CallbackTypes

(* How far a rank is with the collective it has begun. *)
RankProgress(r) ==
  /\ r # 0 => pc[r] \notin WriterStates
  /\ r = 0 => pc[r] # "consume"
  /\ launched[r] = IF pc[r] = "app" THEN begun[r] ELSE begun[r] - 1
  /\ begun[r] <= Len(program.keys)
  /\ Len(used[r]) = launched[r]

(* Only collectives that the rank has launched are measured. *)
RankMeasures(r) ==
  /\ slots[r].coll <= launched[r] /\ callback[r].coll <= launched[r]
  /\ callback[r] # Idle => slots[r].coll >= 1
  /\ \A i \in 1..Len(pending[r]) : pending[r][i].coll \in 1..launched[r]

Progress ==
  /\ pc[0] \in {"clear", "epoch", "write", "version"} => agg.key \in Keys
  /\ \A r \in Ranks : RankProgress(r)
  /\ \A r \in Ranks : RankMeasures(r)

(* The rank waits in the barrier although its sense has come: it can go on. *)
Freed(r) == pc[r] = "wait" /\ my_sense[r] = barrier_sense

(* It is in the barrier and is not let through yet. *)
Closing(r) == pc[r] \in {"reset", "flip"}
Inside(r) == (pc[r] = "wait" /\ my_sense[r] # barrier_sense) \/ Closing(r)
Arrived == {r \in Ranks : Inside(r)}

(* Barriers the rank has been let through. *)
Passed(r) == IF pc[r] \in {"app", "plan"} \/ Freed(r) THEN begun[r] ELSE begun[r] - 1

(* Nobody is let through a barrier that the others have not been let       *)
(* through; the last arrival alone closes it.                              *)
Together ==
  /\ \A r \in Ranks : Passed(r) = Passed(0)
  /\ \A r \in Ranks : pc[r] = "arrive" \/ Closing(r) => my_sense[r] # barrier_sense
  /\ \A r \in Ranks : Closing(r) => Arrived = Ranks /\ \A q \in Ranks : Closing(q) => q = r
  /\ Arrived = Ranks => \E r \in Ranks : Closing(r)
  /\ (\A r \in Ranks : pc[r] # "flip") => barrier_count = Cardinality(Arrived)
  /\ \A r \in Ranks : pc[r] = "flip" => barrier_count = 0

(* A rank that has launched something, or is launching, is attached.       *)
RankAttached(r) ==
  /\ attached[r] => magic
  /\ pc[r] \notin {"app", "attach"} \/ launched[r] # 0 => attached[r]
  /\ pc[r] = "attach" => ~ attached[r]
  /\ launched[r] = 0 => pending[r] = <<>> /\ callback[r] = Idle

(* Before rank 0 has attached nobody gets further than waiting for its     *)
(* first signal, so what rank 0 resets is not in use; afterwards there are *)
(* no statistics of an earlier job.                                        *)
Attachment ==
  /\ \A r \in Ranks : RankAttached(r)
  /\ ~ attached[0] =>
       /\ param_read_count = 0
       /\ \A r \in Ranks : /\ launched[r] = 0 /\ pc[r] \in {"app", "attach", "read"}
                           /\ cache[r] = cache[0]
  /\ attached[0] => \A r \in Ranks : slots[r].valid => slots[r].coll >= 1

(* Rank r is past rank 0's signal of the round and not let through yet. *)
PastSignal(r) == pc[r] \in {"snapshot", "recheck", "consume", "sense", "arrive"} \/ Inside(r)
Signalled == pc[0] = "read" \/ PastSignal(0)

(* Ranks still to take over the parameters of rank 0's last signal. *)
Behind == {r \in Ranks \ {0} : Taken(r) < Signals}

(* The rank has taken over the parameters of this round. *)
Took(r) == pc[r] \in {"sense", "arrive"} \/ Inside(r)

(* Parameters are read between rank 0's signal and the barrier only. *)
Reading ==
  /\ \A r \in Ranks \ {0} : PastSignal(r) => Signalled
  /\ \A r \in Ranks : /\ pc[r] \in {"snapshot", "recheck"} => v1[r] = pver
                      /\ pc[r] = "recheck" => snapshot[r] = entries
  /\ attached[0] => param_read_count = Cardinality(Behind)

HandOverInv == Types /\ Progress /\ Together /\ Attachment /\ Reading

(* A cache with an entry taken over. *)
Apply(e, c) == IF e = NoEntry \/ e.key \notin Keys THEN c ELSE [c EXCEPT ![e.key] = e.val]

(* The entry that the ranks take over in this round. *)
NextEntry == IF pc[0] = "write" THEN [key |-> agg.key, val |-> cache[0][agg.key]] ELSE entries

Merged(r) == pc[r] \in {"consume", "sense", "arrive"} \/ Inside(r)
Planning(r) == pc[r] = "plan" \/ Freed(r)

(* Rank 0 has not made new parameters since the last barrier. *)
Calm == pc[0] \in {"app", "consumed", "any", "all", "clear", "epoch", "plan"} \/ Freed(0)

(* The plan that rank r makes from its cache for collective c. *)
PlanOf(r, c) ==
  [alpha |-> cache[r][KeyOf(c)].alpha,
   split |-> cache[r][KeyOf(c)].use_pcie /\ KeyOf(c) \in SplitKeys]

(* With this round's entry taken over all caches agree; whoever has taken  *)
(* it over has it.  Between a barrier and the next update they agree as    *)
(* they are.                                                               *)
SameCaches ==
  /\ \A r \in Ranks : /\ Apply(NextEntry, cache[r]) = Apply(NextEntry, cache[0])
                      /\ Merged(r) => Apply(NextEntry, cache[r]) = cache[r]
  /\ Calm => \A r \in Ranks : cache[r] = cache[0]
  /\ \A r, q \in Ranks : Planning(r) /\ Planning(q) => cache[r] = cache[q]

(* The plans made so far, and those still to be made of a collective,      *)
(* agree.                                                                  *)
SamePlans ==
  /\ \A r, q \in Ranks :
        Planning(r) /\ launched[q] >= begun[r] => used[q][begun[r]] = PlanOf(r, begun[r])
  /\ SamePlan

(* Collective c of rank r is measured. *)
IsMeasured(r, c) == FastOnlyLog \/ used[r][c].split

(* A measurement of the rank is under way. *)
Busy(r) == pending[r] # <<>> \/ callback[r] # Idle

(* With one collective at a time: what is under way is the measurement of  *)
(* the collective launched last, and a slot being written is not valid.    *)
MeasuresLast(r) ==
  Busy(r) =>
    /\ pc[r] = "app" /\ IsMeasured(r, launched[r]) /\ ~ slots[r].valid
    /\ pending[r] # <<>> => /\ Len(pending[r]) = 1 /\ callback[r] = Idle
                            /\ Head(pending[r]).coll = launched[r]
    /\ callback[r] # Idle => /\ slots[r].epoch = stat_epoch /\ slots[r].coll = launched[r]
                             /\ launched[0] = launched[r]

(* A measurement is valid only while rank 0 has not aggregated it.         *)
PublishedLast(r) ==
  slots[r].valid =>
    /\ slots[r].coll = launched[0] /\ slots[r].epoch = stat_epoch
    /\ pc[0] \in {"app", "consumed", "any", "all", "clear"}

(* Rank r has not published what it will publish of rank 0's collective.   *)
Outstanding(r) == launched[r] < launched[0] \/ (Busy(r) /\ launched[r] = launched[0])

(* Rank 0 does not get past the aggregation before everybody has.          *)
AwaitsAll(r) ==
  launched[0] >= 1 /\ IsMeasured(0, launched[0]) /\ Outstanding(r) =>
    Busy(0) \/ (Current(0) /\ pc[0] \in {"app", "consumed", "any", "all"})

Measurements ==
  /\ \A r \in Ranks : MeasuresLast(r) /\ PublishedLast(r) /\ AwaitsAll(r)
  /\ pc[0] = "clear" => \A r \in Ranks : slots[r].valid

OneMeasurement == program.depth = 1 /\ attached[0] => Measurements

IInv == HandOverInv /\ SameCaches /\ SamePlans /\ OneMeasurement

-----------------------------------------------------------------------------
(* Types *)

(* The ranks are numbers, and 0 is one of them. *)
LEMMA RankNumbers ==
  /\ 0 \in Ranks /\ Ranks \subseteq Int
  /\ IsFiniteSet(Ranks) /\ Cardinality(Ranks) = NRanks
  /\ NRanks \in Nat /\ NRanks > 1
<1>1. NRanks \in Nat /\ NRanks > 1
  BY StoreAssumption
<1>2. IsFiniteSet(Ranks) /\ Cardinality(Ranks) = NRanks
  BY <1>1, FS_Interval DEF Ranks
<1>. QED BY <1>1, <1>2 DEF Ranks

(* ShmParamStore starts with typed contents, left over or not. *)
LEMMA TypesInit == Init => Types
<1>. SUFFICES ASSUME Init PROVE Types
  OBVIOUS
<1>1. Default \in Values /\ NoEntry \in Entries /\ NoStat \in StatSlot /\ Idle \in Measured
  BY DEF Default, Values, NoEntry, Entries, NoStat, StatSlot, Idle, Measured
<1>2. PICK left \in Leftovers :
       /\ magic = (left # "absent")
       /\ stat_epoch = IF left = "absent" THEN 0 ELSE 1
       /\ slots = [r \in Ranks |-> IF left = "absent" THEN NoStat ELSE StaleStat]
       /\ param_read_count = IF left = "crashed" THEN NRanks - 1 ELSE 0
       /\ barrier_count = 0
       /\ barrier_sense = IF left = "absent" THEN 0 ELSE 1
       /\ entries = IF left = "absent" THEN NoEntry ELSE StaleEntry
       /\ pver = IF left = "absent" THEN 0 ELSE 1
  BY DEF Init
<1>3. left # "absent" => StaleEntry \in Entries
  <2>. SUFFICES ASSUME left # "absent" PROVE StaleEntry \in Entries
    OBVIOUS
  <2>1. (CHOOSE k \in SplitKeys : TRUE) \in Keys
    BY StoreAssumption
  <2>. QED BY <2>1 DEF StaleEntry, Entries, Values
<1>4. StaleStat \in StatSlot
  BY DEF StaleStat, StatSlot
<1>5. magic \in BOOLEAN
  BY <1>2, Zenon
<1>6. /\ stat_epoch \in Nat /\ param_read_count \in Int /\ barrier_count \in Int
      /\ barrier_sense \in {0, 1} /\ pver \in Nat
  BY <1>2, RankNumbers
<1>7. slots \in [Ranks -> StatSlot] /\ entries \in Entries
  BY <1>1, <1>2, <1>3, <1>4
<1>8. /\ program \in Programs
      /\ pc \in [Ranks -> LauncherStates]
      /\ begun \in [Ranks -> Nat] /\ launched \in [Ranks -> Nat]
      /\ my_sense \in [Ranks -> {0, 1}] /\ v1 \in [Ranks -> Nat] /\ snapshot \in [Ranks -> Entries]
      /\ used \in [Ranks -> Seq(Plan)]
      /\ pending \in [Ranks -> Seq(Measured)] /\ callback \in [Ranks -> Measured]
  BY <1>1 DEF Init, LauncherStates
<1>9. attached \in [Ranks -> BOOLEAN] /\ cache \in [Ranks -> [Keys -> Values]]
  BY <1>1, Zenon DEF Init
<1>10. agg \in [key : Keys \cup {"none"}, ok : BOOLEAN]
  BY DEF Init
<1>. QED BY <1>5, <1>6, <1>7, <1>8, <1>9, <1>10 DEF Types, SegmentTypes, LaunchTypes, ParamTypes, CallbackTypes

(* The records of the segment and of the callbacks. *)
LEMMA Records ==
  /\ Default \in Values /\ NoEntry \in Entries /\ NoStat \in StatSlot /\ Idle \in Measured
  /\ \A s \in StatSlot : [s EXCEPT !.valid = FALSE] \in StatSlot /\ [s EXCEPT !.valid = TRUE] \in StatSlot
<1>1. Default \in Values /\ NoEntry \in Entries /\ NoStat \in StatSlot /\ Idle \in Measured
  BY DEF Default, Values, NoEntry, Entries, NoStat, StatSlot, Idle, Measured
<1>2. ASSUME NEW s \in StatSlot
      PROVE  [s EXCEPT !.valid = FALSE] \in StatSlot /\ [s EXCEPT !.valid = TRUE] \in StatSlot
  BY Zenon DEF StatSlot
<1>. QED BY <1>1, <1>2

(* Where one rank is. *)
LEMMA OneRank ==
  ASSUME Types, Progress, NEW r \in Ranks
  PROVE  /\ begun[r] \in Nat /\ launched[r] \in Nat /\ pc[r] \in LauncherStates
         /\ r # 0 => pc[r] \notin WriterStates
         /\ r = 0 => pc[r] # "consume"
         /\ pc[r] = "app" => launched[r] = begun[r]
         /\ pc[r] # "app" => launched[r] = begun[r] - 1 /\ begun[r] >= 1
         /\ begun[r] <= Len(program.keys)
         /\ used[r] \in Seq(Plan) /\ Len(used[r]) = launched[r]
         /\ my_sense[r] \in {0, 1} /\ barrier_sense \in {0, 1}
<1>1. /\ begun[r] \in Nat /\ launched[r] \in Nat /\ pc[r] \in LauncherStates
      /\ used[r] \in Seq(Plan) /\ my_sense[r] \in {0, 1} /\ barrier_sense \in {0, 1}
  BY DEF Types, LaunchTypes, SegmentTypes
<1>2. /\ r # 0 => pc[r] \notin WriterStates
      /\ r = 0 => pc[r] # "consume"
      /\ launched[r] = IF pc[r] = "app" THEN begun[r] ELSE begun[r] - 1
      /\ begun[r] <= Len(program.keys)
      /\ Len(used[r]) = launched[r]
  BY DEF Progress, RankProgress
<1>. QED BY <1>1, <1>2

(* The measurements of one rank. *)
LEMMA OneSlot ==
  ASSUME Types, Progress, NEW r \in Ranks
  PROVE  /\ slots[r] \in StatSlot /\ slots[r].coll \in Nat /\ slots[r].coll <= launched[r]
         /\ callback[r] \in Measured /\ callback[r].coll \in Nat /\ callback[r].coll <= launched[r]
         /\ pending[r] \in Seq(Measured)
         /\ callback[r] # Idle => slots[r].coll >= 1
         /\ \A i \in 1..Len(pending[r]) : pending[r][i].coll \in 1..launched[r]
<1>1. slots[r] \in StatSlot /\ callback[r] \in Measured /\ pending[r] \in Seq(Measured)
  BY DEF Types, SegmentTypes, CallbackTypes
<1>. QED BY <1>1 DEF Progress, RankMeasures, StatSlot, Measured

(* Rank 0 aggregates measurements of a collective of the program. *)
LEMMA AggregateKey ==
  ASSUME Types, Progress, Attachment, AllCurrentEpoch
  PROVE  KeyOf(slots[0].coll) \in Keys
<1>1. slots[0].valid /\ attached[0]
  BY RankNumbers DEF AllCurrentEpoch, Current, Attachment, RankAttached
<1>2. slots[0].coll \in Nat /\ slots[0].coll >= 1 /\ slots[0].coll <= begun[0] /\ begun[0] <= Len(program.keys)
  BY <1>1, RankNumbers, OneRank, OneSlot DEF Attachment
<1>3. program.keys \in Seq(Keys)
  BY StoreAssumption DEF Types, LaunchTypes
<1>4. begun[0] \in Nat
  BY RankNumbers, OneRank
<1>. QED BY <1>2, <1>3, <1>4 DEF KeyOf

(* Every step of the launching threads and the callbacks keeps the types. *)
LEMMA TypesStep == Types /\ Progress /\ Attachment /\ [Next]_vars => Types'
<1>. SUFFICES ASSUME Types, Progress, Attachment, [Next]_vars PROVE Types'
  OBVIOUS
<1>0. SegmentTypes /\ LaunchTypes /\ ParamTypes /\ CallbackTypes
  BY DEF Types
<1>. USE <1>0 DEF segment, stats, params, barrier, progress, reading, callbacks, launcher
<1>a. ASSUME NEW r \in Ranks, NEW to \in LauncherStates, goto(r, to) PROVE pc' \in [Ranks -> LauncherStates]
  BY <1>a DEF goto, LaunchTypes
<1>b. ASSUME NEW r \in Ranks, begun[r] >= 1 PROVE begun[r] \in 1..Len(program.keys) /\ KeyOf(begun[r]) \in Keys
  <2>1. program.keys \in Seq(Keys)
    BY StoreAssumption DEF LaunchTypes
  <2>2. begun[r] \in 1..Len(program.keys)
    BY <1>b, <2>1, OneRank
  <2>. QED BY <2>1, <2>2 DEF KeyOf
<1>1. ASSUME NEW r \in Ranks, Begin(r) PROVE Types'
  <2>1. /\ UNCHANGED <<segment, reading, callbacks, program, attached, launched, used, my_sense>>
        /\ begun' = [begun EXCEPT ![r] = @ + 1]
    BY <1>1 DEF Begin
  <2>2. pc' \in [Ranks -> LauncherStates]
    BY <1>1, <1>a DEF Begin, LauncherStates
  <2>3. SegmentTypes' /\ ParamTypes' /\ CallbackTypes'
    BY <2>1, Zenon DEF SegmentTypes, ParamTypes, CallbackTypes
  <2>4. begun' \in [Ranks -> Nat]
    BY <2>1 DEF LaunchTypes
  <2>. QED BY <2>1, <2>2, <2>3, <2>4, Zenon DEF LaunchTypes, Types
<1>2. ASSUME NEW r \in Ranks, Attach(r) PROVE Types'
  <2>1. UNCHANGED <<reading, callbacks, program, begun, launched, used, my_sense>>
    BY <1>2 DEF Attach
  <2>2. pc' \in [Ranks -> LauncherStates]
    BY <1>2, <1>a DEF Attach, LauncherStates
  <2>3. slots' \in [Ranks -> StatSlot]
    BY <1>2, Records, Zenon DEF Attach, SegmentTypes
  <2>4. magic' \in BOOLEAN /\ attached' \in [Ranks -> BOOLEAN]
    BY <1>2, Zenon DEF Attach, SegmentTypes, LaunchTypes
  <2>5. /\ stat_epoch' \in Nat /\ param_read_count' \in Int /\ barrier_count' \in Int
        /\ barrier_sense' \in {0, 1} /\ entries' \in Entries /\ pver' \in Nat
    BY <1>2, Records DEF Attach, SegmentTypes
  <2>. QED BY <2>1, <2>2, <2>3, <2>4, <2>5, Zenon DEF SegmentTypes, LaunchTypes, ParamTypes, CallbackTypes, Types
<1>3. CASE WaitUntilParamConsumed \/ AnyCurrentEpoch
  <2>1. UNCHANGED <<segment, progress, reading, callbacks, my_sense>>
    BY <1>3 DEF WaitUntilParamConsumed, AnyCurrentEpoch
  <2>2. pc' \in [Ranks -> LauncherStates]
    BY <1>3, <1>a, RankNumbers DEF WaitUntilParamConsumed, AnyCurrentEpoch, LauncherStates
  <2>. QED BY <2>1, <2>2, Zenon DEF SegmentTypes, LaunchTypes, ParamTypes, CallbackTypes, Types
<1>4. CASE AllCurrentEpoch
  <2>1. UNCHANGED <<segment, progress, callbacks, cache, v1, snapshot, my_sense>>
    BY <1>4 DEF AllCurrentEpoch
  <2>2. pc' \in [Ranks -> LauncherStates]
    BY <1>4, <1>a, RankNumbers DEF AllCurrentEpoch, LauncherStates
  <2>5. KeyOf(slots[0].coll) \in Keys
    BY <1>4, AggregateKey
  <2>6. agg' \in [key : Keys \cup {"none"}, ok : BOOLEAN]
    BY <1>4, <2>5, Zenon DEF AllCurrentEpoch
  <2>. QED BY <2>1, <2>2, <2>6, Zenon DEF SegmentTypes, LaunchTypes, ParamTypes, CallbackTypes, Types
<1>5. CASE ClearSlots
  <2>1. /\ UNCHANGED <<params, barrier, progress, reading, callbacks, magic, stat_epoch, my_sense>>
        /\ slots' = [r \in Ranks |-> [slots[r] EXCEPT !.valid = FALSE]]
    BY <1>5 DEF ClearSlots
  <2>2. pc' \in [Ranks -> LauncherStates]
    BY <1>5, <1>a, RankNumbers DEF ClearSlots, LauncherStates
  <2>3. slots' \in [Ranks -> StatSlot]
    BY <2>1, Records, Zenon DEF SegmentTypes
  <2>. QED BY <2>1, <2>2, <2>3, Zenon DEF SegmentTypes, LaunchTypes, ParamTypes, CallbackTypes, Types
<1>6. CASE AdvanceEpoch
  <2>1. UNCHANGED <<params, barrier, progress, callbacks, magic, slots, v1, snapshot, agg, my_sense>>
    BY <1>6 DEF AdvanceEpoch
  <2>2. pc' \in [Ranks -> LauncherStates]
    BY <1>6, <1>a, RankNumbers DEF AdvanceEpoch, LauncherStates
  <2>3. stat_epoch + 1 \in Nat /\ stat_epoch' = stat_epoch + 1
    BY <1>6 DEF AdvanceEpoch, SegmentTypes
  <2>4. cache' \in [Ranks -> [Keys -> Values]]
    BY <1>6, <2>3, ZenonT(60) DEF AdvanceEpoch, ParamTypes, Values
  <2>. QED BY <2>1, <2>2, <2>3, <2>4, Zenon DEF SegmentTypes, LaunchTypes, ParamTypes, CallbackTypes, Types
<1>7. CASE WriteEntry
  <2>1. /\ UNCHANGED <<stats, barrier, progress, reading, callbacks, magic, param_read_count, pver, my_sense>>
        /\ entries' = [key |-> agg.key, val |-> cache[0][agg.key]] /\ pc[0] = "write"
    BY <1>7 DEF WriteEntry
  <2>2. pc' \in [Ranks -> LauncherStates]
    BY <1>7, <1>a, RankNumbers DEF WriteEntry, LauncherStates
  <2>3. agg.key \in Keys
    BY <2>1 DEF Progress
  <2>4. entries' \in Entries
    BY <2>1, <2>3, RankNumbers DEF Entries, ParamTypes
  <2>. QED BY <2>1, <2>2, <2>4, Zenon DEF SegmentTypes, LaunchTypes, ParamTypes, CallbackTypes, Types
<1>8. CASE WriteVersion
  <2>1. /\ UNCHANGED <<stats, barrier, progress, reading, callbacks, magic, param_read_count, entries, my_sense>>
        /\ pver' = pver + 1
    BY <1>8 DEF WriteVersion
  <2>2. pc' \in [Ranks -> LauncherStates]
    BY <1>8, <1>a, RankNumbers DEF WriteVersion, LauncherStates
  <2>3. pver' \in Nat
    BY <2>1 DEF SegmentTypes
  <2>. QED BY <2>1, <2>2, <2>3, Zenon DEF SegmentTypes, LaunchTypes, ParamTypes, CallbackTypes, Types
<1>9. CASE SignalParamWritten
  <2>1. /\ UNCHANGED <<stats, barrier, progress, reading, callbacks, magic, entries, pver, my_sense>>
        /\ param_read_count' = NRanks - 1
    BY <1>9 DEF SignalParamWritten
  <2>2. pc' \in [Ranks -> LauncherStates]
    BY <1>9, <1>a, RankNumbers DEF SignalParamWritten, LauncherStates
  <2>3. param_read_count' \in Int
    BY <2>1, RankNumbers
  <2>. QED BY <2>1, <2>2, <2>3, Zenon DEF SegmentTypes, LaunchTypes, ParamTypes, CallbackTypes, Types
<1>10. ASSUME NEW r \in Ranks, ReadVersion(r) PROVE Types'
  <2>1. /\ UNCHANGED <<segment, progress, callbacks, cache, snapshot, agg, my_sense>>
        /\ v1' = [v1 EXCEPT ![r] = pver]
    BY <1>10 DEF ReadVersion
  <2>2. pc' \in [Ranks -> LauncherStates]
    BY <1>10, <1>a DEF ReadVersion, LauncherStates
  <2>3. v1' \in [Ranks -> Nat]
    BY <2>1 DEF SegmentTypes, LaunchTypes
  <2>. QED BY <2>1, <2>2, <2>3, Zenon DEF SegmentTypes, LaunchTypes, ParamTypes, CallbackTypes, Types
<1>11. ASSUME NEW r \in Ranks, CopyEntry(r) PROVE Types'
  <2>1. /\ UNCHANGED <<segment, progress, callbacks, cache, v1, agg, my_sense>>
        /\ snapshot' = [snapshot EXCEPT ![r] = entries]
    BY <1>11 DEF CopyEntry
  <2>2. pc' \in [Ranks -> LauncherStates]
    BY <1>11, <1>a DEF CopyEntry, LauncherStates
  <2>3. snapshot' \in [Ranks -> Entries]
    BY <2>1 DEF SegmentTypes, ParamTypes
  <2>. QED BY <2>1, <2>2, <2>3, Zenon DEF SegmentTypes, LaunchTypes, ParamTypes, CallbackTypes, Types
<1>12. ASSUME NEW r \in Ranks, MergeParams(r) PROVE Types'
  <2>1. UNCHANGED <<segment, progress, callbacks, v1, snapshot, agg, my_sense>>
    BY <1>12 DEF MergeParams
  <2>2. pc' \in [Ranks -> LauncherStates]
    BY <1>12, <1>a DEF MergeParams, LauncherStates
  <2>3. cache' \in [Ranks -> [Keys -> Values]]
    BY <1>12 DEF MergeParams, ParamTypes, Entries
  <2>. QED BY <2>1, <2>2, <2>3, Zenon DEF SegmentTypes, LaunchTypes, ParamTypes, CallbackTypes, Types
<1>13. ASSUME NEW r \in Ranks, Consume(r) PROVE Types'
  <2>1. /\ UNCHANGED <<stats, barrier, progress, reading, callbacks, magic, entries, pver, my_sense>>
        /\ param_read_count' = param_read_count - 1
    BY <1>13 DEF Consume
  <2>2. pc' \in [Ranks -> LauncherStates]
    BY <1>13, <1>a DEF Consume, LauncherStates
  <2>3. param_read_count' \in Int
    BY <2>1 DEF SegmentTypes
  <2>. QED BY <2>1, <2>2, <2>3, Zenon DEF SegmentTypes, LaunchTypes, ParamTypes, CallbackTypes, Types
<1>14. ASSUME NEW r \in Ranks, LoadSense(r) PROVE Types'
  <2>1. /\ UNCHANGED <<segment, progress, reading, callbacks>>
        /\ my_sense' = [my_sense EXCEPT ![r] = 1 - barrier_sense]
    BY <1>14 DEF LoadSense
  <2>2. pc' \in [Ranks -> LauncherStates]
    BY <1>14, <1>a DEF LoadSense, LauncherStates
  <2>3. my_sense' \in [Ranks -> {0, 1}]
    <3>1. 1 - barrier_sense \in {0, 1}
      BY DEF SegmentTypes
    <3>. QED BY <2>1, <3>1 DEF LaunchTypes
  <2>. QED BY <2>1, <2>2, <2>3, Zenon DEF SegmentTypes, LaunchTypes, ParamTypes, CallbackTypes, Types
<1>15. ASSUME NEW r \in Ranks, Arrive(r) \/ ResetCount(r) PROVE Types'
  <2>1. UNCHANGED <<stats, params, progress, reading, callbacks, magic, barrier_sense, my_sense>>
    BY <1>15 DEF Arrive, ResetCount
  <2>2. pc' \in [Ranks -> LauncherStates]
    BY <1>15, <1>a DEF Arrive, ResetCount, LauncherStates
  <2>3. barrier_count' \in Int
    BY <1>15 DEF Arrive, ResetCount, SegmentTypes
  <2>. QED BY <2>1, <2>2, <2>3, Zenon DEF SegmentTypes, LaunchTypes, ParamTypes, CallbackTypes, Types
<1>16. ASSUME NEW r \in Ranks, FlipSense(r) PROVE Types'
  <2>1. /\ UNCHANGED <<stats, params, progress, reading, callbacks, magic, barrier_count, my_sense>>
        /\ barrier_sense' = my_sense[r]
    BY <1>16 DEF FlipSense
  <2>2. pc' \in [Ranks -> LauncherStates]
    BY <1>16, <1>a DEF FlipSense, LauncherStates
  <2>3. barrier_sense' \in {0, 1}
    BY <2>1 DEF LaunchTypes
  <2>. QED BY <2>1, <2>2, <2>3, Zenon DEF SegmentTypes, LaunchTypes, ParamTypes, CallbackTypes, Types
<1>17. ASSUME NEW r \in Ranks, SeeSense(r) PROVE Types'
  <2>1. UNCHANGED <<segment, progress, reading, callbacks, my_sense>>
    BY <1>17 DEF SeeSense
  <2>2. pc' \in [Ranks -> LauncherStates]
    BY <1>17, <1>a DEF SeeSense, LauncherStates
  <2>. QED BY <2>1, <2>2, Zenon DEF SegmentTypes, LaunchTypes, ParamTypes, CallbackTypes, Types
<1>18. ASSUME NEW r \in Ranks, Launch(r) PROVE Types'
  <2>1. /\ UNCHANGED <<segment, reading, program, attached, begun, my_sense, callback>>
        /\ launched' = [launched EXCEPT ![r] = @ + 1] /\ pc[r] = "plan"
    BY <1>18 DEF Launch
  <2>2. pc' \in [Ranks -> LauncherStates]
    BY <1>18, <1>a DEF Launch, LauncherStates
  <2>3. launched' \in [Ranks -> Nat]
    BY <2>1 DEF LaunchTypes
  <2>4. begun[r] >= 1
    BY <2>1, OneRank
  <2>5. KeyOf(begun[r]) \in Keys /\ begun[r] \in Nat
    BY <2>4, <1>b DEF LaunchTypes
  <2>6. PICK ok \in program.results :
       LET c     == begun[r]
           val   == cache[r][KeyOf(c)]
           split == val.use_pcie /\ KeyOf(c) \in SplitKeys
       IN /\ used' = [used EXCEPT ![r] = Append(@, [alpha |-> val.alpha, split |-> split])]
          /\ pending' = IF split \/ FastOnlyLog
                        THEN [pending EXCEPT ![r] = Append(@, [coll |-> c, ok |-> (split => ok)])]
                        ELSE pending
    BY <1>18 DEF Launch
  <2>. DEFINE val == cache[r][KeyOf(begun[r])]
              split == val.use_pcie /\ KeyOf(begun[r]) \in SplitKeys
              plan == [alpha |-> val.alpha, split |-> split]
              stat == [coll |-> begun[r], ok |-> (split => ok)]
  <2>7. val \in Values
    BY <2>5 DEF ParamTypes
  <2>8. plan \in Plan /\ stat \in Measured
    BY <2>5, <2>7, Zenon DEF Plan, Measured, Values
  <2>9. /\ used' = [used EXCEPT ![r] = Append(@, plan)]
        /\ pending' = IF split \/ FastOnlyLog THEN [pending EXCEPT ![r] = Append(@, stat)] ELSE pending
    BY <2>6
  <2>. HIDE DEF val, split, plan, stat
  <2>10. used' \in [Ranks -> Seq(Plan)] /\ pending' \in [Ranks -> Seq(Measured)]
    BY <2>8, <2>9 DEF LaunchTypes, CallbackTypes
  <2>. QED BY <2>1, <2>2, <2>3, <2>10, Zenon DEF SegmentTypes, LaunchTypes, ParamTypes, CallbackTypes, Types
<1>19. ASSUME NEW r \in Ranks, BeginStat(r) PROVE Types'
  <2>1. UNCHANGED <<launcher, params, barrier, magic, stat_epoch>>
    BY <1>19 DEF BeginStat
  <2>2. pending[r] # <<>> /\ pending[r] \in Seq(Measured)
    BY <1>19 DEF BeginStat, CallbackTypes
  <2>3. Head(pending[r]) \in Measured /\ Tail(pending[r]) \in Seq(Measured)
    BY <2>2
  <2>4. callback' \in [Ranks -> Measured] /\ pending' \in [Ranks -> Seq(Measured)]
    BY <1>19, <2>3, Zenon DEF BeginStat, CallbackTypes
  <2>5. slots' \in [Ranks -> StatSlot]
    BY <1>19, <2>3, ZenonT(60) DEF BeginStat, SegmentTypes, StatSlot, Measured
  <2>. QED BY <2>1, <2>4, <2>5, Zenon DEF SegmentTypes, LaunchTypes, ParamTypes, CallbackTypes, Types
<1>20. ASSUME NEW r \in Ranks, PublishStat(r) PROVE Types'
  <2>1. UNCHANGED <<launcher, params, barrier, magic, stat_epoch, pending>>
    BY <1>20 DEF PublishStat
  <2>2. slots' \in [Ranks -> StatSlot]
    BY <1>20, Zenon DEF PublishStat, SegmentTypes, StatSlot
  <2>3. callback' \in [Ranks -> Measured]
    BY <1>20, Records, Zenon DEF PublishStat, CallbackTypes
  <2>. QED BY <2>1, <2>2, <2>3, Zenon DEF SegmentTypes, LaunchTypes, ParamTypes, CallbackTypes, Types
<1>21. CASE UNCHANGED vars
  BY <1>21, Zenon DEF vars, SegmentTypes, LaunchTypes, ParamTypes, CallbackTypes, Types
<1>. QED
  BY <1>1, <1>2, <1>3, <1>4, <1>5, <1>6, <1>7, <1>8, <1>9, <1>10, <1>11, <1>12, <1>13, <1>14, <1>15,
     <1>16, <1>17, <1>18, <1>19, <1>20, <1>21
     DEF Next, LaunchStep, ShmRoundBegin, CallbackStep

-----------------------------------------------------------------------------
(* Progress *)

(* A launching thread moves; the others stay where they are. *)
Move(r, from, to) ==
  /\ pc[r] = from /\ pc'[r] = to
  /\ \A q \in Ranks : q # r => pc'[q] = pc[q]

(* A step of a launching thread that neither begins nor launches a         *)
(* collective.                                                             *)
Between(r) ==
  /\ UNCHANGED <<program, begun, launched, used>>
  /\ pc[r] # "app" /\ pc'[r] \in LauncherStates \ {"app"}
  /\ \A q \in Ranks : q # r => pc'[q] = pc[q]
  /\ r # 0 => pc'[r] \notin WriterStates
  /\ r = 0 => pc'[r] # "consume"

(* Where each action takes a rank. *)
LEMMA Moves ==
  ASSUME Types, NEW r \in Ranks
  PROVE  /\ Begin(r) => Move(r, "app", IF ~ attached[r] THEN "attach" ELSE IF r = 0 THEN "consumed" ELSE "read")
         /\ Attach(r) => Move(r, "attach", IF r = 0 THEN "consumed" ELSE "read")
         /\ WaitUntilParamConsumed => Move(0, "consumed", "any")
         /\ AnyCurrentEpoch => Move(0, "any", "all") \/ Move(0, "any", "signal")
         /\ AllCurrentEpoch => Move(0, "all", "clear")
         /\ ClearSlots => Move(0, "clear", "epoch")
         /\ AdvanceEpoch => Move(0, "epoch", "write")
         /\ WriteEntry => Move(0, "write", "version")
         /\ WriteVersion => Move(0, "version", "signal")
         /\ SignalParamWritten => Move(0, "signal", "read")
         /\ ReadVersion(r) => Move(r, "read", "snapshot")
         /\ CopyEntry(r) => Move(r, "snapshot", "recheck")
         /\ MergeParams(r) =>
              Move(r, "recheck", IF pver # v1[r] THEN "read" ELSE IF r = 0 THEN "sense" ELSE "consume")
         /\ Consume(r) => Move(r, "consume", "sense")
         /\ LoadSense(r) => Move(r, "sense", "arrive")
         /\ Arrive(r) => Move(r, "arrive", IF barrier_count + 1 = NRanks THEN "reset" ELSE "wait")
         /\ ResetCount(r) => Move(r, "reset", "flip")
         /\ FlipSense(r) => Move(r, "flip", "plan")
         /\ SeeSense(r) => Move(r, "wait", "plan")
         /\ Launch(r) => Move(r, "plan", "app")
         /\ BeginStat(r) \/ PublishStat(r) => pc' = pc
<1>. USE DEF goto
<1>a. ASSUME NEW q \in Ranks, NEW from, NEW to, pc[q] = from, pc' = [pc EXCEPT ![q] = to]
      PROVE  Move(q, from, to)
  BY <1>a DEF Types, LaunchTypes, Move
<1>1. /\ Begin(r) => Move(r, "app", IF ~ attached[r] THEN "attach" ELSE IF r = 0 THEN "consumed" ELSE "read")
      /\ Attach(r) => Move(r, "attach", IF r = 0 THEN "consumed" ELSE "read")
      /\ WaitUntilParamConsumed => Move(0, "consumed", "any")
      /\ AnyCurrentEpoch => Move(0, "any", "all") \/ Move(0, "any", "signal")
      /\ AllCurrentEpoch => Move(0, "all", "clear")
      /\ ClearSlots => Move(0, "clear", "epoch")
  BY <1>a, RankNumbers DEF Begin, Attach, WaitUntilParamConsumed, AnyCurrentEpoch, AllCurrentEpoch, ClearSlots
<1>2. /\ AdvanceEpoch => Move(0, "epoch", "write")
      /\ WriteEntry => Move(0, "write", "version")
      /\ WriteVersion => Move(0, "version", "signal")
      /\ SignalParamWritten => Move(0, "signal", "read")
  BY <1>a, RankNumbers DEF AdvanceEpoch, WriteEntry, WriteVersion, SignalParamWritten
<1>3. /\ ReadVersion(r) => Move(r, "read", "snapshot")
      /\ CopyEntry(r) => Move(r, "snapshot", "recheck")
      /\ MergeParams(r) =>
           Move(r, "recheck", IF pver # v1[r] THEN "read" ELSE IF r = 0 THEN "sense" ELSE "consume")
      /\ Consume(r) => Move(r, "consume", "sense")
  BY <1>a DEF ReadVersion, CopyEntry, MergeParams, Consume
<1>4. /\ LoadSense(r) => Move(r, "sense", "arrive")
      /\ Arrive(r) => Move(r, "arrive", IF barrier_count + 1 = NRanks THEN "reset" ELSE "wait")
      /\ ResetCount(r) => Move(r, "reset", "flip")
      /\ FlipSense(r) => Move(r, "flip", "plan")
      /\ SeeSense(r) => Move(r, "wait", "plan")
      /\ Launch(r) => Move(r, "plan", "app")
  BY <1>a DEF LoadSense, Arrive, ResetCount, FlipSense, SeeSense, Launch
<1>5. BeginStat(r) \/ PublishStat(r) => pc' = pc
  BY DEF BeginStat, PublishStat, launcher
<1>. QED BY <1>1, <1>2, <1>3, <1>4, <1>5

(* Nobody has begun anything and nothing is measured at the start. *)
LEMMA ProgressInit == Init => Progress
<1>. SUFFICES ASSUME Init PROVE Progress
  OBVIOUS
<1>1. pc[0] = "app"
  BY RankNumbers DEF Init
<1>2. ASSUME NEW r \in Ranks PROVE RankProgress(r)
  <2>1. \A p \in Programs : Len(p.keys) \in Nat
    BY StoreAssumption
  <2>. QED BY <2>1 DEF Init, RankProgress, WriterStates
<1>3. ASSUME NEW r \in Ranks PROVE RankMeasures(r)
  BY <1>3 DEF Init, RankMeasures, NoStat, StaleStat, Idle
<1>. QED BY <1>1, <1>2, <1>3 DEF Progress

(* Who is between two steps stays where it is with the program. *)
LEMMA BetweenProgress ==
  ASSUME Types, Progress, NEW r \in Ranks, Between(r)
  PROVE  \A q \in Ranks : RankProgress(q)'
<1>. TAKE q \in Ranks
<1>1. UNCHANGED <<launched, begun, program, used>>
  BY DEF Between
<1>2. CASE q = r
  <2>1. pc'[q] # "app" /\ (q # 0 => pc'[q] \notin WriterStates) /\ (q = 0 => pc'[q] # "consume")
    BY <1>2 DEF Between
  <2>2. launched[q] = begun[q] - 1 /\ begun[q] <= Len(program.keys) /\ Len(used[q]) = launched[q]
    BY <1>2, OneRank DEF Between
  <2>. QED BY <1>1, <2>1, <2>2 DEF RankProgress
<1>3. CASE q # r
  <2>1. pc'[q] = pc[q]
    BY <1>3 DEF Between
  <2>. QED BY <1>1, <2>1 DEF Progress, RankProgress
<1>. QED BY <1>2, <1>3

(* The steps of rank 0's round and the reading are between. *)
LEMMA BetweenSteps ==
  ASSUME Types, Progress, NEW r \in Ranks,
         \/ Attach(r) \/ ReadVersion(r) \/ CopyEntry(r) \/ MergeParams(r)
         \/ Consume(r)
         \/ r = 0 /\ ShmRoundBegin
         \/ LoadSense(r) \/ Arrive(r) \/ ResetCount(r) \/ FlipSense(r) \/ SeeSense(r)
  PROVE  Between(r)
<1>. USE RankNumbers DEF Between
<1>1. ASSUME NEW q \in Ranks, NEW from, NEW to, Move(q, from, to), from # "app",
             to \in LauncherStates \ {"app"}, q # 0 => to \notin WriterStates, q = 0 => to # "consume",
             UNCHANGED <<program, begun, launched, used>>
      PROVE  Between(q)
  BY <1>1 DEF Move
<1>2. ASSUME Attach(r) PROVE Between(r)
  <2>1. UNCHANGED <<program, begun, launched, used>>
    BY <1>2 DEF Attach
  <2>. QED BY <1>1, <1>2, <2>1, Moves DEF LauncherStates, WriterStates
<1>3. ASSUME ShmRoundBegin PROVE Between(0)
  <2>1. UNCHANGED <<program, begun, launched, used>>
    BY <1>3 DEF ShmRoundBegin, WaitUntilParamConsumed, AnyCurrentEpoch, AllCurrentEpoch, ClearSlots,
                AdvanceEpoch, WriteEntry, WriteVersion, SignalParamWritten, progress
  <2>. QED BY <1>1, <1>3, <2>1, Moves DEF ShmRoundBegin, LauncherStates, WriterStates
<1>4. ASSUME ReadVersion(r) \/ CopyEntry(r) \/ MergeParams(r) \/ Consume(r) PROVE Between(r)
  <2>1. UNCHANGED <<program, begun, launched, used>>
    BY <1>4 DEF ReadVersion, CopyEntry, MergeParams, Consume, progress
  <2>2. Consume(r) => r # 0
    BY OneRank DEF Consume
  <2>. QED BY <1>1, <1>4, <2>1, <2>2, Moves DEF LauncherStates, WriterStates
<1>5. ASSUME LoadSense(r) \/ Arrive(r) \/ ResetCount(r) \/ FlipSense(r) \/ SeeSense(r) PROVE Between(r)
  <2>1. UNCHANGED <<program, begun, launched, used>>
    BY <1>5 DEF LoadSense, Arrive, ResetCount, FlipSense, SeeSense, progress
  <2>. QED BY <1>1, <1>5, <2>1, Moves DEF LauncherStates, WriterStates
<1>. QED BY <1>2, <1>3, <1>4, <1>5

(* A launch appends one plan, and one measurement at the most.             *)
LEMMA LaunchRecords ==
  ASSUME Types, Progress, NEW r \in Ranks, Launch(r)
  PROVE  \E plan \in Plan, stat \in Measured :
           /\ plan = PlanOf(r, begun[r])
           /\ stat.coll = begun[r]
           /\ used' = [used EXCEPT ![r] = Append(@, plan)]
           /\ pending' = IF plan.split \/ FastOnlyLog
                         THEN [pending EXCEPT ![r] = Append(@, stat)] ELSE pending
<1>1. begun[r] >= 1 /\ begun[r] \in Nat /\ begun[r] <= Len(program.keys)
  BY OneRank DEF Launch
<1>2. KeyOf(begun[r]) \in Keys
  <2>1. program.keys \in Seq(Keys)
    BY StoreAssumption DEF Types, LaunchTypes
  <2>. QED BY <1>1, <2>1 DEF KeyOf
<1>3. PICK ok \in program.results :
       LET c     == begun[r]
           val   == cache[r][KeyOf(c)]
           split == val.use_pcie /\ KeyOf(c) \in SplitKeys
       IN /\ used' = [used EXCEPT ![r] = Append(@, [alpha |-> val.alpha, split |-> split])]
          /\ pending' = IF split \/ FastOnlyLog
                        THEN [pending EXCEPT ![r] = Append(@, [coll |-> c, ok |-> (split => ok)])]
                        ELSE pending
  BY DEF Launch
<1>. DEFINE val == cache[r][KeyOf(begun[r])]
            split == val.use_pcie /\ KeyOf(begun[r]) \in SplitKeys
            plan == [alpha |-> val.alpha, split |-> split]
            stat == [coll |-> begun[r], ok |-> (split => ok)]
<1>4. val \in Values
  BY <1>2 DEF Types, ParamTypes
<1>5. plan \in Plan /\ stat \in Measured /\ plan = PlanOf(r, begun[r]) /\ stat.coll = begun[r]
  BY <1>1, <1>4, Zenon DEF Plan, Measured, Values, PlanOf
<1>6. plan.split = split
  OBVIOUS
<1>7. /\ used' = [used EXCEPT ![r] = Append(@, plan)]
      /\ pending' = IF split \/ FastOnlyLog THEN [pending EXCEPT ![r] = Append(@, stat)] ELSE pending
  BY <1>3
<1>. HIDE DEF val, split, plan, stat
<1>. QED BY <1>5, <1>6, <1>7, Zenon

(* Every step keeps Progress. *)
LEMMA ProgressStep == Types /\ Progress /\ Attachment /\ [Next]_vars => Progress'
<1>. SUFFICES ASSUME Types, Progress, Attachment, [Next]_vars PROVE Progress'
  OBVIOUS
<1>. USE DEF segment, stats, params, barrier, progress, reading, callbacks, launcher
<1>a. ASSUME NEW r \in Ranks, Between(r), UNCHANGED <<slots, callbacks, agg>>,
             pc'[0] \in {"clear", "epoch", "write", "version"} =>
                pc[0] \in {"clear", "epoch", "write", "version"}
      PROVE  Progress'
  <2>1. \A q \in Ranks : RankProgress(q)'
    BY <1>a, BetweenProgress
  <2>2. \A q \in Ranks : RankMeasures(q)'
    BY <1>a DEF Between, Progress, RankMeasures
  <2>. QED BY <1>a, <2>1, <2>2 DEF Progress
<1>1. ASSUME NEW r \in Ranks, Begin(r) PROVE Progress'
  <2>1. /\ UNCHANGED <<slots, callbacks, agg, program, launched, used>>
        /\ begun' = [begun EXCEPT ![r] = @ + 1] /\ begun[r] < Len(program.keys)
    BY <1>1 DEF Begin
  <2>2. Move(r, "app", IF ~ attached[r] THEN "attach" ELSE IF r = 0 THEN "consumed" ELSE "read")
    BY <1>1, Moves
  <2>3. \A q \in Ranks : RankMeasures(q)'
    BY <2>1 DEF Progress, RankMeasures
  <2>4. ASSUME NEW q \in Ranks PROVE RankProgress(q)'
    <3>1. CASE q # r
      <4>1. pc'[q] = pc[q] /\ begun'[q] = begun[q]
        BY <2>1, <2>2, <3>1 DEF Move, Types, LaunchTypes
      <4>. QED BY <2>1, <4>1 DEF Progress, RankProgress
    <3>2. CASE q = r
      <4>1. begun'[r] = begun[r] + 1 /\ begun[r] \in Nat /\ launched[r] = begun[r]
        BY <2>1, <2>2, OneRank DEF Move, Types, LaunchTypes
      <4>2. begun'[r] <= Len(program.keys)
        <5>1. Len(program.keys) \in Nat
          BY StoreAssumption DEF Types, LaunchTypes
        <5>. QED BY <2>1, <4>1, <5>1
      <4>3. pc'[r] # "app" /\ (r # 0 => pc'[r] \notin WriterStates) /\ (r = 0 => pc'[r] # "consume")
        BY <2>2 DEF Move, WriterStates
      <4>4. Len(used[r]) = launched[r]
        BY OneRank
      <4>. QED BY <2>1, <3>2, <4>1, <4>2, <4>3, <4>4 DEF RankProgress
    <3>. QED BY <3>1, <3>2
  <2>5. pc'[0] \in {"clear", "epoch", "write", "version"} => pc[0] = pc'[0]
    BY <2>2, RankNumbers DEF Move
  <2>. QED BY <2>1, <2>3, <2>4, <2>5 DEF Progress
<1>2. ASSUME NEW r \in Ranks, Attach(r) PROVE Progress'
  <2>1. UNCHANGED <<callbacks, agg, program, begun, launched, used>>
    BY <1>2 DEF Attach
  <2>2. \A q \in Ranks : RankProgress(q)'
    BY <1>2, BetweenSteps, BetweenProgress
  <2>3. Move(r, "attach", IF r = 0 THEN "consumed" ELSE "read")
    BY <1>2, Moves
  <2>4. pc'[0] \in {"clear", "epoch", "write", "version"} => pc[0] = pc'[0]
    BY <2>3, RankNumbers DEF Move
  <2>5. ASSUME NEW q \in Ranks PROVE RankMeasures(q)'
    <3>1. CASE magic
      <4>1. slots'[q].coll = slots[q].coll
        BY <1>2, <3>1, ZenonT(60) DEF Attach, Types, SegmentTypes, StatSlot
      <4>. QED BY <2>1, <4>1 DEF Progress, RankMeasures
    <3>2. CASE ~ magic
      <4>1. slots'[q].coll = 0
        BY <1>2, <3>2 DEF Attach, NoStat
      <4>2. launched[q] = 0 /\ callback[q] = Idle
        BY <3>2, RankNumbers DEF Attachment, RankAttached
      <4>. QED BY <2>1, <4>1, <4>2 DEF Progress, RankMeasures
    <3>. QED BY <3>1, <3>2
  <2>. QED BY <2>1, <2>2, <2>4, <2>5 DEF Progress
<1>3. CASE WaitUntilParamConsumed \/ AnyCurrentEpoch
  <2>1. Between(0)
    BY <1>3, BetweenSteps, RankNumbers DEF ShmRoundBegin
  <2>2. pc'[0] \in {"any", "all", "signal"}
    BY <1>3, Moves, RankNumbers DEF Move
  <2>3. UNCHANGED <<slots, callbacks, agg>>
    BY <1>3 DEF WaitUntilParamConsumed, AnyCurrentEpoch
  <2>. QED BY <1>a, <2>1, <2>2, <2>3, RankNumbers
<1>4. CASE AllCurrentEpoch
  <2>1. Between(0)
    BY <1>4, BetweenSteps, RankNumbers DEF ShmRoundBegin
  <2>2. UNCHANGED <<slots, callbacks>> /\ agg'.key \in Keys
    BY <1>4, AggregateKey DEF AllCurrentEpoch
  <2>3. \A q \in Ranks : RankProgress(q)'
    BY <2>1, BetweenProgress, RankNumbers
  <2>4. \A q \in Ranks : RankMeasures(q)'
    BY <2>1, <2>2 DEF Between, Progress, RankMeasures
  <2>. QED BY <2>2, <2>3, <2>4 DEF Progress
<1>5. CASE ClearSlots
  <2>1. Between(0) /\ Move(0, "clear", "epoch")
    BY <1>5, BetweenSteps, Moves, RankNumbers DEF ShmRoundBegin
  <2>2. UNCHANGED <<callbacks, agg>>
    BY <1>5 DEF ClearSlots
  <2>3. \A q \in Ranks : slots'[q].coll = slots[q].coll
    BY <1>5, Zenon DEF ClearSlots, Types, SegmentTypes, StatSlot
  <2>4. \A q \in Ranks : RankProgress(q)'
    BY <2>1, BetweenProgress, RankNumbers
  <2>5. \A q \in Ranks : RankMeasures(q)'
    BY <2>1, <2>2, <2>3 DEF Between, Progress, RankMeasures
  <2>. QED BY <2>1, <2>2, <2>4, <2>5 DEF Progress, Move
<1>6. CASE AdvanceEpoch \/ WriteEntry \/ WriteVersion \/ SignalParamWritten
  <2>1. Between(0)
    BY <1>6, BetweenSteps, RankNumbers DEF ShmRoundBegin
  <2>2. pc'[0] \in {"clear", "epoch", "write", "version"} => pc[0] \in {"clear", "epoch", "write", "version"}
    BY <1>6, Moves, RankNumbers DEF Move
  <2>3. UNCHANGED <<slots, callbacks, agg>>
    BY <1>6 DEF AdvanceEpoch, WriteEntry, WriteVersion, SignalParamWritten
  <2>. QED BY <1>a, <2>1, <2>2, <2>3, RankNumbers
<1>7. ASSUME NEW r \in Ranks,
             \/ ReadVersion(r) \/ CopyEntry(r) \/ MergeParams(r) \/ Consume(r)
             \/ LoadSense(r) \/ Arrive(r) \/ ResetCount(r) \/ FlipSense(r) \/ SeeSense(r)
      PROVE  Progress'
  <2>1. Between(r)
    BY <1>7, BetweenSteps
  <2>2. pc'[0] \in {"clear", "epoch", "write", "version"} => pc[0] = pc'[0]
    BY <2>1, RankNumbers, <1>7, Moves DEF Move
  <2>3. UNCHANGED <<slots, callbacks, agg>>
    BY <1>7 DEF ReadVersion, CopyEntry, MergeParams, Consume, LoadSense, Arrive, ResetCount, FlipSense, SeeSense
  <2>. QED BY <1>a, <2>1, <2>2, <2>3
<1>8. ASSUME NEW r \in Ranks, Launch(r) PROVE Progress'
  <2>1. PICK plan \in Plan, stat \in Measured :
          /\ stat.coll = begun[r]
          /\ used' = [used EXCEPT ![r] = Append(@, plan)]
          /\ pending' = pending \/ pending' = [pending EXCEPT ![r] = Append(@, stat)]
    <3>1. PICK plan \in Plan, stat \in Measured :
           /\ plan = PlanOf(r, begun[r])
           /\ stat.coll = begun[r]
           /\ used' = [used EXCEPT ![r] = Append(@, plan)]
           /\ pending' = IF plan.split \/ FastOnlyLog
                         THEN [pending EXCEPT ![r] = Append(@, stat)] ELSE pending
      BY <1>8, LaunchRecords
    <3>. QED BY <3>1, Zenon
  <2>2. Move(r, "plan", "app")
    BY <1>8, Moves
  <2>3. UNCHANGED <<slots, callback, agg, program, begun>> /\ launched' = [launched EXCEPT ![r] = @ + 1]
    BY <1>8 DEF Launch
  <2>4. /\ launched'[r] = launched[r] + 1 /\ launched[r] = begun[r] - 1
        /\ begun[r] \in Nat /\ begun[r] >= 1 /\ launched[r] \in Nat
        /\ used[r] \in Seq(Plan) /\ Len(used[r]) = launched[r]
    BY <2>2, <2>3, OneRank DEF Move, Types, LaunchTypes
  <2>5. Len(used'[r]) = launched[r] + 1
    <3>1. used'[r] = Append(used[r], plan)
      BY <2>1 DEF Types, LaunchTypes
    <3>. QED BY <2>1, <2>4, <3>1, Pushed
  <2>6. ASSUME NEW q \in Ranks, q # r
        PROVE  launched'[q] = launched[q] /\ used'[q] = used[q] /\ pending'[q] = pending[q] /\ pc'[q] = pc[q]
    BY <2>1, <2>2, <2>3, <2>6 DEF Move, Types, LaunchTypes, CallbackTypes
  <2>7. \A q \in Ranks : RankProgress(q)'
    <3>1. RankProgress(r)'
      BY <2>2, <2>3, <2>4, <2>5, OneRank DEF RankProgress, Move, WriterStates
    <3>2. ASSUME NEW q \in Ranks, q # r PROVE RankProgress(q)'
      BY <2>3, <2>6, <3>2 DEF Progress, RankProgress
    <3>. QED BY <3>1, <3>2
  <2>8. \A q \in Ranks : RankMeasures(q)'
    <3>1. ASSUME NEW i \in 1..Len(pending'[r]) PROVE pending'[r][i].coll \in 1..launched'[r]
      <4>0. pending[r] \in Seq(Measured) /\ \A j \in 1..Len(pending[r]) : pending[r][j].coll \in 1..launched[r]
        BY OneSlot
      <4>1. pending'[r] = pending[r] \/ pending'[r] = Append(pending[r], stat)
        BY <2>1 DEF Types, CallbackTypes
      <4>2. CASE pending'[r] = pending[r]
        BY <2>4, <4>0, <4>2
      <4>3. CASE pending'[r] = Append(pending[r], stat)
        <5>1. /\ Len(pending[r]) \in Nat /\ Len(pending'[r]) = Len(pending[r]) + 1
              /\ \A j \in 1..Len(pending[r]) : pending'[r][j] = pending[r][j]
              /\ pending'[r][Len(pending[r]) + 1] = stat
          BY <4>0, <4>3, Pushed
        <5>2. CASE i \in 1..Len(pending[r])
          <6>1. pending[r][i].coll \in 1..launched[r] /\ pending'[r][i] = pending[r][i]
            BY <4>0, <5>1, <5>2
          <6>. QED BY <2>4, <6>1
        <5>3. CASE i = Len(pending[r]) + 1
          BY <2>1, <2>4, <5>1, <5>3
        <5>. QED BY <5>1, <5>2, <5>3
      <4>. QED BY <4>1, <4>2, <4>3
    <3>2. RankMeasures(r)'
      <4>1. /\ slots[r].coll \in Nat /\ slots[r].coll <= launched[r]
            /\ callback[r].coll \in Nat /\ callback[r].coll <= launched[r]
            /\ callback[r] # Idle => slots[r].coll >= 1
        BY OneSlot
      <4>. QED BY <2>3, <2>4, <3>1, <4>1 DEF RankMeasures
    <3>3. ASSUME NEW q \in Ranks, q # r PROVE RankMeasures(q)'
      BY <2>3, <2>6, <3>3 DEF Progress, RankMeasures
    <3>. QED BY <3>2, <3>3
  <2>9. pc'[0] \in {"clear", "epoch", "write", "version"} => pc[0] = pc'[0]
    BY <2>2, RankNumbers DEF Move
  <2>. QED BY <2>3, <2>7, <2>8, <2>9 DEF Progress
<1>9. ASSUME NEW r \in Ranks, BeginStat(r) PROVE Progress'
  <2>1. UNCHANGED launcher /\ pending[r] # <<>>
    BY <1>9 DEF BeginStat
  <2>2. \A q \in Ranks : RankProgress(q)'
    BY <2>1 DEF Progress, RankProgress
  <2>3. ASSUME NEW q \in Ranks, q # r
        PROVE  slots'[q] = slots[q] /\ callback'[q] = callback[q] /\ pending'[q] = pending[q]
    BY <1>9, <2>3 DEF BeginStat, Types, SegmentTypes, CallbackTypes
  <2>4. /\ pending[r] \in Seq(Measured) /\ launched[r] \in Nat
        /\ \A j \in 1..Len(pending[r]) : pending[r][j].coll \in 1..launched[r]
    BY OneSlot, OneRank
  <2>5. /\ callback'[r] = Head(pending[r]) /\ pending'[r] = Tail(pending[r])
        /\ slots'[r].coll = Head(pending[r]).coll
    BY <1>9, Zenon DEF BeginStat, Types, SegmentTypes, CallbackTypes, StatSlot
  <2>6. /\ Len(pending[r]) \in Nat \ {0} /\ Len(Tail(pending[r])) = Len(pending[r]) - 1
        /\ \A i \in 1 .. Len(pending[r]) - 1 : Tail(pending[r])[i] = pending[r][i + 1] /\ i + 1 \in 1 .. Len(pending[r])
        /\ Head(pending[r]) = pending[r][1]
    BY <2>1, <2>4, Popped
  <2>7. Head(pending[r]).coll \in 1..launched[r]
    BY <2>4, <2>6
  <2>8. \A i \in 1..Len(pending'[r]) : pending'[r][i].coll \in 1..launched[r]
    BY <2>4, <2>5, <2>6
  <2>9. RankMeasures(r)'
    BY <2>1, <2>4, <2>5, <2>7, <2>8 DEF RankMeasures
  <2>10. \A q \in Ranks : RankMeasures(q)'
    BY <2>1, <2>3, <2>9 DEF Progress, RankMeasures
  <2>. QED BY <2>1, <2>2, <2>10 DEF Progress
<1>10. ASSUME NEW r \in Ranks, PublishStat(r) PROVE Progress'
  <2>1. UNCHANGED launcher /\ UNCHANGED pending
    BY <1>10 DEF PublishStat
  <2>2. \A q \in Ranks : RankProgress(q)'
    BY <2>1 DEF Progress, RankProgress
  <2>3. ASSUME NEW q \in Ranks
        PROVE  slots'[q].coll = slots[q].coll /\ callback'[q] \in {callback[q], Idle}
    BY <1>10, Zenon DEF PublishStat, Types, SegmentTypes, CallbackTypes, StatSlot
  <2>4. Idle.coll = 0
    BY DEF Idle
  <2>5. ASSUME NEW q \in Ranks PROVE RankMeasures(q)'
    <3>1. /\ launched[q] \in Nat /\ slots[q].coll <= launched[q] /\ callback[q].coll <= launched[q]
          /\ callback[q] # Idle => slots[q].coll >= 1
          /\ \A i \in 1..Len(pending[q]) : pending[q][i].coll \in 1..launched[q]
      BY OneSlot, OneRank
    <3>2. UNCHANGED <<launched, pending>>
      BY <2>1
    <3>. QED BY <2>3, <2>4, <3>1, <3>2 DEF RankMeasures
  <2>. QED BY <2>1, <2>2, <2>5 DEF Progress
<1>11. CASE UNCHANGED vars
  BY <1>11 DEF vars, Progress, RankProgress, RankMeasures
<1>. QED
  BY <1>1, <1>2, <1>3, <1>4, <1>5, <1>6, <1>7, <1>8, <1>9, <1>10, <1>11
     DEF Next, LaunchStep, ShmRoundBegin, CallbackStep

-----------------------------------------------------------------------------
(* The barrier *)

(* A set of ranks is all of them when it has as many members: BarrierSync's *)
(* comparison of the count with the number of ranks.                        *)
LEMMA RankSets ==
  ASSUME NEW S, S \subseteq Ranks
  PROVE  /\ IsFiniteSet(S) /\ Cardinality(S) \in Nat /\ Cardinality(S) <= NRanks
         /\ Cardinality(S) = NRanks <=> S = Ranks
BY RankNumbers, FS_Subset, FS_CardinalityType

(* Nobody is in the barrier at the start. *)
LEMMA TogetherInit == Init => Together
<1>. SUFFICES ASSUME Init PROVE Together
  OBVIOUS
<1>1. \A r \in Ranks : pc[r] = "app" /\ begun[r] = 0
  BY DEF Init
<1>2. \A r \in Ranks : ~ Inside(r) /\ ~ Closing(r) /\ Passed(r) = 0
  BY <1>1 DEF Inside, Closing, Passed
<1>3. Arrived = {}
  BY <1>2 DEF Arrived
<1>4. barrier_count = Cardinality(Arrived)
  BY <1>3, FS_EmptySet DEF Init
<1>. QED BY <1>1, <1>2, <1>3, <1>4, RankNumbers DEF Together

(* A step that nobody in the barrier notices. *)
LEMMA BarrierUndisturbed ==
  ASSUME Together, UNCHANGED <<barrier_count, barrier_sense>>,
         \A q \in Ranks : /\ Inside(q)' <=> Inside(q)
                          /\ Closing(q)' <=> Closing(q)
                          /\ pc'[q] = "flip" <=> pc[q] = "flip"
                          /\ Passed(q)' = Passed(q)
                          /\ pc'[q] = "arrive" \/ Closing(q) => my_sense'[q] # barrier_sense
  PROVE  Together'
<1>1. Arrived' = Arrived
  BY DEF Arrived
<1>2. \A q \in Ranks : Passed(q)' = Passed(0)'
  BY RankNumbers DEF Together
<1>3. \A q \in Ranks : pc'[q] = "arrive" \/ Closing(q)' => my_sense'[q] # barrier_sense'
  OBVIOUS
<1>4. /\ \A q \in Ranks : Closing(q)' => Arrived' = Ranks /\ \A p \in Ranks : Closing(p)' => p = q
      /\ Arrived' = Ranks => \E q \in Ranks : Closing(q)'
  BY <1>1 DEF Together
<1>5. /\ (\A q \in Ranks : pc'[q] # "flip") => barrier_count' = Cardinality(Arrived')
      /\ \A q \in Ranks : pc'[q] = "flip" => barrier_count' = 0
  BY <1>1 DEF Together
<1>. QED BY <1>2, <1>3, <1>4, <1>5 DEF Together

(* A rank that moves outside the barrier, or leaves it after its release.  *)
LEMMA OutsideBarrier ==
  ASSUME Types, Progress, Together, NEW r \in Ranks, NEW from, NEW to, Move(r, from, to),
         from \notin {"arrive", "reset", "flip"}, to \notin {"wait", "arrive", "reset", "flip"},
         from = "wait" => Freed(r),
         UNCHANGED <<barrier_count, barrier_sense, my_sense>>,
         Passed(r)' = Passed(r), \A q \in Ranks : q # r => begun'[q] = begun[q]
  PROVE  Together'
<1>1. ASSUME NEW q \in Ranks
      PROVE  /\ Inside(q)' <=> Inside(q)
             /\ Closing(q)' <=> Closing(q)
             /\ pc'[q] = "flip" <=> pc[q] = "flip"
             /\ Passed(q)' = Passed(q)
             /\ pc'[q] = "arrive" \/ Closing(q) => my_sense'[q] # barrier_sense
  <2>1. pc[q] = "arrive" \/ Closing(q) => my_sense[q] # barrier_sense
    BY DEF Together
  <2>2. CASE q # r
    <3>1. pc'[q] = pc[q] /\ begun'[q] = begun[q]
      BY <2>2 DEF Move
    <3>. QED BY <2>1, <3>1 DEF Inside, Closing, Freed, Passed
  <2>3. CASE q = r
    <3>1. pc[r] = from /\ pc'[r] = to
      BY DEF Move
    <3>2. ~ Inside(r) /\ ~ Inside(r)' /\ ~ Closing(r) /\ ~ Closing(r)'
      BY <3>1 DEF Inside, Closing, Freed
    <3>. QED BY <2>3, <3>1, <3>2
  <2>. QED BY <2>2, <2>3
<1>. QED BY <1>1, BarrierUndisturbed

(* The last to arrive closes the barrier: the fetch_add of BarrierSync.    *)
LEMMA ArriveTogether ==
  ASSUME Types, Progress, Together, NEW r \in Ranks, Arrive(r)
  PROVE  Together'
<1>. DEFINE to == IF barrier_count + 1 = NRanks THEN "reset" ELSE "wait"
<1>1. Move(r, "arrive", to) /\ UNCHANGED <<barrier_sense, my_sense, begun>> /\ barrier_count' = barrier_count + 1
  BY Moves DEF Arrive, progress
<1>2. my_sense[r] # barrier_sense /\ ~ Inside(r)
  BY <1>1 DEF Move, Together, Inside, Closing
<1>3. Arrived \subseteq Ranks /\ r \notin Arrived
  BY <1>2 DEF Arrived
<1>4. \A q \in Ranks : ~ Closing(q) /\ pc[q] # "flip"
  BY <1>3 DEF Together, Closing
<1>5. barrier_count = Cardinality(Arrived)
  BY <1>4 DEF Together
<1>6. ASSUME NEW q \in Ranks, q # r
      PROVE  /\ pc'[q] = pc[q]
             /\ Inside(q)' <=> Inside(q)
             /\ Passed(q)' = Passed(q) /\ ~ Closing(q)'
  BY <1>1, <1>4, <1>6 DEF Move, Inside, Closing, Freed, Passed
<1>7. Inside(r)' /\ Passed(r)' = Passed(r) /\ (Closing(r)' <=> to = "reset") /\ pc'[r] # "flip" /\ pc'[r] # "arrive"
  BY <1>1, <1>2 DEF Move, Inside, Closing, Freed, Passed
<1>8. Arrived' = Arrived \cup {r}
  BY <1>6, <1>7 DEF Arrived
<1>9. Cardinality(Arrived') = barrier_count'
  BY <1>1, <1>3, <1>5, <1>8, RankSets, FS_AddElement
<1>10. to = "reset" <=> Arrived' = Ranks
  BY <1>1, <1>3, <1>8, <1>9, RankSets
<1>11. \A q \in Ranks : Passed(q)' = Passed(0)'
  BY <1>6, <1>7, RankNumbers DEF Together
<1>12. \A q \in Ranks : pc'[q] = "arrive" \/ Closing(q)' => my_sense'[q] # barrier_sense'
  BY <1>1, <1>2, <1>6, <1>7 DEF Together
<1>13. /\ \A q \in Ranks : Closing(q)' => Arrived' = Ranks /\ \A p \in Ranks : Closing(p)' => p = q
       /\ Arrived' = Ranks => \E q \in Ranks : Closing(q)'
  BY <1>6, <1>7, <1>10
<1>14. \A q \in Ranks : pc'[q] # "flip"
  BY <1>4, <1>6, <1>7
<1>. QED BY <1>9, <1>11, <1>12, <1>13, <1>14 DEF Together

(* Clearing the count leaves everybody where it is.                        *)
LEMMA ResetTogether ==
  ASSUME Types, Progress, Together, NEW r \in Ranks, ResetCount(r)
  PROVE  Together'
<1>1. Move(r, "reset", "flip") /\ UNCHANGED <<barrier_sense, my_sense, begun>> /\ barrier_count' = 0
  BY Moves DEF ResetCount, progress
<1>2. Closing(r) /\ Arrived = Ranks
  BY <1>1 DEF Move, Closing, Together
<1>3. ASSUME NEW q \in Ranks
      PROVE  /\ Inside(q)' <=> Inside(q)
             /\ Closing(q)' <=> Closing(q)
             /\ Passed(q)' = Passed(q)
             /\ pc'[q] = "arrive" => pc[q] = "arrive"
  BY <1>1 DEF Move, Inside, Closing, Freed, Passed
<1>4. Arrived' = Arrived
  BY <1>3 DEF Arrived
<1>5. pc'[r] = "flip"
  BY <1>1 DEF Move
<1>. QED BY <1>1, <1>2, <1>3, <1>4, <1>5, RankNumbers DEF Together

(* Everybody waits when the sense is flipped. *)
LEMMA AllWaiting ==
  ASSUME Types, Progress, Together, NEW r \in Ranks, Closing(r)
  PROVE  \A q \in Ranks : q # r => pc[q] = "wait" /\ my_sense[q] # barrier_sense /\ my_sense[q] = my_sense[r]
<1>. TAKE q \in Ranks
<1>. SUFFICES ASSUME q # r PROVE pc[q] = "wait" /\ my_sense[q] # barrier_sense /\ my_sense[q] = my_sense[r]
  OBVIOUS
<1>1. Inside(q) /\ ~ Closing(q) /\ my_sense[r] # barrier_sense
  BY DEF Together, Arrived
<1>2. pc[q] = "wait" /\ my_sense[q] # barrier_sense
  BY <1>1 DEF Inside
<1>. QED BY <1>1, <1>2, OneRank

(* The store of the sense lets everybody through at once: the release of   *)
(* BarrierSync.                                                            *)
LEMMA FlipTogether ==
  ASSUME Types, Progress, Together, NEW r \in Ranks, FlipSense(r)
  PROVE  /\ Together'
         /\ \A q \in Ranks : /\ IF q = r THEN pc'[q] = "plan" ELSE pc[q] = "wait" /\ Freed(q)'
                             /\ Passed(q)' = Passed(q) + 1
<1>1. Move(r, "flip", "plan") /\ UNCHANGED <<barrier_count, my_sense, begun>> /\ barrier_sense' = my_sense[r]
  BY Moves DEF FlipSense, progress
<1>2. Closing(r) /\ barrier_count = 0
  BY <1>1 DEF Move, Closing, Together
<1>3. \A q \in Ranks : q # r => pc[q] = "wait" /\ my_sense[q] # barrier_sense /\ my_sense[q] = my_sense[r]
  BY <1>2, AllWaiting
<1>4. ASSUME NEW q \in Ranks
      PROVE  /\ IF q = r THEN pc'[q] = "plan" ELSE pc[q] = "wait" /\ Freed(q)'
             /\ ~ Inside(q)' /\ ~ Closing(q)' /\ pc'[q] \notin {"arrive", "flip"}
             /\ Passed(q)' = Passed(q) + 1
  <2>1. CASE q = r
    BY <1>1, <2>1, OneRank DEF Move, Inside, Closing, Freed, Passed
  <2>2. CASE q # r
    <3>1. pc'[q] = "wait" /\ pc[q] = "wait" /\ my_sense'[q] = barrier_sense'
      BY <1>1, <1>3, <2>2 DEF Move
    <3>2. ~ Freed(q)
      BY <1>3, <2>2 DEF Freed
    <3>3. begun'[q] = begun[q] /\ begun[q] \in Nat
      BY <1>1, OneRank
    <3>4. Passed(q) = begun[q] - 1 /\ Passed(q)' = begun[q] /\ Freed(q)'
      BY <3>1, <3>2, <3>3 DEF Freed, Passed
    <3>. QED BY <2>2, <3>1, <3>3, <3>4 DEF Inside, Closing
  <2>. QED BY <2>1, <2>2
<1>5. Arrived' = {}
  BY <1>4 DEF Arrived
<1>6. \A q \in Ranks : Passed(q)' = Passed(0)'
  BY <1>4, RankNumbers DEF Together
<1>7. barrier_count' = Cardinality(Arrived')
  BY <1>1, <1>2, <1>5, FS_EmptySet
<1>8. Ranks # {}
  BY RankNumbers
<1>9. Together'
  BY <1>4, <1>5, <1>6, <1>7, <1>8 DEF Together
<1>. QED BY <1>4, <1>9

(* Before rank 0 has attached nobody is near the barrier: what Attach      *)
(* resets is not in use.                                                   *)
LEMMA AttachTogether ==
  ASSUME Types, Progress, Together, Attachment, NEW r \in Ranks, Attach(r)
  PROVE  /\ Together'
         /\ \A q \in Ranks : Passed(q)' = Passed(q)
<1>1. /\ Move(r, "attach", IF r = 0 THEN "consumed" ELSE "read")
      /\ UNCHANGED <<begun, launched, my_sense>>
  BY Moves DEF Attach, reading
<1>2. Passed(r)' = Passed(r)
  BY <1>1 DEF Move, Passed, Freed
<1>3. CASE magic /\ r # 0
  <2>1. UNCHANGED <<barrier_count, barrier_sense>>
    BY <1>3 DEF Attach, barrier
  <2>2. Together'
    BY <1>1, <1>2, <1>3, <2>1, OutsideBarrier
  <2>3. ASSUME NEW q \in Ranks PROVE Passed(q)' = Passed(q)
    BY <1>1, <1>2, <2>1, <2>3 DEF Move, Passed, Freed
  <2>. QED BY <2>2, <2>3
<1>4. CASE ~ (magic /\ r # 0)
  <2>1. ~ attached[0]
    BY <1>1, <1>4, RankNumbers DEF Attachment, RankAttached, Move
  <2>2. \A q \in Ranks : pc[q] \in {"app", "attach", "read"} /\ pc'[q] \in {"app", "attach", "read", "consumed"}
    BY <1>1, <2>1 DEF Attachment, Move
  <2>3. \A q \in Ranks : /\ ~ Inside(q)' /\ ~ Closing(q)' /\ pc'[q] \notin {"arrive", "flip"}
                         /\ ~ Inside(q)
    BY <2>2 DEF Inside, Closing
  <2>4. Arrived' = {}
    BY <2>3 DEF Arrived
  <2>5. barrier_count' = 0
    <3>1. Arrived = {} /\ \A q \in Ranks : pc[q] # "flip"
      BY <2>2, <2>3 DEF Arrived
    <3>2. barrier_count = 0
      BY <3>1, FS_EmptySet DEF Together
    <3>. QED BY <1>4, <3>2 DEF Attach
  <2>6. ASSUME NEW q \in Ranks PROVE Passed(q)' = Passed(q)
    BY <1>1, <1>2, <2>2 DEF Move, Passed, Freed
  <2>7. \A q \in Ranks : Passed(q)' = Passed(0)'
    BY <2>6, RankNumbers DEF Together
  <2>8. Ranks # {} /\ barrier_count' = Cardinality(Arrived')
    BY <2>4, <2>5, FS_EmptySet, RankNumbers
  <2>9. Together'
    BY <2>3, <2>4, <2>7, <2>8 DEF Together
  <2>. QED BY <2>6, <2>9
<1>. QED BY <1>3, <1>4

(* Every step keeps the ranks together; only the flip of the sense lets    *)
(* them through.                                                           *)
LEMMA TogetherStep ==
  ASSUME Types, Progress, Together, Attachment, [Next]_vars
  PROVE  /\ Together'
         /\ \/ \A q \in Ranks : Passed(q)' = Passed(q)
            \/ \E r \in Ranks : FlipSense(r)
<1>. DEFINE Same == \A q \in Ranks : Passed(q)' = Passed(q)
<1>. USE DEF segment, stats, params, barrier, progress, reading, callbacks, launcher
<1>a. ASSUME NEW r \in Ranks, NEW from, NEW to, Move(r, from, to),
             from \notin {"arrive", "reset", "flip"}, to \notin {"wait", "arrive", "reset", "flip"},
             from = "wait" => Freed(r),
             UNCHANGED <<barrier_count, barrier_sense, my_sense>>,
             Passed(r)' = Passed(r), \A q \in Ranks : q # r => begun'[q] = begun[q]
      PROVE  Together' /\ Same
  <2>1. Together'
    BY <1>a, OutsideBarrier
  <2>2. ASSUME NEW q \in Ranks PROVE Passed(q)' = Passed(q)
    BY <1>a, <2>2 DEF Move, Passed, Freed
  <2>. QED BY <2>1, <2>2
<1>1. ASSUME NEW r \in Ranks, Begin(r) PROVE Together' /\ Same
  <2>1. /\ UNCHANGED <<barrier_count, barrier_sense, my_sense>>
        /\ begun' = [begun EXCEPT ![r] = @ + 1]
        /\ Move(r, "app", IF ~ attached[r] THEN "attach" ELSE IF r = 0 THEN "consumed" ELSE "read")
    BY <1>1, Moves DEF Begin
  <2>2. begun'[r] = begun[r] + 1 /\ \A q \in Ranks : q # r => begun'[q] = begun[q]
    BY <2>1 DEF Types, LaunchTypes
  <2>3. Passed(r)' = Passed(r)
    BY <2>1, <2>2, OneRank DEF Move, Passed, Freed
  <2>. QED BY <1>a, <2>1, <2>2, <2>3
<1>2. ASSUME NEW r \in Ranks, Attach(r) PROVE Together' /\ Same
  BY <1>2, AttachTogether
<1>3. CASE ShmRoundBegin
  <2>1. UNCHANGED <<barrier_count, barrier_sense, my_sense, begun>>
    BY <1>3 DEF ShmRoundBegin, WaitUntilParamConsumed, AnyCurrentEpoch, AllCurrentEpoch, ClearSlots,
                AdvanceEpoch, WriteEntry, WriteVersion, SignalParamWritten
  <2>2. PICK from \in WriterStates, to \in WriterStates \cup {"read"} : Move(0, from, to)
    BY <1>3, Moves, RankNumbers DEF ShmRoundBegin, WriterStates
  <2>3. Passed(0)' = Passed(0)
    BY <2>1, <2>2 DEF Move, Passed, Freed, WriterStates
  <2>4. from \notin {"arrive", "reset", "flip", "wait"} /\ to \notin {"wait", "arrive", "reset", "flip"}
    BY DEF WriterStates
  <2>. QED BY <1>a, <2>1, <2>2, <2>3, <2>4, RankNumbers
<1>4. ASSUME NEW r \in Ranks, ReadVersion(r) \/ CopyEntry(r) \/ MergeParams(r) \/ Consume(r)
      PROVE  Together' /\ Same
  <2>1. UNCHANGED <<barrier_count, barrier_sense, my_sense, begun>>
    BY <1>4 DEF ReadVersion, CopyEntry, MergeParams, Consume
  <2>2. PICK from \in {"read", "snapshot", "recheck", "consume"},
             to \in {"read", "snapshot", "recheck", "consume", "sense"} : Move(r, from, to)
    BY <1>4, Moves
  <2>3. Passed(r)' = Passed(r)
    BY <2>1, <2>2 DEF Move, Passed, Freed
  <2>4. from \notin {"arrive", "reset", "flip", "wait"} /\ to \notin {"wait", "arrive", "reset", "flip"}
    OBVIOUS
  <2>. QED BY <1>a, <2>1, <2>2, <2>3, <2>4
<1>5. ASSUME NEW r \in Ranks, LoadSense(r) PROVE Together' /\ Same
  <2>1. /\ UNCHANGED <<barrier_count, barrier_sense, begun>> /\ Move(r, "sense", "arrive")
        /\ my_sense' = [my_sense EXCEPT ![r] = 1 - barrier_sense]
    BY <1>5, Moves DEF LoadSense
  <2>2. my_sense'[r] # barrier_sense /\ \A q \in Ranks : q # r => my_sense'[q] = my_sense[q]
    <3>1. 1 - barrier_sense # barrier_sense
      BY OneRank
    <3>. QED BY <2>1, <3>1 DEF Types, LaunchTypes
  <2>3. ASSUME NEW q \in Ranks
        PROVE  /\ Inside(q)' <=> Inside(q)
               /\ Closing(q)' <=> Closing(q)
               /\ pc'[q] = "flip" <=> pc[q] = "flip"
               /\ Passed(q)' = Passed(q)
               /\ pc'[q] = "arrive" \/ Closing(q) => my_sense'[q] # barrier_sense
    <3>1. CASE q = r
      BY <2>1, <2>2, <3>1 DEF Move, Inside, Closing, Freed, Passed
    <3>2. CASE q # r
      BY <2>1, <2>2, <3>2 DEF Move, Inside, Closing, Freed, Passed, Together
    <3>. QED BY <3>1, <3>2
  <2>4. Together'
    BY <2>1, <2>3, BarrierUndisturbed
  <2>. QED BY <2>3, <2>4
<1>6. ASSUME NEW r \in Ranks, Arrive(r) \/ ResetCount(r) PROVE Together' /\ Same
  <2>1. UNCHANGED <<barrier_sense, my_sense, begun>>
    BY <1>6 DEF Arrive, ResetCount
  <2>2. Arrive(r) => my_sense[r] # barrier_sense
    BY DEF Arrive, Together
  <2>3. ASSUME NEW q \in Ranks PROVE Passed(q)' = Passed(q)
    BY <1>6, <2>1, <2>2, Moves DEF Move, Passed, Freed
  <2>. QED BY <1>6, <2>3, ArriveTogether, ResetTogether
<1>7. ASSUME NEW r \in Ranks, SeeSense(r) PROVE Together' /\ Same
  <2>1. /\ UNCHANGED <<barrier_count, barrier_sense, my_sense, begun>> /\ Move(r, "wait", "plan")
        /\ barrier_sense = my_sense[r]
    BY <1>7, Moves DEF SeeSense
  <2>2. Freed(r) /\ Passed(r)' = Passed(r)
    BY <2>1 DEF Move, Passed, Freed
  <2>. QED BY <1>a, <2>1, <2>2
<1>8. ASSUME NEW r \in Ranks, Launch(r) PROVE Together' /\ Same
  <2>1. UNCHANGED <<barrier_count, barrier_sense, my_sense, begun>> /\ Move(r, "plan", "app")
    BY <1>8, Moves DEF Launch
  <2>2. Passed(r)' = Passed(r)
    BY <2>1 DEF Move, Passed, Freed
  <2>. QED BY <1>a, <2>1, <2>2
<1>9. ASSUME NEW r \in Ranks, FlipSense(r) PROVE Together'
  BY <1>9, FlipTogether
<1>10. CASE UNCHANGED <<launcher, barrier>>
  <2>1. ASSUME NEW q \in Ranks
        PROVE  /\ Inside(q)' <=> Inside(q)
               /\ Closing(q)' <=> Closing(q)
               /\ pc'[q] = "flip" <=> pc[q] = "flip"
               /\ Passed(q)' = Passed(q)
               /\ pc'[q] = "arrive" \/ Closing(q) => my_sense'[q] # barrier_sense
    BY <1>10 DEF Inside, Closing, Freed, Passed, Together
  <2>2. Together'
    BY <1>10, <2>1, BarrierUndisturbed
  <2>. QED BY <2>1, <2>2
<1>11. ASSUME NEW r \in Ranks, CallbackStep(r) PROVE UNCHANGED <<launcher, barrier>>
  BY <1>11 DEF CallbackStep, BeginStat, PublishStat
<1>12. UNCHANGED vars => UNCHANGED <<launcher, barrier>>
  BY DEF vars
<1>. QED
  BY <1>1, <1>2, <1>3, <1>4, <1>5, <1>6, <1>7, <1>8, <1>9, <1>10, <1>11, <1>12
     DEF Next, LaunchStep

-----------------------------------------------------------------------------
(* Attaching to the segment *)

(* A segment that is new or was left by a clean end has no readers.        *)
LEMMA AttachmentInit ==
  ASSUME "crashed" \notin Leftovers, Init
  PROVE  Attachment
<1>1. param_read_count = 0 /\ ~ attached[0]
  BY RankNumbers DEF Init
<1>. QED BY <1>1, RankNumbers DEF Init, Attachment, RankAttached

(* Attach finds nothing in use that it resets, and every other step leaves *)
(* a segment that rank 0 has not attached to as it is.                     *)
LEMMA AttachmentStep ==
  ASSUME Types, Progress, Attachment, [Next]_vars
  PROVE  Attachment'
<1>. USE DEF segment, stats, params, barrier, progress, reading, callbacks, launcher
<1>0. attached \in [Ranks -> BOOLEAN] /\ launched \in [Ranks -> Nat]
  BY DEF Types, LaunchTypes
<1>a. ASSUME NEW r \in Ranks, Between(r), UNCHANGED <<magic, attached, callbacks>>,
             attached[r], attached[0], pc'[r] # "attach",
             \A q \in Ranks : slots'[q].valid => slots[q].valid /\ slots'[q].coll = slots[q].coll
      PROVE  Attachment'
  <2>1. UNCHANGED <<launched, magic, attached, pending, callback>> /\ \A q \in Ranks : q # r => pc'[q] = pc[q]
    BY <1>a DEF Between
  <2>2. ASSUME NEW q \in Ranks PROVE RankAttached(q)'
    <3>1. CASE q = r
      BY <1>a, <2>1, <3>1 DEF Attachment, RankAttached
    <3>2. CASE q # r
      BY <2>1, <3>2 DEF Attachment, RankAttached
    <3>. QED BY <3>1, <3>2
  <2>. QED BY <1>a, <2>1, <2>2 DEF Attachment
<1>b. \A r \in Ranks : pc[r] \notin {"app", "attach"} => attached[r]
  BY DEF Attachment, RankAttached
<1>1. ASSUME NEW r \in Ranks, Begin(r) PROVE Attachment'
  <2>1. /\ UNCHANGED <<magic, param_read_count, slots, attached, launched, cache, pending, callback>>
        /\ Move(r, "app", IF ~ attached[r] THEN "attach" ELSE IF r = 0 THEN "consumed" ELSE "read")
    BY <1>1, Moves DEF Begin
  <2>2. ASSUME NEW q \in Ranks PROVE RankAttached(q)'
    BY <2>1, <2>2 DEF Move, Attachment, RankAttached
  <2>3. ~ attached[0] => \A q \in Ranks : pc'[q] \in {"app", "attach", "read"}
    BY <2>1, RankNumbers DEF Move, Attachment
  <2>. QED BY <2>1, <2>2, <2>3 DEF Attachment
<1>2. ASSUME NEW r \in Ranks, Attach(r) PROVE Attachment'
  <2>1. /\ UNCHANGED <<launched, cache, pending, callback>> /\ magic'
        /\ attached' = [attached EXCEPT ![r] = TRUE]
        /\ Move(r, "attach", IF r = 0 THEN "consumed" ELSE "read")
    BY <1>2, Moves DEF Attach
  <2>2. attached'[r] /\ ~ attached[r] /\ \A q \in Ranks : q # r => attached'[q] = attached[q]
    BY <2>1, <1>0 DEF Move, Attachment, RankAttached
  <2>3. ASSUME NEW q \in Ranks PROVE RankAttached(q)'
    BY <2>1, <2>2, <2>3 DEF Move, Attachment, RankAttached
  <2>4. ~ attached'[0] => ~ attached[0] /\ param_read_count' = 0 /\ \A q \in Ranks : pc'[q] \in {"app", "attach", "read"}
    BY <1>2, <2>1, <2>2, RankNumbers DEF Attach, Move, Attachment
  <2>5. ASSUME attached'[0], NEW q \in Ranks, slots'[q].valid PROVE slots'[q].coll >= 1
    <3>1. CASE ~ magic
      BY <1>2, <2>5, <3>1 DEF Attach, NoStat
    <3>2. CASE magic /\ r = 0
      <4>1. ~ slots'[q].valid
        BY <1>2, <3>2, ZenonT(60) DEF Attach, Types, SegmentTypes, StatSlot
      <4>. QED BY <2>5, <4>1
    <3>3. CASE magic /\ r # 0
      <4>1. UNCHANGED slots /\ attached[0]
        BY <1>2, <2>2, <2>5, <3>3, RankNumbers DEF Attach
      <4>. QED BY <2>5, <4>1 DEF Attachment
    <3>. QED BY <3>1, <3>2, <3>3
  <2>. QED BY <2>1, <2>3, <2>4, <2>5 DEF Attachment
<1>3. CASE ShmRoundBegin
  <2>1. Between(0) /\ pc[0] \in WriterStates /\ pc'[0] # "attach"
    BY <1>3, BetweenSteps, Moves, RankNumbers DEF ShmRoundBegin, Move, WriterStates
  <2>2. attached[0]
    BY <1>b, <2>1, RankNumbers DEF WriterStates
  <2>3. UNCHANGED <<magic, attached, callbacks>>
    BY <1>3 DEF ShmRoundBegin, WaitUntilParamConsumed, AnyCurrentEpoch, AllCurrentEpoch, ClearSlots,
                AdvanceEpoch, WriteEntry, WriteVersion, SignalParamWritten
  <2>4. ASSUME NEW q \in Ranks, slots'[q].valid PROVE slots[q].valid /\ slots'[q].coll = slots[q].coll
    <3>1. CASE ClearSlots
      <4>1. ~ slots'[q].valid
        BY <3>1, Zenon DEF ClearSlots, Types, SegmentTypes, StatSlot
      <4>. QED BY <2>4, <4>1
    <3>2. CASE ~ ClearSlots
      <4>1. UNCHANGED slots
        BY <1>3, <3>2 DEF ShmRoundBegin, WaitUntilParamConsumed, AnyCurrentEpoch, AllCurrentEpoch,
                AdvanceEpoch, WriteEntry, WriteVersion, SignalParamWritten
      <4>. QED BY <2>4, <4>1
    <3>. QED BY <3>1, <3>2
  <2>. QED BY <1>a, <2>1, <2>2, <2>3, <2>4, RankNumbers
<1>4. ASSUME NEW r \in Ranks,
             \/ ReadVersion(r) \/ CopyEntry(r) \/ MergeParams(r) \/ Consume(r)
             \/ LoadSense(r) \/ Arrive(r) \/ ResetCount(r) \/ FlipSense(r) \/ SeeSense(r)
      PROVE  Attachment'
  <2>1. Between(r) /\ pc[r] \notin {"app", "attach"} /\ pc'[r] # "attach" /\ (pc[r] # "read" \/ ReadVersion(r))
    BY <1>4, BetweenSteps, Moves DEF Move
  <2>2. attached[r]
    BY <1>b, <2>1
  <2>3. ReadVersion(r) => r = 0 \/ param_read_count # 0
    BY DEF ReadVersion
  <2>4. attached[0]
    <3>1. CASE r = 0
      BY <2>2, <3>1
    <3>2. CASE r # 0
      BY <2>1, <2>3, <3>2 DEF Attachment
    <3>. QED BY <3>1, <3>2
  <2>5. UNCHANGED <<magic, attached, callbacks, slots>>
    BY <1>4 DEF ReadVersion, CopyEntry, MergeParams, Consume, LoadSense, Arrive, ResetCount, FlipSense, SeeSense
  <2>. QED BY <1>a, <2>1, <2>2, <2>4, <2>5
<1>5. ASSUME NEW r \in Ranks, Launch(r) PROVE Attachment'
  <2>1. /\ UNCHANGED <<magic, slots, attached, callback>> /\ Move(r, "plan", "app")
        /\ launched' = [launched EXCEPT ![r] = @ + 1]
    BY <1>5, Moves DEF Launch
  <2>2. launched'[r] # 0 /\ \A q \in Ranks : q # r => launched'[q] = launched[q]
    BY <1>0, <2>1
  <2>3. attached[r] /\ attached[0]
    BY <1>b, <2>1 DEF Move, Attachment
  <2>4. ASSUME NEW q \in Ranks, q # r PROVE pending'[q] = pending[q]
    BY <1>5, <2>4 DEF Launch, Types, CallbackTypes
  <2>5. ASSUME NEW q \in Ranks PROVE RankAttached(q)'
    <3>1. CASE q = r
      BY <2>1, <2>2, <2>3, <3>1 DEF Attachment, RankAttached, Move
    <3>2. CASE q # r
      BY <2>1, <2>2, <2>4, <3>2 DEF Attachment, RankAttached, Move
    <3>. QED BY <3>1, <3>2
  <2>. QED BY <2>1, <2>3, <2>5 DEF Attachment
<1>6. ASSUME NEW r \in Ranks, CallbackStep(r) PROVE Attachment'
  <2>1. /\ UNCHANGED <<pc, launched, attached, magic, cache, param_read_count>>
    BY <1>6 DEF CallbackStep, BeginStat, PublishStat
  <2>2. pending[r] # <<>> \/ callback[r] # Idle
    BY <1>6 DEF CallbackStep, BeginStat, PublishStat
  <2>3. launched[r] # 0
    BY <2>2 DEF Attachment, RankAttached
  <2>4. attached[0]
    BY <2>3 DEF Attachment
  <2>5. ASSUME NEW q \in Ranks, q # r
        PROVE  pending'[q] = pending[q] /\ callback'[q] = callback[q] /\ slots'[q] = slots[q]
    BY <1>6, <2>5 DEF CallbackStep, BeginStat, PublishStat, Types, SegmentTypes, CallbackTypes
  <2>6. ASSUME NEW q \in Ranks PROVE RankAttached(q)'
    <3>1. CASE q = r
      BY <2>1, <2>3, <3>1 DEF Attachment, RankAttached
    <3>2. CASE q # r
      BY <2>1, <2>5, <3>2 DEF Attachment, RankAttached
    <3>. QED BY <3>1, <3>2
  <2>7. slots'[r].coll >= 1
    <3>1. CASE BeginStat(r)
      <4>1. slots'[r].coll = Head(pending[r]).coll /\ pending[r] # <<>>
        BY <3>1, Zenon DEF BeginStat, Types, SegmentTypes, StatSlot
      <4>2. Head(pending[r]) = pending[r][1] /\ Len(pending[r]) \in Nat \ {0} /\ launched[r] \in Nat
        BY <1>0, <4>1, OneSlot, Popped
      <4>. QED BY <4>1, <4>2, OneSlot
    <3>2. CASE PublishStat(r)
      <4>1. slots'[r].coll = slots[r].coll /\ callback[r] # Idle
        BY <3>2, Zenon DEF PublishStat, Types, SegmentTypes, StatSlot
      <4>. QED BY <4>1, OneSlot
    <3>. QED BY <1>6, <3>1, <3>2 DEF CallbackStep
  <2>. QED BY <2>1, <2>4, <2>5, <2>6, <2>7 DEF Attachment
<1>7. CASE UNCHANGED vars
  BY <1>7 DEF vars, Attachment, RankAttached
<1>. QED
  BY <1>1, <1>2, <1>3, <1>4, <1>5, <1>6, <1>7 DEF Next, LaunchStep

-----------------------------------------------------------------------------
(* Reading the parameters *)

(* The ranks behind are those that have not taken over this round's        *)
(* parameters, once they are signalled.                                    *)
ToTake == {r \in Ranks \ {0} : Signalled /\ ~ Took(r)}

(* The ranks behind, as the counters tell them, are those that have yet to *)
(* take the parameters over (param_read_count of the store).               *)
LEMMA BehindRanks == Types /\ Progress /\ Together => Behind = ToTake
<1>. SUFFICES ASSUME Types, Progress, Together
              PROVE  Behind = ToTake
  OBVIOUS
<1>1. Passed(0) \in Int /\ Signals = Passed(0) + (IF Signalled THEN 1 ELSE 0)
  BY OneRank, RankNumbers
     DEF Signals, Signalled, Passed, PastSignal, Inside, Closing, Freed, LauncherStates
<1>2. ASSUME NEW r \in Ranks, r # 0 PROVE Taken(r) = Passed(0) + (IF Took(r) THEN 1 ELSE 0)
  <2>1. Taken(r) = Passed(r) + (IF Took(r) THEN 1 ELSE 0)
    BY <1>2, OneRank DEF Taken, Took, Passed, Inside, Closing, Freed, LauncherStates, WriterStates
  <2>. QED BY <2>1 DEF Together
<1>. QED BY <1>1, <1>2 DEF Behind, ToTake

(* The same after a step. *)
LEMMA BehindRanksNext == Types' /\ Progress' /\ Together' => Behind' = ToTake'
<1>. DEFINE Exact == Behind = ToTake
<1>1. Types /\ Progress /\ Together => Exact
  BY BehindRanks
<1>2. Types' /\ Progress' /\ Together' => Exact'
  <2>. HIDE DEF Exact
  <2>. QED BY <1>1, PTL
<1>. QED BY <1>2

(* Readers are those of the version and entry they have copied, and they   *)
(* are the ones counted.                                                   *)
LEMMA ReadingInit == Init => Reading
<1>. SUFFICES ASSUME Init PROVE Reading
  OBVIOUS
<1>1. \A r \in Ranks : pc[r] = "app" /\ ~ attached[r]
  BY DEF Init
<1>. QED BY <1>1, RankNumbers DEF Reading, PastSignal, Inside, Closing

(* Parameters keep being read within the round that they were signalled in. *)
LEMMA ReadingStep ==
  ASSUME Types, Progress, Together, Attachment, Reading, Types', Progress', Together', [Next]_vars
  PROVE  Reading'
<1>. USE DEF segment, stats, params, barrier, progress, reading, callbacks, launcher
<1>0. Behind = ToTake /\ Behind' = ToTake'
  BY BehindRanks, BehindRanksNext
(* a rank moves outside of the part of the round that concerns reading, or within it *)
<1>a. ASSUME NEW r \in Ranks, NEW from, NEW to, Move(r, from, to),
             UNCHANGED <<attached, param_read_count, entries, pver, v1, snapshot, barrier_sense>>,
             \A q \in Ranks : q # r => my_sense'[q] = my_sense[q],
             r # 0 => (Took(r)' <=> Took(r)), PastSignal(r)' <=> PastSignal(r),
             r = 0 => (to = "read" <=> from = "read"),
             to \notin {"snapshot", "recheck"}
      PROVE  Reading'
  <2>1. ASSUME NEW q \in Ranks PROVE /\ q # 0 => (Took(q)' <=> Took(q))
                                     /\ PastSignal(q)' <=> PastSignal(q)
                                     /\ q = 0 => (pc'[q] = "read" <=> pc[q] = "read")
                                     /\ pc'[q] \in {"snapshot", "recheck"} => pc'[q] = pc[q]
    BY <1>a, <2>1 DEF Move, Took, PastSignal, Inside, Closing
  <2>2. Signalled' <=> Signalled
    BY <2>1, RankNumbers DEF Signalled
  <2>3. Behind' = Behind
    BY <1>0, <2>1, <2>2 DEF ToTake
  <2>. QED BY <1>a, <2>1, <2>2, <2>3 DEF Reading
<1>1. ASSUME NEW r \in Ranks, Begin(r) PROVE Reading'
  <2>1. UNCHANGED <<attached, param_read_count, entries, pver, v1, snapshot, barrier_sense, my_sense>>
    BY <1>1 DEF Begin
  <2>2. Move(r, "app", IF ~ attached[r] THEN "attach" ELSE IF r = 0 THEN "consumed" ELSE "read")
    BY <1>1, Moves
  <2>3. ~ Took(r) /\ ~ Took(r)' /\ ~ PastSignal(r) /\ ~ PastSignal(r)'
    BY <2>2 DEF Move, Took, PastSignal, Inside, Closing
  <2>. QED BY <1>a, <2>1, <2>2, <2>3
<1>2. ASSUME NEW r \in Ranks, Attach(r) PROVE Reading'
  <2>1. /\ Move(r, "attach", IF r = 0 THEN "consumed" ELSE "read")
        /\ UNCHANGED <<v1, snapshot, my_sense>> /\ attached' = [attached EXCEPT ![r] = TRUE]
    BY <1>2, Moves DEF Attach
  <2>2. ~ Took(r) /\ ~ Took(r)' /\ ~ PastSignal(r) /\ ~ PastSignal(r)'
    BY <2>1 DEF Move, Took, PastSignal, Inside, Closing
  <2>3. r # 0 => attached'[0] = attached[0]
    BY <2>1, RankNumbers DEF Types, LaunchTypes
  <2>4. CASE magic /\ r # 0
    <3>1. UNCHANGED <<param_read_count, entries, pver, barrier_sense>>
      BY <1>2, <2>4 DEF Attach
    <3>2. ASSUME NEW q \in Ranks PROVE /\ Took(q)' <=> Took(q)
                                       /\ PastSignal(q)' <=> PastSignal(q)
                                       /\ q = 0 => pc'[q] = pc[q]
                                       /\ pc'[q] \in {"snapshot", "recheck"} => pc'[q] = pc[q]
      BY <2>1, <2>2, <2>4, <3>1, <3>2 DEF Move, Took, PastSignal, Inside, Closing
    <3>3. Signalled' <=> Signalled
      BY <3>2, RankNumbers DEF Signalled
    <3>4. Behind' = Behind
      BY <1>0, <3>2, <3>3 DEF ToTake
    <3>. QED BY <2>1, <2>3, <2>4, <3>1, <3>2, <3>3, <3>4 DEF Reading
  <2>5. CASE ~ (magic /\ r # 0)
    <3>1. ~ attached[0] /\ param_read_count' = 0
      BY <1>2, <2>1, <2>5, RankNumbers DEF Attach, Move, Attachment, RankAttached
    <3>2. \A q \in Ranks : pc'[q] \in {"app", "attach", "read", "consumed"}
      BY <2>1, <3>1 DEF Attachment, Move
    <3>3. \A q \in Ranks : ~ PastSignal(q)'
      BY <3>2 DEF PastSignal, Inside, Closing
    <3>4. attached'[0] => pc'[0] = "consumed"
      BY <2>1, <2>3, <3>1, RankNumbers DEF Move
    <3>5. attached'[0] => ~ Signalled'
      BY <3>3, <3>4, RankNumbers DEF Signalled
    <3>6. attached'[0] => Behind' = {}
      BY <1>0, <3>5 DEF ToTake
    <3>. QED BY <3>1, <3>2, <3>3, <3>6, FS_EmptySet DEF Reading
  <2>. QED BY <2>4, <2>5
<1>3. CASE WaitUntilParamConsumed \/ AnyCurrentEpoch \/ AllCurrentEpoch \/ ClearSlots \/ AdvanceEpoch
  <2>1. UNCHANGED <<attached, param_read_count, entries, pver, v1, snapshot, barrier_sense, my_sense>>
    BY <1>3 DEF WaitUntilParamConsumed, AnyCurrentEpoch, AllCurrentEpoch, ClearSlots, AdvanceEpoch
  <2>2. PICK from \in WriterStates, to \in WriterStates : Move(0, from, to)
    BY <1>3, Moves, RankNumbers DEF WriterStates
  <2>3. Took(0)' <=> Took(0)
    BY <2>2 DEF Move, Took, Inside, Closing, WriterStates
  <2>4. PastSignal(0)' <=> PastSignal(0)
    BY <2>2 DEF Move, PastSignal, Inside, Closing, WriterStates
  <2>. QED BY <1>a, <2>1, <2>2, <2>3, <2>4, RankNumbers DEF WriterStates
<1>4. CASE WriteEntry \/ WriteVersion
  <2>1. UNCHANGED <<attached, param_read_count, v1, snapshot, barrier_sense, my_sense>>
    BY <1>4 DEF WriteEntry, WriteVersion
  <2>2. pc[0] \in {"write", "version"} /\ pc'[0] \in {"version", "signal"} /\ \A q \in Ranks : q # 0 => pc'[q] = pc[q]
    BY <1>4, Moves, RankNumbers DEF Move
  <2>3. ~ Signalled /\ ~ Signalled'
    BY <2>2 DEF Signalled, PastSignal, Inside, Closing
  <2>4. \A q \in Ranks : ~ PastSignal(q)
    BY <2>3 DEF Signalled, Reading
  <2>5. \A q \in Ranks : ~ PastSignal(q)'
    <3>1. ~ PastSignal(0)'
      BY <2>3 DEF Signalled
    <3>2. ASSUME NEW q \in Ranks, q # 0 PROVE ~ PastSignal(q)'
      BY <2>1, <2>2, <2>4, <3>2 DEF PastSignal, Inside, Closing
    <3>. QED BY <3>1, <3>2
  <2>6. \A q \in Ranks : pc'[q] \notin {"snapshot", "recheck"}
    BY <2>5 DEF PastSignal
  <2>7. Behind = {} /\ Behind' = {}
    BY <1>0, <2>3 DEF ToTake
  <2>. QED BY <2>1, <2>5, <2>6, <2>7 DEF Reading
<1>5. CASE SignalParamWritten
  <2>1. UNCHANGED <<attached, entries, pver, v1, snapshot, barrier_sense, my_sense>> /\ param_read_count' = NRanks - 1
    BY <1>5 DEF SignalParamWritten
  <2>2. Move(0, "signal", "read")
    BY <1>5, Moves, RankNumbers
  <2>3. ~ Signalled /\ Signalled'
    BY <2>2 DEF Move, Signalled, PastSignal, Inside, Closing
  <2>4. \A q \in Ranks : ~ PastSignal(q)
    BY <2>3 DEF Signalled, Reading
  <2>5. ASSUME NEW q \in Ranks PROVE ~ PastSignal(q)'
    BY <2>1, <2>2, <2>4 DEF Move, PastSignal, Inside, Closing
  <2>6. Behind' = Ranks \ {0}
    BY <1>0, <2>3, <2>5 DEF ToTake, PastSignal, Took
  <2>7. Cardinality(Behind') = NRanks - 1
    BY <2>6, RankNumbers, FS_RemoveElement
  <2>. QED BY <2>1, <2>3, <2>5, <2>7 DEF Reading, PastSignal
<1>6. ASSUME NEW r \in Ranks, ReadVersion(r) PROVE Reading'
  <2>1. /\ UNCHANGED <<attached, param_read_count, entries, pver, snapshot, barrier_sense, my_sense>>
        /\ v1' = [v1 EXCEPT ![r] = pver] /\ Move(r, "read", "snapshot")
        /\ r # 0 => param_read_count # 0
    BY <1>6, Moves DEF ReadVersion
  <2>2. r # 0 => Signalled
    <3>. SUFFICES ASSUME r # 0 PROVE Signalled
      OBVIOUS
    <3>1. attached[0] /\ param_read_count # 0
      BY <2>1 DEF Attachment
    <3>2. Behind # {}
      BY <3>1, FS_EmptySet DEF Reading
    <3>. QED BY <1>0, <3>2 DEF ToTake
  <2>3. Signalled' <=> Signalled
    BY <2>1, RankNumbers DEF Move, Signalled, PastSignal, Inside, Closing
  <2>4. ASSUME NEW q \in Ranks PROVE /\ Took(q)' <=> Took(q)
                                     /\ PastSignal(q)' <=> PastSignal(q) \/ q = r
    BY <2>1, <2>4 DEF Move, Took, PastSignal, Inside, Closing
  <2>5. Behind' = Behind
    BY <1>0, <2>3, <2>4 DEF ToTake
  <2>6. v1'[r] = pver /\ \A q \in Ranks : q # r => v1'[q] = v1[q] /\ pc'[q] = pc[q]
    BY <2>1 DEF Move, Types, LaunchTypes
  <2>. QED BY <2>1, <2>2, <2>3, <2>4, <2>5, <2>6 DEF Reading, Move
<1>7. ASSUME NEW r \in Ranks, CopyEntry(r) PROVE Reading'
  <2>1. /\ UNCHANGED <<attached, param_read_count, entries, pver, v1, barrier_sense, my_sense>>
        /\ snapshot' = [snapshot EXCEPT ![r] = entries] /\ Move(r, "snapshot", "recheck")
    BY <1>7, Moves DEF CopyEntry
  <2>2. ASSUME NEW q \in Ranks PROVE /\ Took(q)' <=> Took(q)
                                     /\ PastSignal(q)' <=> PastSignal(q)
                                     /\ pc'[q] = "read" <=> pc[q] = "read"
    BY <2>1, <2>2 DEF Move, Took, PastSignal, Inside, Closing
  <2>3. Signalled' <=> Signalled
    BY <2>2, RankNumbers DEF Signalled
  <2>4. Behind' = Behind
    BY <1>0, <2>2, <2>3 DEF ToTake
  <2>5. snapshot'[r] = entries /\ \A q \in Ranks : q # r => snapshot'[q] = snapshot[q] /\ pc'[q] = pc[q]
    BY <2>1 DEF Move, Types, ParamTypes
  <2>. QED BY <2>1, <2>2, <2>3, <2>4, <2>5 DEF Reading, Move
<1>8. ASSUME NEW r \in Ranks, MergeParams(r) PROVE Reading'
  <2>1. UNCHANGED <<attached, param_read_count, entries, pver, v1, snapshot, barrier_sense, my_sense>>
    BY <1>8 DEF MergeParams
  <2>2. Move(r, "recheck", IF r = 0 THEN "sense" ELSE "consume")
    BY <1>8, Moves DEF Move, Reading
  <2>3. PastSignal(r) /\ PastSignal(r)' /\ (r # 0 => (Took(r)' <=> Took(r)))
    BY <2>2 DEF Move, Took, PastSignal, Inside, Closing
  <2>. QED BY <1>a, <2>1, <2>2, <2>3
<1>9. ASSUME NEW r \in Ranks, Consume(r) PROVE Reading'
  <2>1. /\ UNCHANGED <<attached, entries, pver, v1, snapshot, barrier_sense, my_sense>>
        /\ param_read_count' = param_read_count - 1 /\ Move(r, "consume", "sense")
    BY <1>9, Moves DEF Consume
  <2>2. r # 0 /\ PastSignal(r) /\ PastSignal(r)' /\ ~ Took(r) /\ Took(r)'
    BY <2>1, OneRank DEF Move, Took, PastSignal, Inside, Closing
  <2>3. ASSUME NEW q \in Ranks, q # r PROVE /\ Took(q)' <=> Took(q)
                                            /\ PastSignal(q)' <=> PastSignal(q)
                                            /\ pc'[q] = pc[q]
    BY <2>1, <2>3 DEF Move, Took, PastSignal, Inside, Closing
  <2>4. Signalled /\ Signalled'
    BY <2>2, <2>3, RankNumbers DEF Reading, Signalled
  <2>5. Behind' = Behind \ {r} /\ r \in Behind
    BY <1>0, <2>2, <2>3, <2>4 DEF ToTake
  <2>6. Behind \subseteq Ranks
    BY DEF Behind
  <2>7. Cardinality(Behind') = Cardinality(Behind) - 1
    BY <2>5, <2>6, RankSets, FS_RemoveElement
  <2>. QED BY <2>1, <2>2, <2>3, <2>4, <2>7 DEF Reading, Move
<1>10. ASSUME NEW r \in Ranks, LoadSense(r) PROVE Reading'
  <2>1. UNCHANGED <<attached, param_read_count, entries, pver, v1, snapshot, barrier_sense>>
    BY <1>10 DEF LoadSense
  <2>2. Move(r, "sense", "arrive")
    BY <1>10, Moves
  <2>3. \A q \in Ranks : q # r => my_sense'[q] = my_sense[q]
    BY <1>10 DEF LoadSense, Types, LaunchTypes
  <2>4. PastSignal(r) /\ PastSignal(r)' /\ Took(r) /\ Took(r)'
    BY <2>2 DEF Move, Took, PastSignal
  <2>. QED BY <1>a, <2>1, <2>2, <2>3, <2>4
<1>11. ASSUME NEW r \in Ranks, Arrive(r) \/ ResetCount(r) PROVE Reading'
  <2>1. UNCHANGED <<attached, param_read_count, entries, pver, v1, snapshot, barrier_sense, my_sense>>
    BY <1>11 DEF Arrive, ResetCount
  <2>2. PICK from \in {"arrive", "reset"}, to \in {"wait", "reset", "flip"} : Move(r, from, to)
    BY <1>11, Moves
  <2>3. Inside(r)' /\ (from = "reset" => Inside(r))
    BY <2>1, <2>2 DEF Move, Inside, Closing, Together
  <2>4. PastSignal(r) /\ PastSignal(r)' /\ Took(r) /\ Took(r)'
    BY <2>2, <2>3 DEF Move, Took, PastSignal
  <2>. QED BY <1>a, <2>1, <2>2, <2>4
<1>12. ASSUME NEW r \in Ranks, FlipSense(r) PROVE Reading'
  <2>1. UNCHANGED <<attached, param_read_count>> /\ Move(r, "flip", "plan")
    BY <1>12, Moves DEF FlipSense
  <2>2. \A q \in Ranks : q # r => pc'[q] = "wait" /\ Freed(q)'
    BY <1>12, <2>1, FlipTogether DEF Move
  <2>3. \A q \in Ranks : ~ PastSignal(q)' /\ pc'[q] \notin {"snapshot", "recheck", "read"}
    BY <2>1, <2>2 DEF Move, Freed, PastSignal, Inside, Closing
  <2>4. Behind' = {}
    BY <1>0, <2>3, RankNumbers DEF ToTake, Signalled
  <2>5. Arrived = Ranks
    BY <2>1 DEF Move, Together, Closing
  <2>6. Behind = {}
    BY <1>0, <2>5 DEF ToTake, Took, Arrived
  <2>. QED BY <2>1, <2>3, <2>4, <2>6 DEF Reading
<1>13. ASSUME NEW r \in Ranks, SeeSense(r) \/ Launch(r) PROVE Reading'
  <2>1. UNCHANGED <<attached, param_read_count, entries, pver, v1, snapshot, barrier_sense, my_sense>>
    BY <1>13 DEF SeeSense, Launch
  <2>2. PICK from \in {"wait", "plan"}, to \in {"plan", "app"} :
           Move(r, from, to) /\ (from = "wait" => my_sense[r] = barrier_sense)
    BY <1>13, Moves DEF SeeSense
  <2>3. ~ Took(r) /\ ~ Took(r)' /\ ~ PastSignal(r) /\ ~ PastSignal(r)'
    BY <2>2 DEF Move, Took, PastSignal, Inside, Closing
  <2>. QED BY <1>a, <2>1, <2>2, <2>3
<1>14. CASE UNCHANGED <<launcher, params, barrier>>
  <2>1. \A q \in Ranks : PastSignal(q)' <=> PastSignal(q)
    BY <1>14 DEF PastSignal, Inside, Closing
  <2>2. Signalled' <=> Signalled
    BY <1>14, <2>1, RankNumbers DEF Signalled
  <2>3. Behind' = Behind
    BY <1>0, <1>14, <2>2 DEF ToTake, Took, Inside, Closing
  <2>. QED BY <1>14, <2>1, <2>2, <2>3 DEF Reading
<1>15. ASSUME NEW r \in Ranks, CallbackStep(r) PROVE UNCHANGED <<launcher, params, barrier>>
  BY <1>15 DEF CallbackStep, BeginStat, PublishStat
<1>16. UNCHANGED vars => UNCHANGED <<launcher, params, barrier>>
  BY DEF vars
<1>. QED
  BY <1>1, <1>2, <1>3, <1>4, <1>5, <1>6, <1>7, <1>8, <1>9, <1>10, <1>11, <1>12, <1>13, <1>14, <1>15, <1>16
     DEF Next, LaunchStep, ShmRoundBegin

-----------------------------------------------------------------------------
(* The hand-over *)

(* HandOverInv is inductive, so it holds throughout, for every program and *)
(* every interleaving of launches and callbacks.                           *)
LEMMA HandOverInvariant ==
  ASSUME "crashed" \notin Leftovers
  PROVE  Spec => []HandOverInv
<1>1. Init => HandOverInv
  BY TypesInit, ProgressInit, TogetherInit, AttachmentInit, ReadingInit DEF HandOverInv
<1>2. HandOverInv /\ [Next]_vars => HandOverInv'
  <2>. SUFFICES ASSUME HandOverInv, [Next]_vars PROVE HandOverInv'
    OBVIOUS
  <2>1. Types /\ Progress /\ Together /\ Attachment /\ Reading
    BY DEF HandOverInv
  <2>2. Types' /\ Progress'
    BY <2>1, TypesStep, ProgressStep
  <2>3. Together' /\ Attachment'
    BY <2>1, TogetherStep, AttachmentStep
  <2>4. Reading'
    BY <2>1, <2>2, <2>3, ReadingStep
  <2>. QED BY <2>2, <2>3, <2>4 DEF HandOverInv
<1>. QED BY <1>1, <1>2, PTL DEF Spec

(* What the invariant says of the counters and the readers.                *)
LEMMA HandOverSafe ==
  ASSUME HandOverInv
  PROVE  TypeOK /\ NobodyReadsDuringWrite /\ ReadersAccounted
<1>0. Types /\ Progress /\ Together /\ Attachment /\ Reading
  BY DEF HandOverInv
<1>1. param_read_count \in 0..NRanks - 1
  <2>1. CASE attached[0]
    <3>1. Behind \subseteq Ranks \ {0}
      BY DEF Behind
    <3>2. IsFiniteSet(Ranks \ {0}) /\ Cardinality(Ranks \ {0}) = NRanks - 1
      BY RankNumbers, FS_RemoveElement
    <3>3. Cardinality(Behind) <= NRanks - 1 /\ Cardinality(Behind) \in Nat
      BY <3>1, <3>2, FS_Subset, FS_CardinalityType
    <3>. QED BY <1>0, <2>1, <3>3, RankNumbers DEF Reading
  <2>2. CASE ~ attached[0]
    BY <1>0, <2>2, RankNumbers DEF Attachment
  <2>. QED BY <2>1, <2>2
<1>2. barrier_count \in 0..NRanks
  <2>1. Arrived \subseteq Ranks
    BY DEF Arrived
  <2>2. barrier_count = Cardinality(Arrived) \/ barrier_count = 0
    BY <1>0 DEF Together
  <2>3. Cardinality(Arrived) \in Nat /\ Cardinality(Arrived) <= NRanks /\ NRanks \in Nat
    BY <2>1, RankSets, RankNumbers
  <2>. QED BY <2>2, <2>3
<1>3. ASSUME NEW r \in Ranks
      PROVE  /\ slots[r].epoch \in Nat /\ slots[r].coll \in 0..Len(program.keys)
             /\ launched[r] <= begun[r] /\ begun[r] <= Len(program.keys)
  <2>1. Len(program.keys) \in Nat
    BY <1>0, StoreAssumption DEF Types, LaunchTypes
  <2>2. slots[r].epoch \in Nat
    BY <1>0, OneSlot DEF StatSlot
  <2>3. launched[r] <= begun[r] /\ begun[r] <= Len(program.keys)
    BY <1>0, OneRank
  <2>4. slots[r].coll \in Nat /\ slots[r].coll <= launched[r] /\ launched[r] \in Nat /\ begun[r] \in Nat
    BY <1>0, OneRank, OneSlot
  <2>5. slots[r].coll \in 0..Len(program.keys)
    BY <2>1, <2>3, <2>4
  <2>. QED BY <2>2, <2>3, <2>5
<1>4. TypeOK
  BY <1>0, <1>1, <1>2, <1>3 DEF TypeOK, Types, SegmentTypes, LaunchTypes, ParamTypes
<1>5. NobodyReadsDuringWrite
  <2>. SUFFICES ASSUME pc[0] \in {"write", "version"}, NEW r \in Ranks \ {0}
                PROVE  pc[r] \notin {"snapshot", "recheck"}
    BY DEF NobodyReadsDuringWrite
  <2>1. ~ Signalled
    BY DEF Signalled, PastSignal, Inside, Closing
  <2>. QED BY <1>0, <2>1 DEF Reading, PastSignal
<1>6. ReadersAccounted
  BY <1>0 DEF ReadersAccounted, Reading, Behind
<1>. QED BY <1>4, <1>5, <1>6

-----------------------------------------------------------------------------
(* The barrier's promise *)

(* What the promise's rounds are in terms of Passed.                       *)
LEMMA Rounds ==
  ASSUME Types, Progress, Together, NEW q \in Ranks
  PROVE  /\ Passed(q) = Passed(0) /\ Passed(q) \in Int
         /\ Arrivals(q) >= Passed(q)
         /\ Inside(q) \/ Freed(q) => Arrivals(q) = begun[q]
         /\ Inside(q) => begun[q] = Passed(q) + 1
         /\ Freed(q) => begun[q] = Passed(q)
<1>1. Passed(q) = Passed(0)
  BY DEF Together
<1>2. Passed(q) \in Int /\ Arrivals(q) >= Passed(q)
  BY OneRank DEF Passed, Arrivals, Freed, LauncherStates
<1>3. /\ Inside(q) \/ Freed(q) => Arrivals(q) = begun[q]
      /\ Freed(q) => begun[q] = Passed(q)
  BY DEF Inside, Closing, Freed, Arrivals, Passed
<1>4. Inside(q) => begun[q] = Passed(q) + 1
  BY OneRank DEF Inside, Closing, Freed, Passed
<1>. QED BY <1>1, <1>2, <1>3, <1>4

(* BarrierSync keeps the barrier's promise: every step of its loads and    *)
(* stores, and of everything around it, is entering a round, leaving a     *)
(* round everybody has entered, or invisible.                              *)
THEOREM RefinesPromise == "crashed" \notin Leftovers => (Spec => ImplementsPromise)
<1>. SUFFICES ASSUME "crashed" \notin Leftovers PROVE Spec => ImplementsPromise
  OBVIOUS
<1>. DEFINE entered == [r \in Ranks |-> Arrivals(r)]
            left == [r \in Ranks |-> IF pc[r] = "plan" THEN begun[r] ELSE launched[r]]
<1>1. Init => Promise!Init
  BY DEF Init, Promise!Init, Arrivals
<1>2. ASSUME HandOverInv, [Next]_vars PROVE [Promise!Next]_(Promise!vars)
  <2>0. Types /\ Progress /\ Together /\ Attachment
    BY <1>2 DEF HandOverInv
  <2>a. ASSUME NEW r \in Ranks, UNCHANGED <<begun, launched>>,
               \A q \in Ranks : q # r => pc'[q] = pc[q],
               pc[r] \in {"wait", "reset", "flip"} <=> pc'[r] \in {"wait", "reset", "flip"},
               pc[r] # "plan", pc'[r] # "plan"
        PROVE  UNCHANGED <<entered, left>>
    <3>1. \A q \in Ranks : /\ Arrivals(q)' = Arrivals(q)
                           /\ pc'[q] = "plan" <=> pc[q] = "plan"
      BY <2>a DEF Arrivals
    <3>. QED BY <2>a, <3>1
  <2>1. ASSUME NEW r \in Ranks, Arrive(r) PROVE Promise!Enter(r)
    <3>1. /\ UNCHANGED <<begun, launched>>
          /\ Move(r, "arrive", IF barrier_count + 1 = NRanks THEN "reset" ELSE "wait")
      BY <2>0, <2>1, Moves DEF Arrive, progress
    <3>2. launched[r] = begun[r] - 1 /\ begun[r] \in Nat
      BY <2>0, <3>1, OneRank DEF Move
    <3>3. entered' = [entered EXCEPT ![r] = @ + 1]
      <4>1. Arrivals(r)' = Arrivals(r) + 1
        BY <3>1, <3>2 DEF Move, Arrivals
      <4>2. \A q \in Ranks : q # r => Arrivals(q)' = Arrivals(q)
        BY <3>1 DEF Move, Arrivals
      <4>. QED BY <4>1, <4>2
    <3>4. entered[r] = left[r] /\ UNCHANGED left
      BY <3>1 DEF Move, Arrivals
    <3>. QED BY <3>3, <3>4 DEF Promise!Enter
  <2>2. ASSUME NEW r \in Ranks, FlipSense(r) \/ SeeSense(r) PROVE Promise!Leave(r)
    <3>1. /\ UNCHANGED <<begun, launched>>
          /\ Move(r, "flip", "plan") \/ (Move(r, "wait", "plan") /\ Freed(r))
      BY <2>0, <2>2, Moves DEF FlipSense, SeeSense, progress, Move, Freed
    <3>2. launched[r] = begun[r] - 1 /\ begun[r] \in Nat
      BY <2>0, <3>1, OneRank DEF Move
    <3>3. entered[r] = begun[r] /\ left[r] = launched[r] /\ UNCHANGED entered
      BY <3>1 DEF Move, Arrivals
    <3>4. left' = [left EXCEPT ![r] = entered[r]]
      BY <3>1, <3>3 DEF Move
    <3>5. ASSUME NEW q \in Ranks PROVE Arrivals(q) >= begun[r]
      <4>1. CASE pc[r] = "flip"
        <5>1. Inside(q) /\ Inside(r)
          BY <2>0, <4>1 DEF Together, Arrived, Closing, Inside
        <5>. QED BY <2>0, <5>1, Rounds
      <4>2. CASE Freed(r)
        BY <2>0, <4>2, Rounds
      <4>. QED BY <3>1, <4>1, <4>2 DEF Move
    <3>6. \A q \in Ranks : entered[q] >= entered[r]
      BY <3>3, <3>5
    <3>. QED BY <3>2, <3>3, <3>4, <3>6 DEF Promise!Leave
  <2>3. ASSUME NEW r \in Ranks, Begin(r) \/ Launch(r) PROVE UNCHANGED <<entered, left>>
    <3>1. CASE Begin(r)
      <4>1. /\ UNCHANGED launched /\ pc[r] = "app" /\ pc'[r] \in {"attach", "consumed", "read"}
            /\ \A q \in Ranks : q # r => pc'[q] = pc[q] /\ begun'[q] = begun[q]
        BY <2>0, <3>1, Moves DEF Begin, Move, Types, LaunchTypes
      <4>2. \A q \in Ranks : /\ Arrivals(q)' = Arrivals(q)
                             /\ (IF pc'[q] = "plan" THEN begun'[q] ELSE launched'[q])
                                  = (IF pc[q] = "plan" THEN begun[q] ELSE launched[q])
        BY <4>1 DEF Arrivals
      <4>. QED BY <4>2
    <3>2. CASE Launch(r)
      <4>1. /\ UNCHANGED begun /\ pc[r] = "plan" /\ pc'[r] = "app" /\ launched'[r] = launched[r] + 1
            /\ \A q \in Ranks : q # r => pc'[q] = pc[q] /\ launched'[q] = launched[q]
        BY <2>0, <3>2, Moves DEF Launch, Move, Types, LaunchTypes
      <4>2. launched'[r] = begun[r]
        BY <2>0, <4>1, OneRank
      <4>3. \A q \in Ranks : /\ Arrivals(q)' = Arrivals(q)
                             /\ (IF pc'[q] = "plan" THEN begun'[q] ELSE launched'[q])
                                  = (IF pc[q] = "plan" THEN begun[q] ELSE launched[q])
        BY <4>1, <4>2 DEF Arrivals
      <4>. QED BY <4>3
    <3>. QED BY <2>3, <3>1, <3>2
  <2>4. ASSUME NEW r \in Ranks, Attach(r) \/ ReadVersion(r) \/ CopyEntry(r) \/ MergeParams(r) \/ Consume(r)
                                \/ LoadSense(r) \/ ResetCount(r)
        PROVE  UNCHANGED <<entered, left>>
    <3>1. UNCHANGED <<begun, launched>>
      BY <2>4 DEF Attach, ReadVersion, CopyEntry, MergeParams, Consume, LoadSense, ResetCount, progress
    <3>. QED BY <2>0, <2>a, <2>4, <3>1, Moves DEF Move
  <2>5. ASSUME ShmRoundBegin PROVE UNCHANGED <<entered, left>>
    <3>1. UNCHANGED <<begun, launched>>
      BY <2>5 DEF ShmRoundBegin, WaitUntilParamConsumed, AnyCurrentEpoch, AllCurrentEpoch, ClearSlots,
                  AdvanceEpoch, WriteEntry, WriteVersion, SignalParamWritten, progress
    <3>2. PICK from \in WriterStates, to \in WriterStates \cup {"read"} : Move(0, from, to)
      BY <2>0, <2>5, Moves, RankNumbers DEF ShmRoundBegin, WriterStates
    <3>3. /\ pc[0] \in {"wait", "reset", "flip"} <=> pc'[0] \in {"wait", "reset", "flip"}
          /\ pc[0] # "plan" /\ pc'[0] # "plan"
          /\ \A q \in Ranks : q # 0 => pc'[q] = pc[q]
      BY <3>2 DEF Move, WriterStates
    <3>4. 0 \in Ranks
      BY RankNumbers
    <3>. QED BY <2>a, <3>1, <3>3, <3>4
  <2>6. ASSUME NEW r \in Ranks, CallbackStep(r) PROVE UNCHANGED <<entered, left>>
    BY <2>6 DEF CallbackStep, BeginStat, PublishStat, launcher, progress, Arrivals
  <2>7. UNCHANGED vars => UNCHANGED <<entered, left>>
    BY DEF vars, launcher, progress, Arrivals
  <2>. QED
    BY <1>2, <2>1, <2>2, <2>3, <2>4, <2>5, <2>6, <2>7
       DEF Next, LaunchStep, Promise!Next, Promise!vars
<1>. QED BY <1>1, <1>2, HandOverInvariant, PTL DEF Spec, ImplementsPromise, Promise!Spec

-----------------------------------------------------------------------------
(* The caches agree *)

(* Taking an entry over twice is taking it over once. *)
LEMMA ApplyTwice ==
  ASSUME NEW e, NEW c \in [Keys -> Values]
  PROVE  Apply(e, Apply(e, c)) = Apply(e, c)
<1>1. CASE e = NoEntry \/ e.key \notin Keys
  BY <1>1 DEF Apply
<1>2. CASE ~ (e = NoEntry \/ e.key \notin Keys)
  <2>1. Apply(e, c) = [c EXCEPT ![e.key] = e.val]
    BY <1>2 DEF Apply
  <2>2. Apply(e, [c EXCEPT ![e.key] = e.val]) = [[c EXCEPT ![e.key] = e.val] EXCEPT ![e.key] = e.val]
    BY <1>2 DEF Apply
  <2>3. [[c EXCEPT ![e.key] = e.val] EXCEPT ![e.key] = e.val] = [c EXCEPT ![e.key] = e.val]
    OBVIOUS
  <2>. QED BY <2>1, <2>2, <2>3
<1>. QED BY <1>1, <1>2

(* While parameters are read rank 0 makes none. *)
LEMMA SignalledNotCalm ==
  ASSUME Types, Signalled
  PROVE  ~ Calm /\ pc[0] # "write" /\ NextEntry = entries
BY DEF Signalled, Calm, PastSignal, Inside, Closing, Freed, NextEntry

(* Who has merged is past the signal. *)
LEMMA MergedSignalled ==
  ASSUME Reading, NEW r \in Ranks, Merged(r)
  PROVE  Signalled
BY DEF Reading, Merged, Signalled, PastSignal

(* At start-up every rank has the same cache, and is outside launch and    *)
(* callback.                                                               *)
LEMMA CachesInit == Init => SameCaches
<1>. SUFFICES ASSUME Init PROVE SameCaches
  OBVIOUS
<1>1. \A r \in Ranks : cache[r] = cache[0] /\ pc[r] = "app"
  BY RankNumbers DEF Init
<1>. QED BY <1>1 DEF SameCaches, Merged, Inside, Closing

(* A step that changes no cache and no entry to come. *)
LEMMA CachesUndisturbed ==
  ASSUME SameCaches, UNCHANGED cache, NextEntry' = NextEntry, Calm' => Calm,
         \A q \in Ranks : (Merged(q)' => Merged(q)) /\ (Planning(q)' => Planning(q))
  PROVE  SameCaches'
<1>1. ASSUME NEW r \in Ranks
      PROVE  /\ Apply(NextEntry, cache[r])' = Apply(NextEntry, cache[0])'
             /\ Merged(r)' => Apply(NextEntry, cache[r])' = cache'[r]
  BY <1>1 DEF SameCaches, Apply
<1>2. Calm' => \A r \in Ranks : cache'[r] = cache'[0]
  BY DEF SameCaches
<1>3. \A r, q \in Ranks : Planning(r)' /\ Planning(q)' => cache'[r] = cache'[q]
  BY DEF SameCaches
<1>. QED BY <1>1, <1>2, <1>3 DEF SameCaches

(* All caches agree and nobody has merged yet. *)
LEMMA CachesEqual ==
  ASSUME \A q \in Ranks : cache'[q] = cache'[0] /\ ~ Merged(q)'
  PROVE  SameCaches'
<1>1. ASSUME NEW r \in Ranks
      PROVE  /\ Apply(NextEntry, cache[r])' = Apply(NextEntry, cache[0])'
             /\ Merged(r)' => Apply(NextEntry, cache[r])' = cache'[r]
  BY <1>1 DEF Apply
<1>. QED BY <1>1 DEF SameCaches

(* MergeParams takes the entry over that rank 0 has written.               *)
LEMMA MergeCaches ==
  ASSUME Types, Progress, Together, Reading, SameCaches, NEW r \in Ranks, MergeParams(r)
  PROVE  SameCaches'
<1>1. /\ Move(r, "recheck", IF r = 0 THEN "sense" ELSE "consume")
      /\ pver = v1[r] /\ snapshot[r] = entries
  BY Moves DEF Move, Reading
<1>2. UNCHANGED <<entries, agg, my_sense, barrier_sense>>
  BY DEF MergeParams, segment, params, barrier
<1>3. Signalled
  BY <1>1 DEF Move, Reading, Signalled, PastSignal
<1>4. Signalled'
  BY <1>1, <1>2, <1>3, RankNumbers DEF Move, Signalled, PastSignal, Inside, Closing
<1>5. ~ Calm' /\ NextEntry = entries /\ NextEntry' = entries
  <2>1. Signalled' => ~ Calm' /\ pc'[0] # "write" /\ NextEntry' = entries'
    BY DEF Signalled, Calm, PastSignal, Inside, Closing, Freed, NextEntry
  <2>. QED BY <1>2, <1>3, <1>4, <2>1, SignalledNotCalm
<1>6. cache'[r] = Apply(entries, cache[r]) /\ \A q \in Ranks : q # r => cache'[q] = cache[q]
  <2>1. cache' = IF entries = NoEntry \/ entries.key \notin Keys THEN cache
                 ELSE [cache EXCEPT ![r][entries.key] = entries.val]
    BY <1>1 DEF MergeParams
  <2>. QED BY <2>1 DEF Apply, Types, ParamTypes
<1>7. \A q \in Ranks : cache[q] \in [Keys -> Values]
  BY DEF Types, ParamTypes
<1>8. ASSUME NEW q \in Ranks PROVE Apply(entries, cache'[q]) = Apply(entries, cache[q])
  BY <1>6, <1>7, ApplyTwice
<1>9. ASSUME NEW q \in Ranks
      PROVE  /\ Apply(entries, cache'[q]) = Apply(entries, cache'[0])
             /\ Merged(q)' => Apply(entries, cache'[q]) = cache'[q]
  <2>1. Apply(entries, cache[q]) = Apply(entries, cache[0])
    BY <1>5 DEF SameCaches
  <2>2. Merged(q)' /\ q # r => Apply(entries, cache[q]) = cache[q]
    BY <1>1, <1>2, <1>5 DEF Move, Merged, Inside, Closing, SameCaches
  <2>. QED BY <1>6, <1>7, <1>8, <2>1, <2>2, ApplyTwice, RankNumbers
<1>10. ASSUME NEW p \in Ranks, NEW q \in Ranks, Planning(p)', Planning(q)' PROVE cache'[p] = cache'[q]
  <2>1. p # r /\ q # r /\ Planning(p) /\ Planning(q)
    BY <1>1, <1>2, <1>10 DEF Move, Planning, Freed
  <2>. QED BY <1>6, <2>1 DEF SameCaches
<1>11. ASSUME NEW q \in Ranks
       PROVE  /\ Apply(NextEntry, cache[q])' = Apply(NextEntry, cache[0])'
              /\ Merged(q)' => Apply(NextEntry, cache[q])' = cache'[q]
  BY <1>5, <1>9 DEF Apply
<1>. QED BY <1>5, <1>10, <1>11 DEF SameCaches

(* The controller's update changes rank 0's cache by what it will publish. *)
LEMMA AdvanceCaches ==
  ASSUME Types, Progress, Together, Reading, SameCaches, Reading', AdvanceEpoch
  PROVE  SameCaches'
<1>1. Move(0, "epoch", "write") /\ UNCHANGED <<entries, agg, my_sense, barrier_sense>>
  BY Moves, RankNumbers DEF AdvanceEpoch, params, barrier
<1>2. ~ Signalled' /\ ~ Calm' /\ ~ Planning(0)'
  BY <1>1 DEF Move, Signalled, PastSignal, Inside, Closing, Calm, Freed, Planning
<1>3. \A q \in Ranks : ~ Merged(q)'
  BY <1>2 DEF Reading, Merged, Signalled, PastSignal
<1>4. agg.key \in Keys /\ \A q \in Ranks : cache[q] = cache[0] /\ cache[q] \in [Keys -> Values]
  BY <1>1 DEF Move, Progress, SameCaches, Calm, Types, ParamTypes
<1>. DEFINE val == [alpha |-> stat_epoch + 1, use_pcie |-> IF agg.key \in SplitKeys THEN agg.ok ELSE cache[0][agg.key].use_pcie]
            next == [key |-> agg.key, val |-> val]
<1>5. val.alpha # 0
  BY DEF Types, SegmentTypes
<1>6. cache' = [cache EXCEPT ![0][agg.key] = val]
  BY DEF AdvanceEpoch
<1>. HIDE DEF val
<1>7. cache'[0] = [cache[0] EXCEPT ![agg.key] = val] /\ \A q \in Ranks : q # 0 => cache'[q] = cache[0]
  BY <1>4, <1>6, RankNumbers DEF Types, ParamTypes
<1>8. NextEntry' = next
  <2>1. cache'[0][agg.key] = val
    BY <1>4, <1>7, RankNumbers
  <2>2. NextEntry' = [key |-> agg.key, val |-> cache'[0][agg.key]]
    BY <1>1 DEF Move, NextEntry
  <2>. QED BY <2>1, <2>2
<1>9. next # NoEntry /\ next.key \in Keys
  BY <1>4, <1>5 DEF NoEntry, Default
<1>10. Apply(next, cache[0]) = cache'[0]
  BY <1>7, <1>9 DEF Apply
<1>11. Apply(next, cache'[0]) = cache'[0]
  BY <1>4, <1>10, ApplyTwice, RankNumbers
<1>12. ASSUME NEW q \in Ranks PROVE Apply(NextEntry, cache[q])' = Apply(NextEntry, cache[0])'
  <2>1. Apply(next, cache'[q]) = Apply(next, cache'[0])
    BY <1>7, <1>10, <1>11
  <2>. QED BY <1>8, <2>1 DEF Apply
<1>13. ASSUME NEW p \in Ranks, NEW q \in Ranks, Planning(p)', Planning(q)' PROVE cache'[p] = cache'[q]
  BY <1>2, <1>7, <1>13
<1>. QED BY <1>2, <1>3, <1>12, <1>13 DEF SameCaches

(* Every step keeps the caches in agreement. *)
LEMMA CachesStep ==
  ASSUME Types, Progress, Together, Attachment, Reading, SameCaches, Together', Reading', [Next]_vars
  PROVE  SameCaches'
<1>. USE DEF segment, stats, params, barrier, progress, reading, callbacks, launcher
<1>a. ASSUME NEW r \in Ranks, NEW from, NEW to, Move(r, from, to), UNCHANGED <<cache, barrier_sense>>,
             NextEntry' = NextEntry, \A q \in Ranks : q # r => my_sense'[q] = my_sense[q],
             Merged(r)' => Merged(r), Planning(r)' => Planning(r), r = 0 => (Calm' => Calm)
      PROVE  SameCaches'
  <2>1. ASSUME NEW q \in Ranks PROVE (Merged(q)' => Merged(q)) /\ (Planning(q)' => Planning(q))
    BY <1>a, <2>1 DEF Move, Merged, Planning, Inside, Closing, Freed
  <2>2. Calm' => Calm
    BY <1>a, RankNumbers DEF Move, Calm, Freed
  <2>. QED BY <1>a, <2>1, <2>2, CachesUndisturbed
<1>b. ASSUME NEW r \in Ranks, NEW from, NEW to, Move(r, from, to), UNCHANGED <<entries, agg, cache>>,
             r = 0 => from # "write" /\ to # "write"
      PROVE  NextEntry' = NextEntry
  BY <1>b, RankNumbers DEF Move, NextEntry
<1>1. ASSUME NEW r \in Ranks, Begin(r) PROVE SameCaches'
  <2>1. /\ UNCHANGED <<entries, agg, cache, barrier_sense, my_sense>>
        /\ Move(r, "app", IF ~ attached[r] THEN "attach" ELSE IF r = 0 THEN "consumed" ELSE "read")
    BY <1>1, Moves DEF Begin
  <2>2. NextEntry' = NextEntry
    BY <1>b, <2>1
  <2>3. ~ Merged(r)' /\ ~ Planning(r)' /\ (r = 0 => Calm)
    BY <2>1 DEF Move, Merged, Planning, Inside, Closing, Freed, Calm
  <2>. QED BY <1>a, <2>1, <2>2, <2>3
<1>2. ASSUME NEW r \in Ranks, Attach(r) PROVE SameCaches'
  <2>1. /\ UNCHANGED <<agg, cache, my_sense>>
        /\ Move(r, "attach", IF r = 0 THEN "consumed" ELSE "read")
    BY <1>2, Moves DEF Attach
  <2>2. CASE magic /\ r # 0
    <3>1. UNCHANGED <<entries, barrier_sense>>
      BY <1>2, <2>2 DEF Attach
    <3>2. NextEntry' = NextEntry
      BY <1>b, <2>1, <2>2, <3>1
    <3>3. ~ Merged(r)' /\ ~ Planning(r)'
      BY <2>1, <2>2 DEF Move, Merged, Planning, Inside, Closing, Freed
    <3>. QED BY <1>a, <2>1, <2>2, <3>1, <3>2, <3>3
  <2>3. CASE ~ (magic /\ r # 0)
    <3>1. ~ attached[0]
      BY <2>1, <2>3, RankNumbers DEF Attachment, RankAttached, Move
    <3>2. \A q \in Ranks : cache'[q] = cache'[0] /\ pc'[q] \in {"app", "attach", "read", "consumed"}
      BY <2>1, <3>1 DEF Attachment, Move
    <3>3. \A q \in Ranks : ~ Merged(q)'
      BY <3>2 DEF Merged, Inside, Closing
    <3>. QED BY <3>2, <3>3, CachesEqual
  <2>. QED BY <2>2, <2>3
<1>3. CASE WaitUntilParamConsumed \/ AnyCurrentEpoch \/ ClearSlots \/ WriteVersion \/ SignalParamWritten
  <2>1. UNCHANGED <<entries, agg, cache, barrier_sense, my_sense>>
    BY <1>3 DEF WaitUntilParamConsumed, AnyCurrentEpoch, ClearSlots, WriteVersion, SignalParamWritten
  <2>2. PICK from \in {"consumed", "any", "clear", "version", "signal"},
             to \in {"any", "all", "signal", "epoch", "read"} :
           Move(0, from, to) /\ (from \in {"version", "signal"} => to \in {"signal", "read"})
    BY <1>3, Moves, RankNumbers
  <2>3. NextEntry' = NextEntry
    BY <1>b, <2>1, <2>2, RankNumbers
  <2>4. ~ Merged(0)' /\ ~ Planning(0)' /\ (Calm' => Calm)
    BY <2>2 DEF Move, Merged, Planning, Inside, Closing, Freed, Calm
  <2>. QED BY <1>a, <2>1, <2>2, <2>3, <2>4, RankNumbers
<1>4. CASE AllCurrentEpoch
  <2>1. UNCHANGED <<entries, cache, barrier_sense, my_sense>> /\ Move(0, "all", "clear")
    BY <1>4, Moves, RankNumbers DEF AllCurrentEpoch
  <2>2. NextEntry' = NextEntry
    BY <2>1 DEF Move, NextEntry
  <2>3. ~ Merged(0)' /\ ~ Planning(0)' /\ Calm
    BY <2>1 DEF Move, Merged, Planning, Inside, Closing, Freed, Calm
  <2>. QED BY <1>a, <2>1, <2>2, <2>3, RankNumbers
<1>5. CASE AdvanceEpoch
  BY <1>5, AdvanceCaches
<1>6. CASE WriteEntry
  <2>1. UNCHANGED <<agg, cache, barrier_sense, my_sense>> /\ Move(0, "write", "version")
    BY <1>6, Moves, RankNumbers DEF WriteEntry
  <2>2. NextEntry' = NextEntry
    BY <1>6, <2>1 DEF Move, NextEntry, WriteEntry
  <2>3. ~ Merged(0)' /\ ~ Planning(0)' /\ ~ Calm'
    BY <2>1 DEF Move, Merged, Planning, Inside, Closing, Freed, Calm
  <2>. QED BY <1>a, <2>1, <2>2, <2>3, RankNumbers
<1>7. ASSUME NEW r \in Ranks, ReadVersion(r) \/ CopyEntry(r) \/ Consume(r) \/ LoadSense(r) PROVE SameCaches'
  <2>1. UNCHANGED <<entries, agg, cache, barrier_sense>> /\ \A q \in Ranks : q # r => my_sense'[q] = my_sense[q]
    BY <1>7 DEF ReadVersion, CopyEntry, Consume, LoadSense, Types, LaunchTypes
  <2>2. PICK from \in {"read", "snapshot", "consume", "sense"}, to \in {"snapshot", "recheck", "sense", "arrive"} :
           Move(r, from, to) /\ (from \in {"read", "snapshot"} => to \in {"snapshot", "recheck"})
    BY <1>7, Moves
  <2>3. NextEntry' = NextEntry
    BY <1>b, <2>1, <2>2
  <2>4. (Merged(r)' => Merged(r)) /\ ~ Planning(r)' /\ (r = 0 => ~ Calm')
    BY <2>2 DEF Move, Merged, Planning, Inside, Closing, Freed, Calm
  <2>. QED BY <1>a, <2>1, <2>2, <2>3, <2>4
<1>8. ASSUME NEW r \in Ranks, MergeParams(r) PROVE SameCaches'
  BY <1>8, MergeCaches
<1>9. ASSUME NEW r \in Ranks, Arrive(r) \/ ResetCount(r) PROVE SameCaches'
  <2>1. UNCHANGED <<entries, agg, cache, barrier_sense, my_sense>>
    BY <1>9 DEF Arrive, ResetCount
  <2>2. PICK from \in {"arrive", "reset"}, to \in {"wait", "reset", "flip"} :
           Move(r, from, to) /\ (from = "arrive" => my_sense[r] # barrier_sense) /\ (from = "reset" => to = "flip")
    BY <1>9, Moves DEF Move, Together
  <2>3. NextEntry' = NextEntry
    BY <1>b, <2>1, <2>2
  <2>4. Merged(r) /\ ~ Planning(r)' /\ (r = 0 => ~ Calm')
    BY <2>1, <2>2 DEF Move, Merged, Planning, Inside, Closing, Freed, Calm
  <2>. QED BY <1>a, <2>1, <2>2, <2>3, <2>4
<1>10. ASSUME NEW r \in Ranks, FlipSense(r) PROVE SameCaches'
  <2>1. UNCHANGED cache /\ Move(r, "flip", "plan")
    BY <1>10, Moves DEF FlipSense
  <2>2. Arrived = Ranks
    BY <2>1 DEF Move, Together, Closing
  <2>3. \A q \in Ranks : cache[q] = cache[0]
    BY <2>2, RankNumbers DEF SameCaches, Merged, Arrived
  <2>4. \A q \in Ranks : IF q = r THEN pc'[q] = "plan" ELSE pc'[q] = "wait" /\ Freed(q)'
    BY <1>10, <2>1, FlipTogether DEF Move
  <2>5. \A q \in Ranks : ~ Merged(q)'
    BY <2>4 DEF Merged, Inside, Closing, Freed
  <2>. QED BY <2>1, <2>3, <2>5, CachesEqual
<1>11. ASSUME NEW r \in Ranks, SeeSense(r) \/ Launch(r) PROVE SameCaches'
  <2>1. UNCHANGED <<entries, agg, cache, barrier_sense, my_sense>>
    BY <1>11 DEF SeeSense, Launch
  <2>2. PICK from \in {"wait", "plan"}, to \in {"plan", "app"} :
           Move(r, from, to) /\ (from = "wait" => my_sense[r] = barrier_sense)
    BY <1>11, Moves DEF SeeSense
  <2>3. NextEntry' = NextEntry
    BY <1>b, <2>1, <2>2
  <2>4. ~ Merged(r)' /\ Planning(r) /\ (r = 0 => Calm)
    BY <2>2 DEF Move, Merged, Planning, Inside, Closing, Freed, Calm
  <2>. QED BY <1>a, <2>1, <2>2, <2>3, <2>4
<1>12. CASE UNCHANGED <<launcher, params, barrier>>
  <2>1. NextEntry' = NextEntry /\ (Calm' => Calm)
    BY <1>12 DEF NextEntry, Calm, Freed
  <2>2. \A q \in Ranks : (Merged(q)' => Merged(q)) /\ (Planning(q)' => Planning(q))
    BY <1>12 DEF Merged, Planning, Inside, Closing, Freed
  <2>. QED BY <1>12, <2>1, <2>2, CachesUndisturbed
<1>13. ASSUME NEW r \in Ranks, CallbackStep(r) PROVE UNCHANGED <<launcher, params, barrier>>
  BY <1>13 DEF CallbackStep, BeginStat, PublishStat
<1>14. UNCHANGED vars => UNCHANGED <<launcher, params, barrier>>
  BY DEF vars
<1>. QED
  BY <1>1, <1>2, <1>3, <1>4, <1>5, <1>6, <1>7, <1>8, <1>9, <1>10, <1>11, <1>12, <1>13, <1>14
     DEF Next, LaunchStep, ShmRoundBegin

-----------------------------------------------------------------------------
(* The plans agree *)

(* At start-up no rank has planned a collective. *)
LEMMA PlansInit == Init => SamePlans
<1>. SUFFICES ASSUME Init PROVE SamePlans
  OBVIOUS
<1>1. \A r \in Ranks : ~ Planning(r) /\ used[r] = <<>>
  BY DEF Init, Planning, Freed
<1>. QED BY <1>1 DEF SamePlans, SamePlan

(* A step that makes no plan and starts no planning. *)
LEMMA PlansUndisturbed ==
  ASSUME SamePlans, UNCHANGED <<used, launched, program>>,
         \A q \in Ranks : Planning(q)' => Planning(q) /\ begun'[q] = begun[q] /\ cache'[q] = cache[q]
  PROVE  SamePlans'
<1>1. ASSUME NEW r \in Ranks, NEW q \in Ranks, Planning(r)', launched'[q] >= begun'[r]
      PROVE  used'[q][begun'[r]] = PlanOf(r, begun[r])'
  <2>1. used[q][begun[r]] = PlanOf(r, begun[r])
    BY <1>1 DEF SamePlans
  <2>2. PlanOf(r, begun[r])' = PlanOf(r, begun[r])
    BY <1>1 DEF PlanOf, KeyOf
  <2>. QED BY <1>1, <2>1, <2>2
<1>2. SamePlan'
  BY DEF SamePlans, SamePlan
<1>. QED BY <1>1, <1>2 DEF SamePlans

(* A launch makes the plan that every rank makes, or has made, of that     *)
(* collective: the caches of all who plan agree.                           *)
LEMMA LaunchPlans ==
  ASSUME Types, Progress, Together, SameCaches, SamePlans, NEW r \in Ranks, Launch(r)
  PROVE  SamePlans'
<1>. DEFINE c == begun[r]
            plan == PlanOf(r, c)
<1>1. /\ Move(r, "plan", "app") /\ UNCHANGED <<begun, cache, program, my_sense, barrier_sense>>
      /\ launched' = [launched EXCEPT ![r] = @ + 1]
  BY Moves DEF Launch, reading, segment, barrier
<1>2. /\ used' = [used EXCEPT ![r] = Append(@, plan)] /\ plan \in Plan
  BY LaunchRecords
<1>3. c \in Nat /\ c >= 1 /\ launched[r] = c - 1 /\ used[r] \in Seq(Plan) /\ Len(used[r]) = c - 1 /\ c = Passed(r)
  BY <1>1, OneRank DEF Move, Passed
<1>. HIDE DEF plan
<1>4. /\ Len(used'[r]) = c /\ launched'[r] = c /\ used'[r][c] = plan
      /\ \A k \in 1..c - 1 : used'[r][k] = used[r][k]
      /\ \A q \in Ranks : q # r => used'[q] = used[q] /\ launched'[q] = launched[q]
  <2>1. used'[r] = Append(used[r], plan) /\ launched'[r] = launched[r] + 1
    BY <1>1, <1>2 DEF Types, LaunchTypes
  <2>2. \A q \in Ranks : q # r => used'[q] = used[q] /\ launched'[q] = launched[q]
    BY <1>1, <1>2 DEF Types, LaunchTypes
  <2>. QED BY <1>2, <1>3, <2>1, <2>2, Pushed
<1>5. /\ ~ Planning(r)' /\ Planning(r)
      /\ \A q \in Ranks : q # r => (Planning(q)' <=> Planning(q))
  BY <1>1 DEF Move, Planning, Freed
<1>6. ASSUME NEW p \in Ranks, NEW q \in Ranks, Planning(p)', launched'[q] >= begun'[p]
      PROVE  used'[q][begun'[p]] = PlanOf(p, begun[p])'
  <2>1. p # r /\ Planning(p) /\ begun'[p] = begun[p] /\ begun[p] \in Nat /\ PlanOf(p, begun[p])' = PlanOf(p, begun[p])
    <3>1. PlanOf(p, begun[p])' = PlanOf(p, begun[p])
      BY <1>1 DEF PlanOf, KeyOf
    <3>. QED BY <1>1, <1>5, <1>6, <3>1, OneRank
  <2>2. begun[p] = c /\ begun[p] >= 1
    <3>1. begun[p] = Passed(p)
      BY <2>1 DEF Planning, Passed
    <3>. QED BY <1>3, <3>1 DEF Together
  <2>3. CASE q # r
    BY <1>4, <1>6, <2>1, <2>3 DEF SamePlans
  <2>4. CASE q = r
    <3>1. used'[q][begun'[p]] = plan
      BY <1>4, <2>1, <2>2, <2>4
    <3>2. cache[r] = cache[p]
      BY <1>5, <2>1 DEF SameCaches
    <3>3. PlanOf(p, begun[p]) = plan
      BY <2>2, <3>2 DEF PlanOf, plan
    <3>. QED BY <2>1, <3>1, <3>3
  <2>. QED BY <2>3, <2>4
<1>7. ASSUME NEW q \in Ranks, q # r, NEW k \in 1..c, k <= Len(used[q])
      PROVE  used'[r][k] = used'[q][k]
  <2>1. used'[q] = used[q] /\ Len(used[q]) = launched[q] /\ Len(used[q]) \in Nat
    BY <1>4, <1>7, OneRank
  <2>2. CASE k = c
    <3>1. used[q][c] = plan
      BY <1>3, <1>5, <1>7, <2>1, <2>2 DEF SamePlans, plan
    <3>. QED BY <1>4, <2>1, <2>2, <3>1
  <2>3. CASE k # c
    <3>1. k \in 1..Len(used[r]) /\ k \in 1..c - 1
      BY <1>3, <2>3
    <3>2. used[r][k] = used[q][k]
      BY <1>7, <3>1 DEF SamePlans, SamePlan
    <3>. QED BY <1>4, <2>1, <3>1, <3>2
  <2>. QED BY <2>2, <2>3
<1>8. ASSUME NEW p \in Ranks, NEW q \in Ranks, NEW k \in 1..Len(used'[p]), k <= Len(used'[q])
      PROVE  used'[p][k] = used'[q][k]
  <2>1. CASE p = r /\ q = r
    BY <2>1
  <2>2. CASE p = r /\ q # r
    BY <1>3, <1>4, <1>7, <1>8, <2>2
  <2>3. CASE p # r /\ q = r
    <3>1. k \in 1..c /\ k <= Len(used[p])
      <4>1. Len(used[p]) \in Nat
        BY OneRank
      <4>. QED BY <1>3, <1>4, <1>8, <2>3, <4>1
    <3>. QED BY <1>7, <2>3, <3>1
  <2>4. CASE p # r /\ q # r
    BY <1>4, <1>8, <2>4 DEF SamePlans, SamePlan
  <2>. QED BY <2>1, <2>2, <2>3, <2>4
<1>. QED BY <1>6, <1>8 DEF SamePlans, SamePlan

(* When the barrier lets everybody through nobody has launched the         *)
(* collective that all begin to plan.                                      *)
LEMMA FlipPlans ==
  ASSUME Types, Progress, Together, SamePlans, NEW r \in Ranks, FlipSense(r)
  PROVE  SamePlans'
<1>1. UNCHANGED <<used, launched, begun, program>> /\ Move(r, "flip", "plan")
  BY Moves DEF FlipSense, progress
<1>2. Arrived = Ranks
  BY <1>1 DEF Move, Together, Closing
<1>3. ASSUME NEW p \in Ranks, NEW q \in Ranks PROVE ~ (launched[q] >= begun[p])
  <2>1. Inside(p) /\ Inside(q)
    BY <1>2 DEF Arrived
  <2>2. begun[p] = Passed(0) + 1 /\ begun[q] = Passed(0) + 1 /\ Passed(0) \in Int
    BY <2>1, Rounds
  <2>3. launched[q] = begun[q] - 1
    BY <2>1, OneRank DEF Inside, Closing
  <2>. QED BY <2>2, <2>3
<1>4. SamePlan'
  BY <1>1 DEF SamePlans, SamePlan
<1>5. \A p, q \in Ranks : ~ (launched'[q] >= begun'[p])
  BY <1>1, <1>3
<1>. QED BY <1>4, <1>5 DEF SamePlans

(* Every step keeps the plans the same. *)
LEMMA PlansStep ==
  ASSUME Types, Progress, Together, Attachment, SameCaches, SamePlans, [Next]_vars
  PROVE  SamePlans'
<1>. USE DEF segment, stats, params, barrier, progress, reading, callbacks, launcher
<1>1. ASSUME NEW r \in Ranks, Begin(r) PROVE SamePlans'
  <2>1. /\ UNCHANGED <<used, launched, program, cache, my_sense, barrier_sense>>
        /\ Move(r, "app", IF ~ attached[r] THEN "attach" ELSE IF r = 0 THEN "consumed" ELSE "read")
        /\ \A q \in Ranks : q # r => begun'[q] = begun[q]
    BY <1>1, Moves DEF Begin, Types, LaunchTypes
  <2>2. ASSUME NEW q \in Ranks, Planning(q)'
        PROVE  Planning(q) /\ begun'[q] = begun[q] /\ cache'[q] = cache[q]
    BY <2>1, <2>2 DEF Move, Planning, Freed
  <2>. QED BY <2>1, <2>2, PlansUndisturbed
<1>2. ASSUME NEW r \in Ranks, Attach(r) PROVE SamePlans'
  <2>1. /\ UNCHANGED <<used, launched, program, begun, cache, my_sense>>
        /\ Move(r, "attach", IF r = 0 THEN "consumed" ELSE "read")
    BY <1>2, Moves DEF Attach
  <2>2. ASSUME NEW q \in Ranks, Planning(q)' PROVE Planning(q)
    <3>1. CASE magic /\ r # 0
      BY <1>2, <2>1, <2>2, <3>1 DEF Attach, Move, Planning, Freed
    <3>2. CASE ~ (magic /\ r # 0)
      <4>1. ~ attached[0]
        BY <2>1, <3>2, RankNumbers DEF Attachment, RankAttached, Move
      <4>2. pc'[q] \in {"app", "attach", "read", "consumed"}
        BY <2>1, <4>1 DEF Attachment, Move
      <4>. QED BY <2>2, <4>2 DEF Planning, Freed
    <3>. QED BY <3>1, <3>2
  <2>. QED BY <2>1, <2>2, PlansUndisturbed
<1>a. ASSUME NEW r \in Ranks, NEW from, NEW to, Move(r, from, to),
             UNCHANGED <<used, launched, program, begun, barrier_sense>>,
             \A q \in Ranks : q # r => my_sense'[q] = my_sense[q] /\ cache'[q] = cache[q],
             Planning(r)' => Planning(r) /\ UNCHANGED cache
      PROVE  SamePlans'
  <2>1. ASSUME NEW q \in Ranks, Planning(q)'
        PROVE  Planning(q) /\ begun'[q] = begun[q] /\ cache'[q] = cache[q]
    BY <1>a, <2>1 DEF Move, Planning, Freed
  <2>. QED BY <1>a, <2>1, PlansUndisturbed
<1>3. CASE ShmRoundBegin
  <2>1. UNCHANGED <<used, launched, program, begun, barrier_sense, my_sense>>
    BY <1>3 DEF ShmRoundBegin, WaitUntilParamConsumed, AnyCurrentEpoch, AllCurrentEpoch, ClearSlots,
                AdvanceEpoch, WriteEntry, WriteVersion, SignalParamWritten
  <2>2. \A q \in Ranks : q # 0 => cache'[q] = cache[q]
    BY <1>3, RankNumbers
       DEF ShmRoundBegin, WaitUntilParamConsumed, AnyCurrentEpoch, AllCurrentEpoch, ClearSlots,
           AdvanceEpoch, WriteEntry, WriteVersion, SignalParamWritten, Types, ParamTypes
  <2>3. PICK from \in WriterStates, to \in WriterStates \cup {"read"} : Move(0, from, to)
    BY <1>3, Moves, RankNumbers DEF ShmRoundBegin, WriterStates
  <2>4. ~ Planning(0)'
    BY <2>3 DEF Move, Planning, Freed, WriterStates
  <2>. QED BY <1>a, <2>1, <2>2, <2>3, <2>4, RankNumbers
<1>4. ASSUME NEW r \in Ranks, ReadVersion(r) \/ CopyEntry(r) \/ MergeParams(r) \/ Consume(r) \/ LoadSense(r)
      PROVE  SamePlans'
  <2>1. UNCHANGED <<used, launched, program, begun, barrier_sense>>
    BY <1>4 DEF ReadVersion, CopyEntry, MergeParams, Consume, LoadSense
  <2>2. \A q \in Ranks : q # r => my_sense'[q] = my_sense[q] /\ cache'[q] = cache[q]
    BY <1>4 DEF ReadVersion, CopyEntry, MergeParams, Consume, LoadSense, Types, LaunchTypes, ParamTypes
  <2>3. PICK from \in {"read", "snapshot", "recheck", "consume", "sense"},
             to \in {"read", "snapshot", "recheck", "consume", "sense", "arrive"} : Move(r, from, to)
    BY <1>4, Moves
  <2>4. ~ Planning(r)'
    BY <2>3 DEF Move, Planning, Freed
  <2>. QED BY <1>a, <2>1, <2>2, <2>3, <2>4
<1>5. ASSUME NEW r \in Ranks, Arrive(r) \/ ResetCount(r) \/ SeeSense(r) PROVE SamePlans'
  <2>1. UNCHANGED <<used, launched, program, begun, barrier_sense, my_sense, cache>>
    BY <1>5 DEF Arrive, ResetCount, SeeSense
  <2>2. PICK from \in {"arrive", "reset", "wait"}, to \in {"wait", "reset", "flip", "plan"} :
           /\ Move(r, from, to)
           /\ from = "arrive" => my_sense[r] # barrier_sense
           /\ from = "reset" => to = "flip"
           /\ from = "wait" => my_sense[r] = barrier_sense
           /\ to = "plan" => from = "wait"
    BY <1>5, Moves DEF Move, Together, SeeSense
  <2>3. Planning(r)' => Planning(r)
    BY <2>1, <2>2 DEF Move, Planning, Freed
  <2>. QED BY <1>a, <2>1, <2>2, <2>3
<1>6. ASSUME NEW r \in Ranks, CallbackStep(r) PROVE UNCHANGED <<launcher, barrier>>
  BY <1>6 DEF CallbackStep, BeginStat, PublishStat
<1>7. UNCHANGED vars => UNCHANGED <<launcher, barrier>>
  BY DEF vars
<1>8. CASE UNCHANGED <<launcher, barrier>>
  <2>1. \A q \in Ranks : Planning(q)' => Planning(q)
    BY <1>8 DEF Planning, Freed
  <2>. QED BY <1>8, <2>1, PlansUndisturbed
<1>. QED
  BY <1>1, <1>2, <1>3, <1>4, <1>5, <1>6, <1>7, <1>8, LaunchPlans, FlipPlans DEF Next, LaunchStep

(* The invariant without the measurements is inductive.                    *)
LEMMA AgreementInvariant ==
  ASSUME "crashed" \notin Leftovers
  PROVE  Spec => [](HandOverInv /\ SameCaches /\ SamePlans)
<1>1. Init => SameCaches /\ SamePlans
  BY CachesInit, PlansInit
<1>2. HandOverInv /\ SameCaches /\ SamePlans /\ [Next]_vars /\ HandOverInv' => SameCaches' /\ SamePlans'
  BY CachesStep, PlansStep DEF HandOverInv
<1>. QED BY <1>1, <1>2, HandOverInvariant, PTL DEF Spec

(* All ranks split a collective the same way, whatever was measured and    *)
(* however launches, host callbacks and barriers interleave: the plans of  *)
(* PrepareCollectiveLaunch need no agreement of their own.                 *)
THEOREM PlansAgree == "crashed" \notin Leftovers => (Spec => []SamePlan)
<1>. SUFFICES ASSUME "crashed" \notin Leftovers PROVE Spec => []SamePlan
  OBVIOUS
<1>1. SamePlans => SamePlan
  BY DEF SamePlans
<1>. QED BY <1>1, AgreementInvariant, PTL


-----------------------------------------------------------------------------
(* One measurement *)

(* Rank 0 has launched no more than the barriers it was let through, and   *)
(* exactly as many outside of the hand-over (PrepareCollectiveLaunch).     *)
LEMMA LaunchedPassed ==
  ASSUME Types, Progress, Together
  PROVE  /\ launched[0] \in Nat /\ launched[0] <= Passed(0) /\ Passed(0) \in Int
         /\ pc[0] \in {"app", "consumed", "any", "all", "clear"} => launched[0] = Passed(0)
         /\ \A r \in Ranks : /\ pc[r] = "app" => launched[r] = Passed(0)
                             /\ pc[r] = "plan" => launched[r] + 1 = Passed(0)
<1>1. ASSUME NEW r \in Ranks
      PROVE  /\ launched[r] \in Nat /\ launched[r] <= Passed(r) /\ Passed(r) \in Int
             /\ pc[r] \in {"app", "consumed", "any", "all", "clear"} => launched[r] = Passed(r)
             /\ pc[r] = "plan" => launched[r] + 1 = Passed(r)
  BY OneRank DEF Passed, Freed
<1>. QED BY <1>1, RankNumbers DEF Together

(* Rank 0 is still in front of its aggregation while a measurement of its  *)
(* own last collective is under way anywhere: with the same plan it        *)
(* measures that collective, too, and AllCurrentEpoch waits for everybody. *)
LEMMA Awaited ==
  ASSUME SamePlan, Types, Progress, Measurements, NEW q \in Ranks,
         Busy(q), launched[q] = launched[0], launched[0] >= 1
  PROVE  pc[0] \in {"app", "consumed", "any", "all"}
<1>1. IsMeasured(q, launched[q])
  BY DEF Measurements, MeasuresLast
<1>2. used[0][launched[0]] = used[q][launched[q]]
  BY RankNumbers, OneRank DEF SamePlan
<1>3. IsMeasured(0, launched[0]) /\ Outstanding(q)
  BY <1>1, <1>2 DEF IsMeasured, Outstanding
<1>4. Busy(0) => pc[0] = "app"
  BY RankNumbers DEF Measurements, MeasuresLast
<1>. QED BY <1>3, <1>4, RankNumbers DEF Measurements, AwaitsAll

(* A callback that has begun is of rank 0's last collective.               *)
LEMMA CallbackAwaited ==
  ASSUME SamePlan, Types, Progress, Measurements, NEW q \in Ranks, callback[q] # Idle
  PROVE  pc[0] \in {"app", "consumed", "any", "all"} /\ launched[0] >= 1
<1>1. Busy(q) /\ slots[q].coll = launched[q] /\ launched[0] = launched[q]
  BY DEF Measurements, MeasuresLast, Busy
<1>2. slots[q].coll >= 1
  BY OneSlot
<1>. QED BY <1>1, <1>2, Awaited

(* Whoever is not in the application has no measurement under way.         *)
LEMMA NotBusy == ASSUME Measurements, NEW q \in Ranks, pc[q] # "app" PROVE ~ Busy(q)
BY DEF Measurements, MeasuresLast

(* Steps that touch neither the measurements nor the plans.                *)
LEMMA MeasurementsUndisturbed ==
  ASSUME Measurements, UNCHANGED <<callbacks, slots, stat_epoch, launched, used>>,
         \A q \in Ranks : Busy(q) => pc'[q] = "app",
         \A q \in Ranks : slots[q].valid => pc'[0] \in {"app", "consumed", "any", "all", "clear"},
         pc'[0] = "clear" => \A q \in Ranks : slots[q].valid,
         \A q \in Ranks : AwaitsAll(q)'
  PROVE  Measurements'
<1>1. \A q \in Ranks : /\ (Busy(q)' <=> Busy(q)) /\ (Current(q)' <=> Current(q))
                       /\ (IsMeasured(q, launched[q])' <=> IsMeasured(q, launched[q]))
  BY DEF callbacks, Busy, Current, IsMeasured
<1>2. ASSUME NEW q \in Ranks PROVE MeasuresLast(q)'
  BY <1>1 DEF callbacks, Measurements, MeasuresLast
<1>3. ASSUME NEW q \in Ranks PROVE PublishedLast(q)'
  BY DEF Measurements, PublishedLast
<1>. QED BY <1>2, <1>3 DEF Measurements

(* They leave it open whom rank 0 awaits as long as it does not get on.    *)
LEMMA AwaitsUndisturbed ==
  ASSUME Measurements, UNCHANGED <<callbacks, slots, stat_epoch, launched, used>>,
         pc'[0] = pc[0] \/ pc'[0] \in {"app", "consumed", "any", "all"} \/ ~ Current(0)
  PROVE  \A q \in Ranks : AwaitsAll(q)'
<1>1. /\ \A q \in Ranks : Outstanding(q)' <=> Outstanding(q)
      /\ Busy(0)' <=> Busy(0)
      /\ Current(0)' <=> Current(0)
      /\ IsMeasured(0, launched[0])' <=> IsMeasured(0, launched[0])
  BY DEF callbacks, Busy, Current, IsMeasured, Outstanding
<1>. QED BY <1>1 DEF Measurements, AwaitsAll

(* ReadAllStatsAndAggregate: every decision of rank 0 about the slots.     *)
LEMMA AggregateMeasurements ==
  ASSUME SamePlan, Types, Progress, Measurements,
         WaitUntilParamConsumed \/ AnyCurrentEpoch \/ AllCurrentEpoch \/ ClearSlots \/ AdvanceEpoch
  PROVE  Measurements'
<1>. USE DEF segment, stats, params, barrier, progress, reading, launcher
<1>a. ASSUME NEW from, NEW to, Move(0, from, to), from # "app" PROVE \A q \in Ranks : Busy(q) => pc'[q] = "app"
  BY <1>a, RankNumbers DEF Move, Measurements, MeasuresLast
<1>1. CASE WaitUntilParamConsumed
  <2>1. UNCHANGED <<callbacks, slots, stat_epoch, launched, used>> /\ Move(0, "consumed", "any")
    BY <1>1, Moves, RankNumbers DEF WaitUntilParamConsumed
  <2>2. pc'[0] = "any"
    BY <2>1 DEF Move
  <2>. QED BY <1>a, <2>1, <2>2, AwaitsUndisturbed, MeasurementsUndisturbed
<1>2. CASE AnyCurrentEpoch
  <2>1. UNCHANGED <<callbacks, slots, stat_epoch, launched, used>>
    BY <1>2 DEF AnyCurrentEpoch
  <2>2. PICK to \in {"all", "signal"} : Move(0, "any", to)
    BY <1>2, Moves, RankNumbers
  <2>3. pc'[0] = to /\ (to = "signal" => \A q \in Ranks : ~ Current(q))
    BY <1>2, <2>2, RankNumbers DEF AnyCurrentEpoch, goto, Move, Types, LaunchTypes
  <2>4. \A q \in Ranks : slots[q].valid => Current(q)
    BY DEF Measurements, PublishedLast, Current
  <2>5. \A q \in Ranks : AwaitsAll(q)'
    BY <2>1, <2>3, AwaitsUndisturbed, RankNumbers
  <2>. QED BY <1>a, <2>1, <2>2, <2>3, <2>4, <2>5, MeasurementsUndisturbed
<1>3. CASE AllCurrentEpoch
  <2>1. /\ UNCHANGED <<callbacks, slots, stat_epoch, launched, used>> /\ Move(0, "all", "clear")
        /\ \A q \in Ranks : slots[q].valid
    BY <1>3, Moves, RankNumbers DEF AllCurrentEpoch, Current
  <2>2. ASSUME NEW q \in Ranks PROVE ~ Outstanding(q)
    <3>1. slots[q].coll = launched[0] /\ slots[q].coll <= launched[q] /\ ~ Busy(q)
      BY <2>1, OneSlot DEF Measurements, PublishedLast, MeasuresLast
    <3>. QED BY <3>1, RankNumbers, OneRank DEF Outstanding
  <2>3. \A q \in Ranks : Outstanding(q)' <=> Outstanding(q)
    BY <2>1 DEF callbacks, Outstanding, Busy
  <2>4. pc'[0] = "clear"
    BY <2>1 DEF Move
  <2>5. \A q \in Ranks : AwaitsAll(q)'
    BY <2>2, <2>3 DEF AwaitsAll
  <2>. QED BY <1>a, <2>1, <2>4, <2>5, MeasurementsUndisturbed
<1>4. CASE ClearSlots
  <2>1. /\ UNCHANGED <<callbacks, stat_epoch, launched, used>> /\ Move(0, "clear", "epoch")
        /\ slots' = [r \in Ranks |-> [slots[r] EXCEPT !.valid = FALSE]]
    BY <1>4, Moves, RankNumbers DEF ClearSlots
  <2>2. \A q \in Ranks : ~ slots'[q].valid
    BY <2>1, Zenon DEF Types, SegmentTypes, StatSlot
  <2>3. \A q \in Ranks : ~ Busy(q) /\ ~ Busy(q)'
    BY <2>1 DEF Move, Measurements, MeasuresLast, callbacks, Busy
  <2>4. pc[0] = "clear" /\ pc'[0] = "epoch"
    BY <2>1 DEF Move
  <2>5. ASSUME NEW q \in Ranks PROVE AwaitsAll(q)'
    <3>1. (Outstanding(q)' <=> Outstanding(q)) /\ (IsMeasured(0, launched[0])' <=> IsMeasured(0, launched[0]))
      BY <2>1 DEF callbacks, Outstanding, Busy, IsMeasured
    <3>. QED BY <2>1, <2>3, <2>4, <3>1, RankNumbers DEF Measurements, AwaitsAll
  <2>. QED BY <2>2, <2>3, <2>4, <2>5 DEF Measurements, MeasuresLast, PublishedLast
<1>5. CASE AdvanceEpoch
  <2>1. UNCHANGED <<callbacks, slots, launched, used>> /\ Move(0, "epoch", "write")
    BY <1>5, Moves, RankNumbers DEF AdvanceEpoch
  <2>2. pc[0] = "epoch" /\ pc'[0] = "write"
    BY <2>1 DEF Move
  <2>3. \A q \in Ranks : callback[q] = Idle /\ ~ slots[q].valid
    BY <2>2, CallbackAwaited DEF Measurements, PublishedLast
  <2>4. \A q \in Ranks : /\ Busy(q)' <=> Busy(q)
                         /\ Outstanding(q)' <=> Outstanding(q)
                         /\ IsMeasured(q, launched[q])' <=> IsMeasured(q, launched[q])
    BY <2>1 DEF callbacks, Outstanding, Busy, IsMeasured
  <2>5. ASSUME NEW q \in Ranks PROVE MeasuresLast(q)'
    BY <1>a, <2>1, <2>3, <2>4 DEF callbacks, Measurements, MeasuresLast
  <2>6. ASSUME NEW q \in Ranks PROVE AwaitsAll(q)'
    BY <2>1, <2>2, <2>4, RankNumbers DEF Measurements, AwaitsAll
  <2>. QED BY <2>1, <2>2, <2>3, <2>5, <2>6 DEF Measurements, PublishedLast
<1>. QED BY <1>1, <1>2, <1>3, <1>4, <1>5

(* PrepareCollectiveLaunch makes a plan and may register a measurement: of *)
(* a collective nobody else has published, and rank 0 only when nothing of *)
(* the last one is left.                                                   *)
LEMMA LaunchMeasurements ==
  ASSUME SamePlan, Types, Progress, Together, Measurements, NEW r \in Ranks, Launch(r)
  PROVE  Measurements'
<1>1. /\ UNCHANGED <<slots, stat_epoch, callback>> /\ Move(r, "plan", "app")
      /\ launched' = [launched EXCEPT ![r] = @ + 1]
  BY Moves DEF Launch, segment, stats
<1>2. PICK plan \in Plan, stat \in Measured :
           /\ stat.coll = begun[r]
           /\ used' = [used EXCEPT ![r] = Append(@, plan)]
           /\ pending' = IF plan.split \/ FastOnlyLog
                         THEN [pending EXCEPT ![r] = Append(@, stat)] ELSE pending
  BY LaunchRecords
<1>3. /\ pc[r] = "plan" /\ pc'[r] = "app" /\ ~ Busy(r) /\ pending[r] = <<>> /\ callback[r] = Idle
      /\ begun[r] = launched[r] + 1 /\ launched'[r] = launched[r] + 1 /\ launched[r] \in Nat
      /\ \A q \in Ranks : q # r => launched'[q] = launched[q]
  BY <1>1, NotBusy, OneRank DEF Move, Busy, Types, LaunchTypes
<1>4. \A q \in Ranks : q # r => used'[q] = used[q] /\ pending'[q] = pending[q]
  BY <1>2 DEF Types, LaunchTypes, CallbackTypes
<1>5. used'[r][launched'[r]] = plan
  <2>1. used'[r] = Append(used[r], plan) /\ used[r] \in Seq(Plan) /\ Len(used[r]) = launched[r]
    BY <1>2, OneRank DEF Types, LaunchTypes
  <2>. QED BY <1>3, <2>1, Pushed
<1>6. Busy(r)' <=> (plan.split \/ FastOnlyLog)
  BY <1>1, <1>2, <1>3 DEF Busy, Types, CallbackTypes
<1>7. IsMeasured(r, launched[r])' <=> (plan.split \/ FastOnlyLog)
  BY <1>5 DEF IsMeasured
<1>8. \A q \in Ranks : q # r => /\ Busy(q)' <=> Busy(q)
                                /\ IsMeasured(q, launched[q])' <=> IsMeasured(q, launched[q])
  BY <1>1, <1>3, <1>4 DEF Busy, IsMeasured
<1>9. ~ slots[r].valid
  <2>. SUFFICES ASSUME slots[r].valid PROVE FALSE
    OBVIOUS
  <2>1. slots[r].coll = launched[0] /\ launched[0] = Passed(0)
    BY LaunchedPassed DEF Measurements, PublishedLast
  <2>2. slots[r].coll <= launched[r] /\ launched[r] + 1 = Passed(0)
    BY <1>3, LaunchedPassed, OneSlot
  <2>. QED BY <1>3, <2>1, <2>2
<1>10. r = 0 => \A q \in Ranks : ~ slots[q].valid /\ callback[q] = Idle
  BY <1>3, CallbackAwaited DEF Measurements, PublishedLast
<1>11. MeasuresLast(r)'
  <2>1. (plan.split \/ FastOnlyLog) => pending'[r] = <<stat>>
    <3>1. (plan.split \/ FastOnlyLog) => pending'[r] = Append(pending[r], stat)
      BY <1>2 DEF Types, CallbackTypes
    <3>. QED BY <1>3, <3>1
  <2>2. Len(<<stat>>) = 1 /\ Head(<<stat>>) = stat
    OBVIOUS
  <2>. QED BY <1>1, <1>2, <1>3, <1>6, <1>7, <1>9, <2>1, <2>2 DEF MeasuresLast
<1>12. ASSUME NEW q \in Ranks, q # r PROVE MeasuresLast(q)'
  <2>1. pc'[q] = pc[q] /\ launched'[q] = launched[q]
    BY <1>1, <1>3, <1>12 DEF Move
  <2>2. callback[q] # Idle => launched'[0] = launched[0]
    BY <1>3, <1>10, RankNumbers
  <2>. QED BY <1>1, <1>4, <1>8, <1>12, <2>1, <2>2 DEF Measurements, MeasuresLast
<1>13. ASSUME NEW q \in Ranks PROVE PublishedLast(q)'
  <2>1. r # 0 => launched'[0] = launched[0] /\ pc'[0] = pc[0]
    BY <1>1, <1>3, RankNumbers DEF Move
  <2>. QED BY <1>1, <1>10, <2>1 DEF Measurements, PublishedLast
<1>14. ASSUME NEW q \in Ranks PROVE AwaitsAll(q)'
  <2>1. CASE r = 0
    BY <1>6, <1>7, <2>1 DEF AwaitsAll
  <2>2. CASE r # 0
    <3>1. launched'[0] = launched[0] /\ pc'[0] = pc[0] /\ launched[0] \in Nat
      BY <1>1, <1>3, <2>2, RankNumbers, OneRank DEF Move
    <3>2. /\ IsMeasured(0, launched[0])' <=> IsMeasured(0, launched[0])
          /\ Busy(0)' <=> Busy(0)
          /\ Current(0)' <=> Current(0)
      BY <1>1, <1>8, <2>2, RankNumbers DEF Current
    <3>3. Outstanding(q)' => Outstanding(q)
      <4>1. CASE q = r
        BY <1>3, <3>1, <4>1 DEF Outstanding
      <4>2. CASE q # r
        BY <1>3, <1>8, <3>1, <4>2 DEF Outstanding
      <4>. QED BY <4>1, <4>2
    <3>. QED BY <3>1, <3>2, <3>3, RankNumbers DEF Measurements, AwaitsAll
  <2>. QED BY <2>1, <2>2
<1>15. pc'[0] = "clear" => \A q \in Ranks : slots'[q].valid
  BY <1>1, <1>3, RankNumbers DEF Move, Measurements
<1>. QED BY <1>11, <1>12, <1>13, <1>14, <1>15 DEF Measurements

(* WriteMyStat writes the slot: no rank 0 is looking at it, it is of the   *)
(* collective that rank 0 has launched last.                               *)
LEMMA BeginMeasurement ==
  ASSUME Types, Progress, Together, Measurements, NEW r \in Ranks, BeginStat(r)
  PROVE  Measurements'
<1>. DEFINE stat == Head(pending[r])
<1>1. /\ UNCHANGED <<pc, launched, used, stat_epoch>>
      /\ callback' = [callback EXCEPT ![r] = stat]
      /\ pending' = [pending EXCEPT ![r] = Tail(@)]
      /\ slots' = [slots EXCEPT ![r].epoch = stat_epoch, ![r].coll = stat.coll, ![r].ok = stat.ok]
      /\ pending[r] # <<>> /\ \A q \in Ranks : launched[q] >= stat.coll
  BY DEF BeginStat, launcher, progress
<1>2. /\ Busy(r) /\ pc[r] = "app" /\ IsMeasured(r, launched[r]) /\ ~ slots[r].valid
      /\ Len(pending[r]) = 1 /\ stat.coll = launched[r]
  BY <1>1 DEF Measurements, MeasuresLast, Busy
<1>3. pending[r] \in Seq(Measured) /\ stat \in Measured /\ Tail(pending[r]) = <<>>
  <2>1. pending[r] \in Seq(Measured) /\ pending[r] # <<>>
    BY <1>1 DEF Types, CallbackTypes
  <2>2. Head(pending[r]) \in Measured /\ Len(Tail(pending[r])) = 0 /\ Tail(pending[r]) \in Seq(Measured)
    BY <1>2, <2>1
  <2>. QED BY <2>1, <2>2, EmptySeq
<1>4. launched[0] = launched[r] /\ launched[r] >= 1 /\ stat # Idle
  <2>1. launched[0] = launched[r]
    BY <1>1, <1>2, LaunchedPassed, RankNumbers
  <2>2. pending[r][1].coll \in 1..launched[r] /\ stat = pending[r][1]
    BY <1>1, <1>2, <1>3, OneSlot
  <2>3. stat.coll >= 1
    BY <2>2, OneRank
  <2>. QED BY <1>2, <2>1, <2>3 DEF Idle
<1>. HIDE DEF stat
<1>5. /\ callback'[r] = stat /\ pending'[r] = <<>>
      /\ \A q \in Ranks : q # r => callback'[q] = callback[q] /\ pending'[q] = pending[q]
  BY <1>1, <1>3 DEF Types, CallbackTypes
<1>6. /\ slots'[r].epoch = stat_epoch /\ slots'[r].coll = launched[r] /\ ~ slots'[r].valid
      /\ \A q \in Ranks : q # r => slots'[q] = slots[q]
  BY <1>1, <1>2, Zenon DEF Types, SegmentTypes, StatSlot
<1>7. \A q \in Ranks : /\ Busy(q)' <=> Busy(q)
                       /\ Outstanding(q)' <=> Outstanding(q)
                       /\ IsMeasured(q, launched[q])' <=> IsMeasured(q, launched[q])
  BY <1>1, <1>2, <1>4, <1>5 DEF Busy, Outstanding, IsMeasured
<1>8. ASSUME NEW q \in Ranks PROVE MeasuresLast(q)'
  <2>1. CASE q = r
    BY <1>1, <1>2, <1>4, <1>5, <1>6, <1>7, <2>1 DEF MeasuresLast
  <2>2. CASE q # r
    <3>1. MeasuresLast(q)
      BY DEF Measurements
    <3>2. slots'[q] = slots[q] /\ callback'[q] = callback[q] /\ pending'[q] = pending[q]
      BY <1>5, <1>6, <2>2
    <3>. QED BY <1>1, <1>7, <3>1, <3>2, Zenon DEF MeasuresLast
  <2>. QED BY <2>1, <2>2
<1>9. ASSUME NEW q \in Ranks PROVE PublishedLast(q)'
  BY <1>1, <1>6 DEF Measurements, PublishedLast
<1>10. ASSUME NEW q \in Ranks PROVE AwaitsAll(q)'
  <2>1. CASE r = 0
    BY <1>2, <1>7, <2>1, RankNumbers DEF AwaitsAll
  <2>2. CASE r # 0
    <3>1. Current(0)' <=> Current(0)
      BY <1>1, <1>6, <2>2, RankNumbers DEF Current
    <3>. QED BY <1>1, <1>7, <3>1, RankNumbers DEF Measurements, AwaitsAll
  <2>. QED BY <2>1, <2>2
<1>11. pc'[0] # "clear"
  BY <1>1, <1>2 DEF Measurements
<1>. QED BY <1>8, <1>9, <1>10, <1>11 DEF Measurements

(* WriteMyStat publishes the slot while rank 0 still waits for it.         *)
LEMMA PublishMeasurement ==
  ASSUME SamePlan, Types, Progress, Measurements, NEW r \in Ranks, PublishStat(r)
  PROVE  Measurements'
<1>1. /\ UNCHANGED <<pc, launched, used, stat_epoch, pending>>
      /\ slots' = [slots EXCEPT ![r].valid = TRUE]
      /\ callback' = [callback EXCEPT ![r] = Idle]
      /\ callback[r] # Idle
  BY DEF PublishStat, launcher, progress
<1>2. /\ Busy(r) /\ pc[r] = "app" /\ pending[r] = <<>>
      /\ slots[r].epoch = stat_epoch /\ slots[r].coll = launched[r] /\ launched[0] = launched[r]
  BY <1>1 DEF Measurements, MeasuresLast, Busy
<1>3. pc[0] \in {"app", "consumed", "any", "all"}
  BY <1>1, CallbackAwaited
<1>4. callback'[r] = Idle /\ \A q \in Ranks : q # r => callback'[q] = callback[q]
  BY <1>1 DEF Types, CallbackTypes
<1>5. /\ slots'[r].epoch = slots[r].epoch /\ slots'[r].coll = slots[r].coll /\ slots'[r].valid
      /\ \A q \in Ranks : q # r => slots'[q] = slots[q]
  BY <1>1, Zenon DEF Types, SegmentTypes, StatSlot
<1>6. /\ ~ Busy(r)' /\ ~ Outstanding(r)'
      /\ \A q \in Ranks : /\ q # r => (Busy(q)' <=> Busy(q)) /\ (Outstanding(q)' <=> Outstanding(q))
                          /\ IsMeasured(q, launched[q])' <=> IsMeasured(q, launched[q])
  <2>1. ~ Busy(r)'
    BY <1>1, <1>2, <1>4 DEF Busy
  <2>2. ~ Outstanding(r)'
    BY <1>1, <1>2, <2>1, OneRank DEF Outstanding
  <2>. QED BY <1>1, <1>4, <2>1, <2>2 DEF Busy, Outstanding, IsMeasured
<1>7. ASSUME NEW q \in Ranks PROVE MeasuresLast(q)'
  <2>1. CASE q = r
    BY <1>6, <2>1 DEF MeasuresLast
  <2>2. CASE q # r
    BY <1>1, <1>4, <1>5, <1>6, <2>2 DEF Measurements, MeasuresLast
  <2>. QED BY <2>1, <2>2
<1>8. ASSUME NEW q \in Ranks PROVE PublishedLast(q)'
  <2>1. CASE q = r
    BY <1>1, <1>2, <1>3, <1>5, <2>1 DEF PublishedLast
  <2>2. CASE q # r
    BY <1>1, <1>5, <2>2 DEF Measurements, PublishedLast
  <2>. QED BY <2>1, <2>2
<1>9. ASSUME NEW q \in Ranks PROVE AwaitsAll(q)'
  <2>1. CASE q = r
    BY <1>6, <2>1 DEF AwaitsAll
  <2>2. CASE q # r /\ r = 0
    <3>1. Current(0)' /\ pc'[0] = "app"
      BY <1>1, <1>2, <1>5, <2>2 DEF Current
    <3>. QED BY <3>1 DEF AwaitsAll
  <2>3. CASE q # r /\ r # 0
    <3>1. Current(0)' <=> Current(0)
      BY <1>1, <1>5, <2>3, RankNumbers DEF Current
    <3>. QED BY <1>1, <1>6, <2>3, <3>1, RankNumbers DEF Measurements, AwaitsAll
  <2>. QED BY <2>1, <2>2, <2>3
<1>10. pc'[0] # "clear"
  BY <1>1, <1>3
<1>. QED BY <1>7, <1>8, <1>9, <1>10 DEF Measurements

(* A segment that rank 0 resets holds no measurement, and none is under    *)
(* way; of one in use other ranks change nothing.                          *)
LEMMA AttachMeasurements ==
  ASSUME Types, Progress, Attachment, NEW r \in Ranks, Attach(r), attached'[0],
         attached[0] => Measurements
  PROVE  Measurements'
<1>1. /\ UNCHANGED <<callbacks, launched, used>> /\ Move(r, "attach", IF r = 0 THEN "consumed" ELSE "read")
      /\ attached' = [attached EXCEPT ![r] = TRUE]
  BY Moves DEF Attach
<1>2. CASE r = 0
  <2>1. ~ attached[0]
    BY <1>1, <1>2, RankNumbers DEF Attachment, RankAttached, Move
  <2>2. \A q \in Ranks : launched[q] = 0 /\ ~ Busy(q)
    BY <2>1 DEF Attachment, RankAttached, Busy
  <2>3. \A q \in Ranks : ~ Busy(q)' /\ launched'[q] = 0
    BY <1>1, <2>2 DEF Busy, callbacks
  <2>4. \A q \in Ranks : ~ slots'[q].valid
    <3>1. CASE magic
      <4>1. slots' = [q \in Ranks |-> [slots[q] EXCEPT !.valid = FALSE]]
        BY <1>2, <3>1 DEF Attach
      <4>. QED BY <4>1, Zenon DEF Types, SegmentTypes, StatSlot
    <3>2. CASE ~ magic
      BY <3>2 DEF Attach, NoStat
    <3>. QED BY <3>1, <3>2
  <2>5. pc'[0] = "consumed"
    BY <1>1, <1>2, RankNumbers DEF Move
  <2>. QED BY <2>3, <2>4, <2>5, RankNumbers DEF Measurements, MeasuresLast, PublishedLast, AwaitsAll
<1>3. CASE r # 0
  <2>1. attached[0]
    BY <1>1, <1>3, RankNumbers DEF Types, LaunchTypes
  <2>2. magic
    BY <2>1, RankNumbers DEF Attachment, RankAttached
  <2>3. UNCHANGED <<slots, stat_epoch>>
    BY <1>3, <2>2 DEF Attach, stats
  <2>4. pc'[0] = pc[0] /\ \A q \in Ranks : Busy(q) => pc'[q] = "app"
    BY <1>1, <1>3, <2>1, RankNumbers, NotBusy DEF Move
  <2>5. \A q \in Ranks : AwaitsAll(q)'
    BY <1>1, <2>1, <2>3, <2>4, AwaitsUndisturbed
  <2>. QED BY <1>1, <2>1, <2>3, <2>4, <2>5, MeasurementsUndisturbed DEF Measurements, PublishedLast
<1>. QED BY <1>2, <1>3

(* Rank 0 does not begin a collective before the measurement of its last   *)
(* one is published.                                                       *)
LEMMA BeginLaunchMeasurements ==
  ASSUME Types, Progress, Attachment, Measurements, program.depth = 1, NEW r \in Ranks, Begin(r), attached[0]
  PROVE  Measurements'
<1>1. /\ UNCHANGED <<callbacks, slots, stat_epoch, launched, used>>
      /\ Move(r, "app", IF ~ attached[r] THEN "attach" ELSE IF r = 0 THEN "consumed" ELSE "read")
      /\ InFlight(r) < 1
  BY Moves DEF Begin, segment, stats
<1>2. ~ Busy(r)
  <2>1. pending[r] \in Seq(Measured) /\ Len(pending[r]) \in Nat
    BY DEF Types, CallbackTypes
  <2>2. Len(pending[r]) = 0 /\ callback[r] = Idle
    <3>1. CASE callback[r] = Idle
      BY <1>1, <2>1, <3>1 DEF InFlight
    <3>2. CASE callback[r] # Idle
      <4>1. InFlight(r) = Len(pending[r]) + 1
        BY <3>2 DEF InFlight
      <4>. QED BY <1>1, <2>1, <4>1
    <3>. QED BY <3>1, <3>2
  <2>. QED BY <2>1, <2>2, EmptySeq DEF Busy
<1>3. \A q \in Ranks : Busy(q) => pc'[q] = "app"
  BY <1>1, <1>2 DEF Move, Measurements, MeasuresLast
<1>4. pc'[0] = pc[0] \/ pc'[0] = "consumed"
  BY <1>1, RankNumbers DEF Move
<1>5. \A q \in Ranks : AwaitsAll(q)'
  BY <1>1, <1>4, AwaitsUndisturbed
<1>. QED BY <1>1, <1>3, <1>4, <1>5, MeasurementsUndisturbed DEF Measurements, PublishedLast

(* The program is fixed, and only Attach attaches. *)
LEMMA WhatStays ==
  ASSUME [Next]_vars
  PROVE  program' = program /\ ((\A r \in Ranks : ~ Attach(r)) => attached' = attached)
<1>. USE DEF progress
<1>1. ASSUME NEW r \in Ranks, Begin(r) \/ Launch(r) PROVE UNCHANGED <<program, attached>>
  BY <1>1 DEF Begin, Launch
<1>2. ASSUME NEW r \in Ranks, Attach(r) PROVE program' = program
  BY <1>2 DEF Attach
<1>3. ASSUME ShmRoundBegin PROVE UNCHANGED <<program, attached>>
  <2>1. CASE WaitUntilParamConsumed \/ AnyCurrentEpoch \/ AllCurrentEpoch \/ ClearSlots
    BY <2>1 DEF WaitUntilParamConsumed, AnyCurrentEpoch, AllCurrentEpoch, ClearSlots
  <2>2. CASE AdvanceEpoch \/ WriteEntry \/ WriteVersion \/ SignalParamWritten
    BY <2>2 DEF AdvanceEpoch, WriteEntry, WriteVersion, SignalParamWritten
  <2>. QED BY <1>3, <2>1, <2>2 DEF ShmRoundBegin
<1>4. ASSUME NEW r \in Ranks, ReadVersion(r) \/ CopyEntry(r) \/ MergeParams(r) \/ Consume(r)
      PROVE  UNCHANGED <<program, attached>>
  BY <1>4 DEF ReadVersion, CopyEntry, MergeParams, Consume
<1>5. ASSUME NEW r \in Ranks, LoadSense(r) \/ Arrive(r) \/ ResetCount(r) \/ FlipSense(r) \/ SeeSense(r)
      PROVE  UNCHANGED <<program, attached>>
  BY <1>5 DEF LoadSense, Arrive, ResetCount, FlipSense, SeeSense
<1>6. ASSUME NEW r \in Ranks, CallbackStep(r) PROVE UNCHANGED <<program, attached>>
  BY <1>6 DEF CallbackStep, BeginStat, PublishStat, launcher
<1>7. ASSUME UNCHANGED vars PROVE UNCHANGED <<program, attached>>
  BY <1>7 DEF vars, launcher
<1>. QED BY <1>1, <1>2, <1>3, <1>4, <1>5, <1>6, <1>7 DEF Next, LaunchStep

(* Every step keeps the valid slots those of one collective.               *)
LEMMA MeasurementsStep ==
  ASSUME HandOverInv, SamePlan, OneMeasurement, [Next]_vars
  PROVE  OneMeasurement'
<1>. USE DEF segment, stats, params, barrier, progress, reading, callbacks, launcher
<1>. SUFFICES ASSUME program'.depth = 1, attached'[0] PROVE Measurements'
  BY DEF OneMeasurement
<1>. Types /\ Progress /\ Together /\ Attachment
  BY DEF HandOverInv
<1>1. program' = program /\ ((\A r \in Ranks : ~ Attach(r)) => attached' = attached)
  BY WhatStays
<1>2. attached[0] => Measurements
  BY <1>1 DEF OneMeasurement
<1>3. ASSUME NEW r \in Ranks, Attach(r) PROVE Measurements'
  BY <1>2, <1>3, AttachMeasurements
<1>. SUFFICES ASSUME \A r \in Ranks : ~ Attach(r) PROVE Measurements'
  BY <1>3
<1>. Measurements /\ attached[0] /\ program.depth = 1
  BY <1>1, <1>2
<1>5. ASSUME NEW r \in Ranks, NEW from \in LauncherStates, NEW to \in LauncherStates, Move(r, from, to),
             UNCHANGED <<callbacks, slots, stat_epoch, launched, used>>, from # "app", to # "clear",
             from \notin {"consumed", "any", "all", "clear"}
      PROVE  Measurements'
  <2>1. \A q \in Ranks : Busy(q) => pc'[q] = "app"
    BY <1>5, NotBusy DEF Move
  <2>2. CASE r # 0
    <3>1. pc'[0] = pc[0]
      BY <1>5, <2>2, RankNumbers DEF Move
    <3>2. \A q \in Ranks : AwaitsAll(q)'
      BY <1>5, <3>1, AwaitsUndisturbed
    <3>. QED BY <1>5, <2>1, <3>1, <3>2, MeasurementsUndisturbed DEF Measurements, PublishedLast
  <2>3. CASE r = 0
    <3>1. pc[0] = from /\ pc'[0] = to
      BY <1>5, <2>3 DEF Move
    <3>2. \A q \in Ranks : ~ slots[q].valid
      BY <1>5, <3>1 DEF Measurements, PublishedLast
    <3>3. \A q \in Ranks : AwaitsAll(q)'
      BY <1>5, <3>2, AwaitsUndisturbed, RankNumbers DEF Current
    <3>. QED BY <1>5, <2>1, <3>1, <3>2, <3>3, MeasurementsUndisturbed
  <2>. QED BY <2>2, <2>3
<1>6. CASE WriteEntry \/ WriteVersion \/ SignalParamWritten
  <2>1. UNCHANGED <<callbacks, slots, stat_epoch, launched, used>>
    BY <1>6 DEF WriteEntry, WriteVersion, SignalParamWritten
  <2>2. PICK from \in {"write", "version", "signal"}, to \in {"version", "signal", "read"} : Move(0, from, to)
    BY <1>6, Moves, RankNumbers
  <2>. QED BY <1>5, <2>1, <2>2, RankNumbers DEF LauncherStates
<1>7. ASSUME NEW r \in Ranks,
             \/ ReadVersion(r) \/ CopyEntry(r) \/ MergeParams(r) \/ Consume(r)
             \/ LoadSense(r) \/ Arrive(r) \/ ResetCount(r) \/ FlipSense(r) \/ SeeSense(r)
      PROVE  Measurements'
  <2>1. UNCHANGED <<callbacks, slots, stat_epoch, launched, used>>
    BY <1>7 DEF ReadVersion, CopyEntry, MergeParams, Consume, LoadSense, Arrive, ResetCount, FlipSense, SeeSense
  <2>2. PICK from \in {"read", "snapshot", "recheck", "consume", "sense", "arrive", "reset", "flip", "wait"},
             to \in {"read", "snapshot", "recheck", "consume", "sense", "arrive", "reset", "flip", "wait", "plan"} :
           Move(r, from, to)
    BY <1>7, Moves
  <2>. QED BY <1>5, <2>1, <2>2 DEF LauncherStates
<1>8. CASE UNCHANGED vars
  <2>1. UNCHANGED <<callbacks, slots, stat_epoch, launched, used, pc>>
    BY <1>8 DEF vars
  <2>2. \A q \in Ranks : AwaitsAll(q)'
    BY <2>1, AwaitsUndisturbed
  <2>. QED BY <2>1, <2>2, MeasurementsUndisturbed DEF Measurements, MeasuresLast, PublishedLast
<1>. QED
  BY <1>6, <1>7, <1>8, BeginLaunchMeasurements, AggregateMeasurements, LaunchMeasurements, BeginMeasurement,
     PublishMeasurement
     DEF Next, LaunchStep, ShmRoundBegin, CallbackStep

(* The whole invariant is inductive.                                       *)
LEMMA WholeInvariant ==
  ASSUME "crashed" \notin Leftovers
  PROVE  Spec => []IInv
<1>1. Init => OneMeasurement
  BY RankNumbers, Zenon DEF Init, OneMeasurement
<1>2. HandOverInv /\ SameCaches /\ SamePlans /\ OneMeasurement /\ [Next]_vars => OneMeasurement'
  BY MeasurementsStep DEF SamePlans
<1>. QED BY <1>1, <1>2, AgreementInvariant, PTL DEF Spec, IInv

(* The hand-over as a whole: rank 0 never rewrites an entry that is being  *)
(* read (WriteParams, ReadParams), param_read_count counts the ranks that  *)
(* still have to read and never goes below 0 (Consume), and the statistics *)
(* that ReadAllStatsAndAggregate combines are of one collective when only  *)
(* one is in flight.                                                       *)
THEOREM HandOverCorrect == "crashed" \notin Leftovers => (Spec => []HandOver)
<1>. SUFFICES ASSUME "crashed" \notin Leftovers PROVE Spec => []HandOver
  OBVIOUS
<1>1. ASSUME IInv PROVE StatsOfOneCollective
  <2>. SUFFICES ASSUME program.depth = 1, pc[0] = "clear", NEW r \in Ranks PROVE slots[r].coll = launched[0]
    BY DEF StatsOfOneCollective
  <2>1. attached[0]
    BY <1>1, RankNumbers DEF IInv, HandOverInv, Attachment, RankAttached
  <2>. QED BY <1>1, <2>1 DEF IInv, OneMeasurement, Measurements, PublishedLast
<1>2. IInv => HandOver
  BY <1>1, HandOverSafe DEF IInv, HandOver
<1>. QED BY <1>2, WholeInvariant, PTL
=============================================================================
